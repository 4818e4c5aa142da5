------------------------- MODULE FilePromise_proofs -------------------------
(***************************************************************************)
(* Without overlapping of slow sources a queue item keeps the promise of   *)
(* BundleFile, the count of the bundle is exact, and no download stays     *)
(* attached behind its end: for every file, block size, set of full and    *)
(* partial sources, and whether downloads use several segments or one.     *)
(***************************************************************************)
EXTENDS FileDownloads_proofs

-----------------------------------------------------------------------------
(* All segments are cut at the borders of blocks, or are the blank segment *)
(* that stands for nothing found.                                          *)

IsBorder(x) == x = Size \/ \E k \in Nat : x = k * BlockSize

CutSeg(s) ==
    /\ InFile(s)
    /\ s = Seg(0, 0) \/ (s.size > 0 /\ IsBorder(s.start) /\ IsBorder(EndOf(s)))

\* A download that was created when there was nothing to do asks for nothing.
CutOrNone(s) == CutSeg(s) \/ s = NoMoreSegments.seg

\* No segment of the set has a byte of a.
Misses(a, segments) == \A s \in segments : ~Intersect(a, s)

LEMMA BlankSeg ==
  CutSeg(Seg(0, 0)) /\ Seg(0, 0).start = 0 /\ EndOf(Seg(0, 0)) = 0 /\ Seg(0, 0).size = 0
<1>1. /\ Seg(0, 0) \in Segment /\ Seg(0, 0).start = 0 /\ EndOf(Seg(0, 0)) = 0
      /\ Seg(0, 0).size = 0
  BY SegEnds
<1> QED BY <1>1, SegmentsAssumption DEF CutSeg, InFile

LEMMA CutSegFacts ==
  ASSUME NEW s, CutSeg(s)
  PROVE  /\ s \in Segment /\ s.start \in Nat /\ EndOf(s) \in Nat /\ s.size \in Nat
         /\ EndOf(s) = s.start + s.size
         /\ EndOf(s) <= Size
         /\ s.size = 0 => s.start = 0 /\ EndOf(s) = 0
<1>1. s \in Segment /\ s.start >= 0 /\ EndOf(s) <= Size BY DEF CutSeg, InFile
<1>2. s.start \in Int /\ s.size \in Int /\ EndOf(s) = s.start + s.size BY <1>1, SegmentType DEF EndOf
<1>3. CASE s = Seg(0, 0)
  <2>1. s.start = 0 /\ s.size = 0 BY <1>3, SegEnds
  <2> QED BY <2>1, <1>1, <1>2
<1>4. CASE s.size > 0 BY <1>1, <1>2, <1>4
<1> QED BY <1>3, <1>4 DEF CutSeg

LEMMA NoneFacts ==
  /\ NoMoreSegments.seg.start = -1 /\ EndOf(NoMoreSegments.seg) = -1
  /\ Positions(NoMoreSegments.seg) = {}
  /\ \A segments : (\A s \in segments : CutSeg(s)) => Misses(NoMoreSegments.seg, segments)
<1>1. /\ NoMoreSegments.seg.start = -1 /\ EndOf(NoMoreSegments.seg) = -1
  BY DEF NoMoreSegments, EndOf
<1>2. Positions(NoMoreSegments.seg) = {} BY <1>1 DEF Positions
<1>3. ASSUME NEW s, CutSeg(s) PROVE ~Intersect(NoMoreSegments.seg, s)
  <2>1. s.start \in Nat BY <1>3, CutSegFacts
  <2> QED BY <2>1, <1>1 DEF Intersect
<1> QED BY <1>1, <1>2, <1>3, Zenon DEF Misses

\* Two multiples of the block size that differ are a block apart.
LEMMA BlockSteps ==
  ASSUME NEW j \in Nat, NEW k \in Nat
  PROVE  /\ j * BlockSize \in Nat
         /\ j * BlockSize < k * BlockSize + BlockSize => j * BlockSize <= k * BlockSize
<1>0. BlockSize \in Nat \ {0} BY SegmentsAssumption
<1>1. CASE j <= k
  <2>1. k - j \in Nat BY <1>1
  <2>2. (k - j) * BlockSize >= 0 BY <2>1, <1>0
  <2>3. k * BlockSize = j * BlockSize + (k - j) * BlockSize BY <2>1, <1>0
  <2> QED BY <2>2, <2>3, <1>0
<1>2. CASE j >= k + 1
  <2>1. j - (k + 1) \in Nat BY <1>2
  <2>2. (j - (k + 1)) * BlockSize >= 0 BY <2>1, <1>0
  <2>3. j * BlockSize = k * BlockSize + BlockSize + (j - (k + 1)) * BlockSize BY <2>1, <1>0
  <2> QED BY <2>2, <2>3, <1>0
<1> QED BY <1>1, <1>2

LEMMA RoundBorders ==
  ASSUME NEW k \in Nat
  PROVE  RoundDown(k * BlockSize, BlockSize) = k * BlockSize /\ RoundUp(k * BlockSize, BlockSize) = k * BlockSize
<1>0. BlockSize \in Nat \ {0} BY SegmentsAssumption
<1>1. BlockSize \div 2 \in Nat /\ BlockSize \div 2 < BlockSize BY <1>0
<1> DEFINE r == BlockSize \div 2
<1> HIDE DEF r
<1>2. (k * BlockSize + r) \div BlockSize = k BY <1>0, <1>1 DEF r
<1>3. (k * BlockSize + BlockSize - 1) \div BlockSize = k BY <1>0
<1>4. RoundDown(k * BlockSize, BlockSize) = k * BlockSize BY <1>2 DEF RoundDown, r
<1>5. RoundUp(k * BlockSize, BlockSize) = k * BlockSize BY <1>3 DEF RoundUp
<1> QED BY <1>4, <1>5

LEMMA MultipleOf ==
  ASSUME NEW n \in Nat, n % BlockSize = 0
  PROVE  \E m \in Nat : n = m * BlockSize
<1>0. BlockSize \in Nat \ {0} BY SegmentsAssumption
<1>1. n \div BlockSize \in Nat BY <1>0
<1>2. n = (n \div BlockSize) * BlockSize BY <1>0
<1> QED BY <1>1, <1>2

LEMMA AlignDownMultiple ==
  ASSUME NEW n \in Nat
  PROVE  \E m \in Nat : AlignDown(n, BlockSize) = m * BlockSize
<1>0. BlockSize \in Nat \ {0} BY SegmentsAssumption
<1>1. n \div BlockSize \in Nat BY <1>0
<1>2. n - (n % BlockSize) = (n \div BlockSize) * BlockSize BY <1>0
<1> QED BY <1>1, <1>2 DEF AlignDown

LEMMA MultiplesAdd ==
  ASSUME NEW j \in Nat, NEW k \in Nat
  PROVE  j * BlockSize + k * BlockSize = (j + k) * BlockSize /\ j + k \in Nat
BY SegmentsAssumption

-----------------------------------------------------------------------------
(* Adding a segment that nobody has: its neighbours touch it and do not    *)
(* overlap it, so that the merged segment holds what its parts held, and   *)
(* the bytes reported are those of the new segment.                        *)

LEMMA NeighboursTouch ==
  ASSUME NEW a, CutSeg(a), \A s \in done : CutSeg(s), Misses(a, done)
  PROVE  /\ \A p \in Predecessors(a) : p \in done /\ EndOf(p) = a.start
         /\ \A s \in Successors(a) : s \in done /\ s.start = EndOf(a)
<1>1. ASSUME NEW p \in Predecessors(a) PROVE p \in done /\ EndOf(p) = a.start
  <2>1. p \in done /\ Precedes(p, a) /\ EndOf(p) >= a.start BY DEF Predecessors
  <2>2. ~Intersect(a, p) BY <2>1 DEF Misses
  <2> QED BY <2>1, <2>2, CutSegFacts DEF Precedes, Intersect
<1>2. ASSUME NEW s \in Successors(a) PROVE s \in done /\ s.start = EndOf(a)
  <2>1. s \in done /\ Precedes(a, s) /\ EndOf(a) >= s.start BY DEF Successors
  <2>2. ~Intersect(a, s) BY <2>1 DEF Misses
  <2> QED BY <2>1, <2>2, CutSegFacts DEF Precedes, Intersect
<1> QED BY <1>1, <1>2

LEMMA NewBytesOfNew ==
  ASSUME NEW a, CutSeg(a), \A s \in done : CutSeg(s), Misses(a, done)
  PROVE  NewBytes(a) = a.size
<1>1. CASE a \notin done /\ Predecessors(a) # {}
  <2> DEFINE p == CHOOSE p \in Predecessors(a) : TRUE
  <2>1. p \in Predecessors(a) BY <1>1
  <2>2. NewBytes(a) = EndOf(a) - p.start - p.size BY <1>1 DEF NewBytes
  <2> HIDE DEF p
  <2>3. p \in done /\ EndOf(p) = a.start BY <2>1, NeighboursTouch
  <2> QED BY <2>2, <2>3, CutSegFacts
<1>2. CASE a \notin done /\ Predecessors(a) = {} /\ Successors(a) # {}
  <2> DEFINE s == CHOOSE s \in Successors(a) : TRUE
  <2>1. s \in Successors(a) BY <1>2
  <2>2. NewBytes(a) = EndOf(s) - a.start - s.size BY <1>2 DEF NewBytes
  <2> HIDE DEF s
  <2>3. s \in done /\ s.start = EndOf(a) BY <2>1, NeighboursTouch
  <2> QED BY <2>2, <2>3, CutSegFacts
<1>3. CASE a \in done \/ (Predecessors(a) = {} /\ Successors(a) = {}) BY <1>3 DEF NewBytes
<1> QED BY <1>1, <1>2, <1>3

\* Where the merged segment begins and ends.
LEMMA MergedEnds ==
  ASSUME done \subseteq Segment, Consolidated(done), NEW a, CutSeg(a), \A s \in done : CutSeg(s),
         Misses(a, done)
  PROVE  /\ Merged(a) \in Segment
         /\ \/ Predecessors(a) = {} /\ Merged(a).start = a.start
            \/ \E p \in done : /\ Predecessors(a) = {p} /\ EndOf(p) = a.start
                               /\ Merged(a).start = p.start
         /\ \/ Successors(a) = {} /\ EndOf(Merged(a)) = EndOf(a)
            \/ \E s \in done : /\ Successors(a) = {s} /\ s.start = EndOf(a)
                               /\ EndOf(Merged(a)) = EndOf(s)
<1> DEFINE p == CHOOSE p \in Predecessors(a) : TRUE
           s == CHOOSE s \in Successors(a) : TRUE
           from == IF Predecessors(a) = {} THEN a.start ELSE p.start
           to == IF Successors(a) = {} THEN EndOf(a) ELSE EndOf(s)
<1>0. a \in Segment /\ a.start \in Nat /\ EndOf(a) \in Nat BY CutSegFacts
<1>1. Predecessors(a) # {} => /\ p \in done /\ EndOf(p) = a.start
                              /\ Predecessors(a) = {p}
  <2> SUFFICES ASSUME Predecessors(a) # {}
               PROVE  p \in done /\ EndOf(p) = a.start /\ Predecessors(a) = {p} OBVIOUS
  <2>1. p \in Predecessors(a) OBVIOUS
  <2> HIDE DEF p
  <2>2. \A q \in Predecessors(a) : q = p BY <2>1, <1>0, OnePredecessor
  <2> QED BY <2>1, <2>2, NeighboursTouch
<1>2. Successors(a) # {} => /\ s \in done /\ s.start = EndOf(a)
                            /\ Successors(a) = {s}
  <2> SUFFICES ASSUME Successors(a) # {}
               PROVE  s \in done /\ s.start = EndOf(a) /\ Successors(a) = {s} OBVIOUS
  <2>1. s \in Successors(a) OBVIOUS
  <2> HIDE DEF s
  <2>2. \A t \in Successors(a) : t = s BY <2>1, <1>0, OneSuccessor
  <2> QED BY <2>1, <2>2, NeighboursTouch
<1> HIDE DEF p, s
<1>3. from \in Int /\ to \in Int BY <1>0, <1>1, <1>2, CutSegFacts
<1>4. Merged(a) = Seg(from, to) BY DEF Merged, p, s
<1>5. Merged(a) \in Segment /\ Merged(a).start = from /\ EndOf(Merged(a)) = to
  <2> HIDE DEF from, to
  <2> QED BY <1>3, <1>4, SegEnds
<1> QED BY <1>1, <1>2, <1>5

LEMMA MergedCut ==
  ASSUME done \subseteq Segment, Consolidated(done), NEW a, CutSeg(a), \A s \in done : CutSeg(s),
         Misses(a, done)
  PROVE  CutSeg(Merged(a))
<1> DEFINE m == Merged(a)
<1>1. m \in Segment BY MergedEnds
<1>2. m.start >= 0 /\ m.start <= a.start /\ EndOf(a) <= EndOf(m) /\ EndOf(m) <= Size
  BY MergedEnds, CutSegFacts
<1>3. CASE a.size > 0
  <2>1. IsBorder(a.start) /\ IsBorder(EndOf(a)) BY <1>3, SegEnds DEF CutSeg
  <2>2. \A s \in done : s.size > 0 => IsBorder(s.start) /\ IsBorder(EndOf(s)) BY SegEnds DEF CutSeg
  <2>3. IsBorder(0) BY SegmentsAssumption DEF IsBorder
  <2>4. \A s \in done : IsBorder(s.start) /\ IsBorder(EndOf(s))
    BY <2>2, <2>3, CutSegFacts
  <2>5. IsBorder(m.start) /\ IsBorder(EndOf(m)) BY <2>1, <2>4, MergedEnds
  <2>6. m.size > 0 BY <1>1, <1>2, <1>3, CutSegFacts, SegmentType DEF EndOf
  <2> QED BY <1>1, <1>2, <2>5, <2>6 DEF CutSeg, InFile
<1>4. CASE a.size = 0
  <2>1. a.start = 0 /\ EndOf(a) = 0 BY <1>4, CutSegFacts
  <2>2. Predecessors(a) = {}
    <3>1. \A p \in Predecessors(a) : p \in done /\ Precedes(p, a) BY DEF Predecessors
    <3> QED BY <3>1, <2>1, <1>4, CutSegFacts DEF Precedes
  <2>3. m.start = 0 BY <2>1, <2>2, MergedEnds
  <2>4. CASE Successors(a) = {}
    <3>1. EndOf(m) = 0 BY <2>1, <2>4, MergedEnds
    <3>2. m = Seg(0, 0) BY <3>1, <2>3, <1>1 DEF Segment, Seg, EndOf
    <3> QED BY <3>2, BlankSeg
  <2>5. CASE Successors(a) # {}
    <3>1. PICK s \in done : s.start = EndOf(a) /\ EndOf(m) = EndOf(s) BY <2>5, MergedEnds
    <3>2. m = s BY <3>1, <2>1, <2>3, <1>1 DEF Segment, EndOf
    <3> QED BY <3>1, <3>2
  <2> QED BY <2>4, <2>5
<1> QED BY <1>3, <1>4, CutSegFacts

\* Another segment that misses the parts misses the whole.
LEMMA MergedMissed ==
  ASSUME done \subseteq Segment, Consolidated(done), NEW a, CutSeg(a), \A s \in done : CutSeg(s),
         Misses(a, done), NEW b, CutSeg(b), ~Intersect(a, b), Misses(b, done)
  PROVE  Misses(b, DoneAfter(a))
<1> DEFINE m == Merged(a)
<1>1. ~Intersect(b, m)
  <2>1. \A s \in done : ~Intersect(b, s) BY DEF Misses
  <2>2. m \in Segment BY MergedEnds
  <2>3. CASE b.size = 0
    <3>1. b.start = 0 /\ EndOf(b) = 0 BY <2>3, CutSegFacts
    <3>2. CutSeg(m) BY MergedCut
    <3> QED BY <3>1, <3>2, CutSegFacts DEF Intersect
  <2>4. CASE b.size > 0
    <3>1. b.start < EndOf(b) /\ b.start \in Nat /\ EndOf(b) \in Nat BY <2>4, CutSegFacts
    <3>2. m.start \in Int /\ EndOf(m) \in Int BY <2>2, SegmentType
    <3>3. a.start \in Nat /\ EndOf(a) \in Nat /\ a.start <= EndOf(a)
      <4>1. a.start \in Nat /\ a.size \in Nat /\ EndOf(a) = a.start + a.size BY CutSegFacts
      <4> QED BY <4>1
    <3>4. ~(b.start < EndOf(a) /\ a.start < EndOf(b)) BY <3>1, <3>3 DEF Intersect
    <3>5. m.start = a.start \/ (b.start >= a.start \/ EndOf(b) <= m.start)
      BY MergedEnds, <2>1, <3>1, CutSegFacts DEF Intersect
    <3>6. EndOf(m) = EndOf(a) \/ (EndOf(b) <= EndOf(a) \/ b.start >= EndOf(m))
      BY MergedEnds, <2>1, <3>1, CutSegFacts DEF Intersect
    <3> QED BY <3>1, <3>2, <3>3, <3>4, <3>5, <3>6 DEF Intersect
  <2> QED BY <2>3, <2>4, CutSegFacts
<1> QED BY <1>1 DEF Misses, DoneAfter

\* The finished positions afterwards.
LEMMA MergedPositions ==
  ASSUME done \subseteq Segment, Consolidated(done), NEW a, CutSeg(a), \A s \in done : CutSeg(s),
         Misses(a, done)
  PROVE  PositionsOf(DoneAfter(a)) = PositionsOf(done) \union Positions(a)
<1> DEFINE m == Merged(a)
           Old == Predecessors(a) \union Successors(a)
<1>a. a.start \in Nat /\ EndOf(a) \in Nat /\ a.start <= EndOf(a) 
  <2>1. a.start \in Nat /\ a.size \in Nat /\ EndOf(a) = a.start + a.size BY CutSegFacts
  <2> QED BY <2>1
<1>1. CASE a \in done BY <1>1 DEF DoneAfter, PositionsOf
<1>2. CASE a \notin done
  <2>1. DoneAfter(a) = (done \ Old) \union {m} BY <1>2 DEF DoneAfter
  <2>2. Old \subseteq done BY DEF Predecessors, Successors
  <2>3. Positions(m) = Positions(a) \union PositionsOf(Old)
    <3>m. m.start \in Int /\ EndOf(m) \in Int BY MergedEnds, SegmentType
    <3> DEFINE Ps == m.start .. (a.start - 1)
               Ss == EndOf(a) .. (EndOf(m) - 1)
    <3>1. PositionsOf(Predecessors(a)) = Ps
      <4>1. CASE Predecessors(a) = {} /\ m.start = a.start
        <5>1. Ps = {} BY <4>1, <1>a
        <5> QED BY <5>1, <4>1 DEF PositionsOf
      <4>2. ASSUME NEW p \in done, Predecessors(a) = {p}, EndOf(p) = a.start, m.start = p.start
            PROVE  PositionsOf(Predecessors(a)) = Ps
        <5>1. Positions(p) = Ps BY <4>2 DEF Positions
        <5> QED BY <5>1, <4>2 DEF PositionsOf
      <4> QED BY <4>1, <4>2, MergedEnds
    <3>2. PositionsOf(Successors(a)) = Ss
      <4>1. CASE Successors(a) = {} /\ EndOf(m) = EndOf(a)
        <5>1. Ss = {} BY <4>1, <1>a
        <5> QED BY <5>1, <4>1 DEF PositionsOf
      <4>2. ASSUME NEW s \in done, Successors(a) = {s}, s.start = EndOf(a), EndOf(m) = EndOf(s)
            PROVE  PositionsOf(Successors(a)) = Ss
        <5>1. Positions(s) = Ss BY <4>2 DEF Positions
        <5> QED BY <5>1, <4>2 DEF PositionsOf
      <4> QED BY <4>1, <4>2, MergedEnds
    <3>3. m.start <= a.start /\ EndOf(a) <= EndOf(m) BY MergedEnds, CutSegFacts
    <3>4. Positions(m) = Ps \union Positions(a) \union Ss
      <4> HIDE DEF m
      <4> QED BY <3>3, <3>m, <1>a DEF Positions
    <3>5. PositionsOf(Old) = PositionsOf(Predecessors(a)) \union PositionsOf(Successors(a)) BY DEF PositionsOf
    <3> QED BY <3>1, <3>2, <3>4, <3>5
  <2>4. PositionsOf(done) = PositionsOf(done \ Old) \union PositionsOf(Old) BY <2>2 DEF PositionsOf
  <2>5. PositionsOf(DoneAfter(a)) = PositionsOf(done \ Old) \union Positions(m) BY <2>1 DEF PositionsOf
  <2> QED BY <2>3, <2>4, <2>5
<1> QED BY <1>1, <1>2

\* Segments that miss each other have no position in common.
LEMMA MissedPositions ==
  ASSUME NEW a, CutSeg(a), NEW b, CutSeg(b), ~Intersect(a, b)
  PROVE  Positions(a) \intersect Positions(b) = {}
<1>1. a.start \in Nat /\ EndOf(a) \in Nat /\ b.start \in Nat /\ EndOf(b) \in Nat BY CutSegFacts
<1> QED BY <1>1 DEF Positions, Intersect

LEMMA PositionsInFile ==
  ASSUME NEW segments \in SUBSET Segment, \A s \in segments : InFile(s)
  PROVE  IsFiniteSet(PositionsOf(segments)) /\ PositionsOf(segments) \subseteq 0 .. Size - 1
<1>1. PositionsOf(segments) \subseteq 0 .. Size - 1
  BY SegmentType, SegmentsAssumption DEF PositionsOf, Positions, InFile
<1>2. IsFiniteSet(0 .. Size - 1) BY FS_Interval, SegmentsAssumption, SMT
<1> QED BY <1>1, <1>2, FS_Subset

LEMMA MergedSize ==
  ASSUME done \subseteq Segment, Consolidated(done), NEW a, CutSeg(a), \A s \in done : CutSeg(s),
         Misses(a, done)
  PROVE  SizeOf(DoneAfter(a)) = SizeOf(done) + a.size
<1>1. IsFiniteSet(PositionsOf(done)) BY PositionsInFile DEF CutSeg
<1>2. a.start \in Int /\ a.size \in Nat /\ EndOf(a) = a.start + a.size /\ EndOf(a) \in Int BY CutSegFacts
<1>3. IsFiniteSet(Positions(a)) /\ Cardinality(Positions(a)) = a.size
  <2>1. EndOf(a) - 1 \in Int BY <1>2
  <2>2. /\ IsFiniteSet(Positions(a))
        /\ Cardinality(Positions(a)) = IF a.start > EndOf(a) - 1 THEN 0 ELSE EndOf(a) - 1 - a.start + 1
    BY <1>2, <2>1, FS_Interval DEF Positions
  <2> QED BY <1>2, <2>2
<1>4. PositionsOf(done) \intersect Positions(a) = {}
  BY MissedPositions DEF PositionsOf, Misses
<1>5. Cardinality(PositionsOf(done) \intersect Positions(a)) = 0 BY <1>4, FS_EmptySet
<1>6. Cardinality(PositionsOf(done) \union Positions(a)) = Cardinality(PositionsOf(done)) + a.size
  <2>1. Cardinality(PositionsOf(done)) \in Nat BY <1>1, FS_CardinalityType
  <2>2. Cardinality(PositionsOf(done) \union Positions(a))
          = Cardinality(PositionsOf(done)) + a.size - 0
    BY <1>1, <1>3, <1>5, FS_Union
  <2> QED BY <2>1, <2>2, <1>2
<1> QED BY <1>6, MergedPositions DEF SizeOf

-----------------------------------------------------------------------------
(* Positions of consolidated segments. *)

\* An interval of finished positions lies in one finished segment.
LEMMA IntervalCovered ==
  ASSUME NEW fin \in SUBSET Segment, Consolidated(fin), NEW x \in Int, NEW y \in Int, x < y,
         x .. y - 1 \subseteq PositionsOf(fin)
  PROVE  \E s \in fin : s.start <= x /\ y <= EndOf(s)
<1>1. x \in x .. y - 1 OBVIOUS
<1>2. PICK s \in fin : x \in Positions(s) BY <1>1 DEF PositionsOf
<1>3. s.start <= x /\ x < EndOf(s) BY <1>2, SegmentType DEF Positions
<1>4. ASSUME EndOf(s) < y PROVE FALSE
  <2>1. EndOf(s) \in x .. y - 1 BY <1>3, <1>4, SegmentType
  <2>2. PICK t \in fin : EndOf(s) \in Positions(t) BY <2>1 DEF PositionsOf
  <2>3. t.start <= EndOf(s) /\ EndOf(s) < EndOf(t) BY <2>2, SegmentType DEF Positions
  <2>4. s = t \/ EndOf(s) < t.start \/ EndOf(t) < s.start BY DEF Consolidated
  <2> QED BY <1>3, <2>3, <2>4, SegmentType
<1> QED BY <1>3, <1>4, SegmentType

\* An incomplete file lacks a position.
LEMMA PositionMissing ==
  ASSUME NEW fin \in SUBSET Segment, Consolidated(fin), fin # {Seg(0, Size)}
  PROVE  \E x \in 0 .. Size - 1 : x \notin PositionsOf(fin)
<1> SUFFICES ASSUME 0 .. Size - 1 \subseteq PositionsOf(fin) PROVE FALSE OBVIOUS
<1>1. PICK s \in fin : s.start <= 0 /\ Size <= EndOf(s) BY IntervalCovered, SegmentsAssumption
<1>2. s.start = 0 /\ s.size = Size BY <1>1, SegmentType, SegmentsAssumption DEF Consolidated, EndOf
<1>3. s = Seg(0, Size) BY <1>2, SegmentsAssumption DEF Segment, Seg
<1>4. ASSUME NEW t \in fin PROVE t = s
  <2>1. t.start >= 0 /\ t.size >= 0 /\ EndOf(t) <= Size BY DEF Consolidated
  <2>2. s = t \/ EndOf(s) < t.start \/ EndOf(t) < s.start BY DEF Consolidated
  <2> QED BY <1>1, <1>2, <2>1, <2>2, SegmentType, SegmentsAssumption DEF EndOf
<1> QED BY <1>3, <1>4

LEMMA WholeFile == PositionsOf({Seg(0, Size)}) = 0 .. Size - 1
<1>1. Seg(0, Size).start = 0 /\ EndOf(Seg(0, Size)) = Size BY SegEnds, SegmentsAssumption
<1> QED BY <1>1 DEF PositionsOf, Positions

\* A segment with bytes that is in no finished segment has an unfinished one.
LEMMA UnfinishedPosition ==
  ASSUME NEW fin \in SUBSET Segment, Consolidated(fin), NEW b, b \in Segment, b.size > 0,
         b.start >= 0, EndOf(b) <= Size, \A s \in fin : ~Covers(s, b)
  PROVE  \E x \in 0 .. Size - 1 : x \in Positions(b) /\ x \notin PositionsOf(fin)
<1>1. b.start \in Int /\ EndOf(b) \in Int /\ b.start < EndOf(b) BY SegmentType DEF EndOf
<1>2. ~(b.start .. EndOf(b) - 1 \subseteq PositionsOf(fin))
  <2> SUFFICES ASSUME b.start .. EndOf(b) - 1 \subseteq PositionsOf(fin) PROVE FALSE OBVIOUS
  <2>1. PICK s \in fin : s.start <= b.start /\ EndOf(b) <= EndOf(s) BY <1>1, IntervalCovered
  <2> QED BY <2>1, <1>1, SegmentType DEF Covers
<1>3. PICK x \in b.start .. EndOf(b) - 1 : x \notin PositionsOf(fin) BY <1>2
<1> QED BY <1>1, <1>3, SegmentsAssumption DEF Positions

-----------------------------------------------------------------------------
(* The segments getNextSegment finds are cut at borders, and none of their *)
(* bytes is finished.                                                      *)

LEMMA FreeBlockFacts ==
  ASSUME NEW fin \in SUBSET Segment, NEW target \in Int, NEW start \in BlockStarts,
         NEW b \in LargestBlocks(fin, start, target)
  PROVE  \E n \in 1 .. target :
            /\ n % BlockSize = 0 /\ FreeBlock(fin, start, n)
            /\ b = BlockAt(start, n) /\ start \in Nat /\ start < Size
            /\ b \in Segment /\ b.start = start
            /\ EndOf(b) = (IF start + n < Size THEN start + n ELSE Size)
<1>1. PICK k \in 0 .. ((Size - 1) \div BlockSize) : start = k * BlockSize BY DEF BlockStarts
<1>2. start \in Nat /\ start < Size
  <2>0. BlockSize \in Nat \ {0} /\ Size \in Nat \ {0} BY SegmentsAssumption
  <2> DEFINE q == (Size - 1) \div BlockSize
  <2>1. q \in Nat /\ q * BlockSize <= Size - 1 BY <2>0
  <2> HIDE DEF q
  <2>2. k \in Nat /\ k <= q BY <1>1, <2>1 DEF q
  <2>3. q - k \in Nat BY <2>1, <2>2
  <2>4. (q - k) * BlockSize >= 0 BY <2>3, <2>0
  <2>5. q * BlockSize = k * BlockSize + (q - k) * BlockSize BY <2>1, <2>2, <2>0
  <2>6. k * BlockSize \in Nat BY <2>2, <2>0
  <2> QED BY <1>1, <2>0, <2>1, <2>4, <2>5, <2>6
<1>3. PICK n \in LargestSizes(fin, start, target) : b = BlockAt(start, n) BY DEF LargestBlocks
<1>4. n \in 1 .. target /\ n % BlockSize = 0 /\ FreeBlock(fin, start, n)
  BY <1>3 DEF LargestSizes, FreeSizes
<1>5. b = Seg(start, IF start + n < Size THEN start + n ELSE Size) BY <1>3 DEF BlockAt
<1>6. (IF start + n < Size THEN start + n ELSE Size) \in Int BY <1>2, <1>4, SegmentsAssumption
<1>7. /\ b \in Segment /\ b.start = start
      /\ EndOf(b) = (IF start + n < Size THEN start + n ELSE Size)
  <2> DEFINE to == IF start + n < Size THEN start + n ELSE Size
  <2>1. start \in Int /\ to \in Int /\ b = Seg(start, to) BY <1>2, <1>5, <1>6
  <2> HIDE DEF to
  <2>2. b \in Segment /\ b.start = start /\ EndOf(b) = to BY <2>1, SegEnds
  <2> QED BY <2>2 DEF to
<1> QED BY <1>2, <1>3, <1>4, <1>7

\* A block of the smallest size only has to be unfinished somewhere; finished
\* segments end at borders, so that it is unfinished everywhere.
LEMMA FreeBlockCut ==
  ASSUME NEW fin \in SUBSET Segment, \A s \in fin : CutSeg(s), NEW target \in Int,
         NEW start \in BlockStarts, NEW b \in LargestBlocks(fin, start, target)
  PROVE  CutSeg(b) /\ b.size > 0 /\ Misses(b, fin)
<1>0. BlockSize \in Nat \ {0} /\ Size \in Nat \ {0} BY SegmentsAssumption
<1>1. PICK n \in 1 .. target :
            /\ n % BlockSize = 0 /\ FreeBlock(fin, start, n)
            /\ b = BlockAt(start, n) /\ start \in Nat /\ start < Size
            /\ b \in Segment /\ b.start = start
            /\ EndOf(b) = (IF start + n < Size THEN start + n ELSE Size)
  BY FreeBlockFacts
<1>2. PICK k \in Nat : start = k * BlockSize
  <2>1. (Size - 1) \div BlockSize \in Nat BY <1>0
  <2> QED BY <2>1 DEF BlockStarts
<1>3. PICK m \in Nat : n = m * BlockSize BY <1>1, MultipleOf
<1>4. start + n = (k + m) * BlockSize /\ k + m \in Nat BY <1>2, <1>3, MultiplesAdd
<1>5. IsBorder(b.start) /\ IsBorder(EndOf(b)) BY <1>1, <1>2, <1>4 DEF IsBorder
<1>6. b.size > 0 /\ EndOf(b) <= Size /\ b.start < EndOf(b)
  BY <1>0, <1>1, SegmentType DEF EndOf
<1>7. CutSeg(b) BY <1>1, <1>5, <1>6 DEF CutSeg, InFile
<1>8. ASSUME NEW s \in fin, Intersect(b, s) PROVE FALSE
  <2>1. CutSeg(s) OBVIOUS
  <2>2. s.size > 0 BY <2>1, <1>1, <1>8, CutSegFacts DEF Intersect
  <2>3. IsBorder(s.start) /\ IsBorder(EndOf(s))
    <3>1. Seg(0, 0).size = 0 BY BlankSeg
    <3> QED BY <2>1, <2>2, <3>1 DEF CutSeg
  <2>4. CASE n > BlockSize BY <2>4, <1>0, <1>1, <1>8 DEF FreeBlock
  <2>5. CASE n <= BlockSize
    <3>1. ~Covers(s, b) BY <2>5, <1>1 DEF FreeBlock
    <3>2. m = 1
      <4>1. m # 0 BY <1>1, <1>3, <1>0
      <4>2. m * BlockSize < 1 * BlockSize + BlockSize BY <2>5, <1>3, <1>0
      <4>3. m * BlockSize <= 1 * BlockSize BY <4>2, BlockSteps
      <4>4. CASE m >= 2
        <5>1. m - 2 \in Nat BY <4>4
        <5>2. (m - 2) * BlockSize >= 0 BY <5>1, <1>0
        <5>3. m * BlockSize = (m - 2) * BlockSize + BlockSize + BlockSize BY <5>1, <1>0
        <5> QED BY <5>2, <5>3, <4>3, <1>0
      <4> QED BY <4>1, <4>4
    <3>3. n = BlockSize BY <3>2, <1>3, <1>0
    <3>4. s.start \in Nat /\ EndOf(s) \in Nat /\ EndOf(s) <= Size /\ s.start < EndOf(s)
      BY <2>1, <2>2, CutSegFacts
    <3>5. s.start < EndOf(b) /\ b.start < EndOf(s) BY <1>8 DEF Intersect
    <3>6. s.start <= b.start
      <4>1. PICK j \in Nat : s.start = j * BlockSize BY <2>3, <3>4, <1>0 DEF IsBorder
      <4>2. j * BlockSize < k * BlockSize + BlockSize BY <4>1, <3>3, <3>5, <1>0, <1>1, <1>2, <3>4
      <4> QED BY <4>1, <4>2, BlockSteps, <1>1, <1>2
    <3>7. EndOf(b) <= EndOf(s)
      <4>1. CASE EndOf(s) = Size BY <4>1, <1>6
      <4>2. CASE EndOf(s) # Size
        <5>1. PICK j \in Nat : EndOf(s) = j * BlockSize BY <4>2, <2>3 DEF IsBorder
        <5>2. k * BlockSize < j * BlockSize BY <5>1, <3>5, <1>1, <1>2
        <5>3. ~(j * BlockSize < k * BlockSize + BlockSize) BY <5>2, BlockSteps
        <5> QED BY <5>1, <5>3, <3>3, <1>1, <1>2, <3>4, <1>0
      <4> QED BY <4>1, <4>2
    <3> QED BY <3>1, <3>6, <3>7, <3>4, <1>1 DEF Covers
  <2> QED BY <2>4, <2>5, <1>0
<1> QED BY <1>6, <1>7, <1>8 DEF Misses

\* The target size is a number of whole blocks.
LEMMA TargetBlocks ==
  ASSUME NEW fin \in SUBSET Segment, Consolidated(fin), attached \subseteq Conns, NEW wanted \in Nat
  PROVE  (\E m \in Nat : TargetSize(fin, wanted) = m * BlockSize) /\ TargetSize(fin, wanted) >= BlockSize
<1> DEFINE b == DownloadedBytes(fin)
           scaled == (wanted * (Size * Size - b * b)) \div (Size * Size)
           target == IF scaled > wanted \div 4 THEN scaled ELSE wanted \div 4
<1>0. BlockSize \in Nat \ {0} BY SegmentsAssumption
<1>1. b \in Nat BY DownloadedBytesNat
<1>2. Size * Size \in Nat \ {0} BY SegmentsAssumption
<1>3. scaled \in Int
  <2>1. b * b \in Int BY <1>1
  <2>2. Size * Size - b * b \in Int BY <1>2, <2>1
  <2>3. wanted * (Size * Size - b * b) \in Int BY <2>2
  <2>4. ASSUME NEW m \in Int, NEW n \in Nat \ {0} PROVE m \div n \in Int OBVIOUS
  <2> HIDE DEF b
  <2> QED BY <1>2, <2>3, <2>4
<1>4. wanted \div 4 \in Int OBVIOUS
<1>5. target \in Int BY <1>3, <1>4
<1>6. TargetSize(fin, wanted) = IF target > BlockSize THEN RoundDown(target, BlockSize) ELSE BlockSize
  BY DEF TargetSize
<1> HIDE DEF target
<1>7. CASE target > BlockSize
  <2>1. target + BlockSize \div 2 \in Nat BY <1>0, <1>5, <1>7
  <2> DEFINE q == (target + BlockSize \div 2) \div BlockSize
  <2>2. q \in Nat BY <1>0, <2>1
  <2>3. TargetSize(fin, wanted) = q * BlockSize BY <1>6, <1>7 DEF RoundDown
  <2>4. target + BlockSize \div 2 < q * BlockSize + BlockSize BY <1>0, <2>1, <2>2
  <2>5. q # 0 BY <1>0, <1>5, <1>7, <2>1, <2>4
  <2> HIDE DEF q
  <2>6. q - 1 \in Nat BY <2>2, <2>5
  <2>7. (q - 1) * BlockSize >= 0 /\ q * BlockSize = (q - 1) * BlockSize + BlockSize BY <1>0, <2>2, <2>6
  <2> QED BY <1>0, <2>2, <2>3, <2>6, <2>7
<1>8. CASE ~(target > BlockSize)
  <2>1. TargetSize(fin, wanted) = 1 * BlockSize BY <1>0, <1>6, <1>8
  <2> QED BY <2>1, <1>0
<1> QED BY <1>7, <1>8

\* A part of a free block that a partial source has.
LEMMA NeededPartCut ==
  ASSUME NEW fin \in SUBSET Segment, \A s \in fin : CutSeg(s), NEW c \in Conns,
         NEW target \in Int, \E m \in Nat : target = m * BlockSize,
         NEW s \in NeededParts(fin, c, target)
  PROVE  /\ CutSeg(s) /\ Misses(s, fin)
         /\ \E start \in BlockStarts : LargestBlocks(fin, start, target) # {}
<1> DEFINE Low(m, n)  == IF m < n THEN m ELSE n
           High(m, n) == IF m > n THEN m ELSE n
           Free == UNION {LargestBlocks(fin, x, target) : x \in Visited(fin, target)}
           Has == {Seg(Low(Size, p[1] * BlockSize), Low(Size, p[2] * BlockSize)) : p \in Partial[c]}
           Part(b, h) == Seg(High(b.start, h.start),
                             Low(Low(EndOf(b), EndOf(h)), High(b.start, h.start) + target))
<1>0. BlockSize \in Nat \ {0} /\ Size \in Nat \ {0} BY SegmentsAssumption
<1>1. PICK b \in Free, h \in Has : s = Part(b, h) /\ Intersect(b, h) BY DEF NeededParts
<1>2. PICK start \in BlockStarts : b \in LargestBlocks(fin, start, target) BY VisitedStarts
<1>3. CutSeg(b) /\ b.size > 0 /\ Misses(b, fin) BY <1>2, FreeBlockCut
<1>4. target >= 1 BY <1>2, FreeBlockFacts
<1>5. PICK p \in Partial[c] : h = Seg(Low(Size, p[1] * BlockSize), Low(Size, p[2] * BlockSize)) OBVIOUS
<1>6. p[1] \in Nat /\ p[2] \in Nat /\ p[1] < p[2]
  <2>1. Partial[c] \in SUBSET (Nat \X Nat) BY SegmentsAssumption
  <2> QED BY <2>1, SegmentsAssumption
<1> HIDE DEF Free, Has
<1>7. PICK i \in Nat, j \in Nat : i = p[1] /\ j = p[2] /\ i < j BY <1>6
<1>8. i * BlockSize \in Nat /\ j * BlockSize \in Nat /\ i * BlockSize < j * BlockSize
  <2>1. j - i \in Nat \ {0} BY <1>7
  <2>2. (j - i) * BlockSize > 0 BY <2>1, <1>0
  <2>3. j * BlockSize = i * BlockSize + (j - i) * BlockSize BY <1>7, <1>0
  <2> QED BY <2>2, <2>3, <1>0
<1>9. h.start = Low(Size, i * BlockSize) /\ EndOf(h) = Low(Size, j * BlockSize)
  <2> DEFINE lo == Low(Size, i * BlockSize)
             hi == Low(Size, j * BlockSize)
  <2>1. lo \in Int /\ hi \in Int BY <1>0, <1>8
  <2>2. h = Seg(lo, hi) BY <1>5, <1>7
  <2> HIDE DEF lo, hi
  <2>3. h.start = lo /\ EndOf(h) = hi BY <2>1, <2>2, SegEnds
  <2> QED BY <2>3 DEF lo, hi
<1>10. /\ b.start \in Nat /\ EndOf(b) \in Nat /\ b.start < EndOf(b) /\ EndOf(b) <= Size
  BY <1>3, CutSegFacts
<1>11. b.start < EndOf(h) /\ h.start < EndOf(b) BY <1>1 DEF Intersect
<1>12. h.start = i * BlockSize /\ h.start < EndOf(h) /\ EndOf(h) <= Size
  BY <1>0, <1>8, <1>9, <1>10, <1>11
<1>13. EndOf(h) \in Nat BY <1>0, <1>8, <1>9
<1> DEFINE from == High(b.start, h.start)
           to == Low(Low(EndOf(b), EndOf(h)), from + target)
<1>14. /\ from \in Nat /\ to \in Nat /\ from >= b.start /\ to <= EndOf(b) /\ from < to
  BY <1>4, <1>8, <1>10, <1>11, <1>12, <1>13
<1>b. IsBorder(b.start) /\ IsBorder(EndOf(b)) BY <1>3, BlankSeg DEF CutSeg
<1>15. \E k \in Nat : from = k * BlockSize
  <2>1. CASE from = h.start BY <2>1, <1>12
  <2>2. CASE from = b.start BY <2>2, <1>b, <1>10, <1>0 DEF IsBorder
  <2> QED BY <2>1, <2>2
<1>16. IsBorder(to)
  <2>1. CASE to = EndOf(b) BY <2>1, <1>b
  <2>2. CASE to = EndOf(h) BY <2>2, <1>7, <1>8, <1>9 DEF IsBorder
  <2>3. CASE to = from + target
    <3>1. PICK k \in Nat : from = k * BlockSize BY <1>15
    <3>2. PICK m \in Nat : target = m * BlockSize OBVIOUS
    <3>3. from + target = (k + m) * BlockSize /\ k + m \in Nat BY <3>1, <3>2, MultiplesAdd
    <3> QED BY <2>3, <3>3 DEF IsBorder
  <2> QED BY <2>1, <2>2, <2>3
<1>17. s = Seg(from, to) BY <1>1
<1> HIDE DEF from, to
<1>18. s \in Segment /\ s.start = from /\ EndOf(s) = to /\ s.size = to - from
  <2>1. from \in Int /\ to \in Int BY <1>14
  <2>2. /\ Seg(from, to) \in Segment /\ Seg(from, to).start = from /\ EndOf(Seg(from, to)) = to
        /\ Seg(from, to).size = to - from
    BY <2>1, SegEnds
  <2> QED BY <2>2, <1>17
<1>19. CutSeg(s) BY <1>10, <1>14, <1>15, <1>16, <1>18, <1>0 DEF CutSeg, InFile, IsBorder
<1>20. Misses(s, fin)
  <2> SUFFICES ASSUME NEW t \in fin, Intersect(s, t) PROVE FALSE BY DEF Misses
  <2>1. ~Intersect(b, t) BY <1>3 DEF Misses
  <2>2. t.start \in Nat /\ EndOf(t) \in Nat BY CutSegFacts
  <2> QED BY <2>1, <2>2, <1>10, <1>14, <1>18 DEF Intersect
<1> QED BY <1>2, <1>19, <1>20

\* The gap of a file downloaded in one piece: finished segments end at borders,
\* where rounding changes nothing.
LEMMA WholeGapCut ==
  ASSUME NEW fin \in SUBSET Segment, Consolidated(fin), \A s \in fin : CutSeg(s),
         NEW x \in 0 .. Size - 1, x \notin PositionsOf(fin)
  PROVE  CutSeg(WholeGap(fin, BlockSize)) /\ WholeGap(fin, BlockSize).size > 0 /\ Misses(WholeGap(fin, BlockSize), fin)
<1> DEFINE first == CHOOSE s \in fin : \A t \in fin : s = t \/ Precedes(s, t)
           second == CHOOSE s \in fin \ {first} : \A t \in fin \ {first} : s = t \/ Precedes(s, t)
           from == IF fin = {} \/ first.start > 0 THEN 0 ELSE RoundDown(EndOf(first), BlockSize)
           to == IF fin = {} THEN Size
                 ELSE IF first.start > 0 THEN RoundUp(first.start, BlockSize)
                 ELSE IF fin = {first} THEN Size ELSE RoundUp(second.start, BlockSize)
<1>0. BlockSize \in Nat \ {0} /\ Size \in Nat \ {0} BY SegmentsAssumption
<1>1. ASSUME fin # {} PROVE first \in fin /\ \A t \in fin : first = t \/ Precedes(first, t)
  <2>1. \E s \in fin : \A t \in fin : s = t \/ Precedes(s, t) BY <1>1, FirstExists
  <2> QED BY <2>1
<1>2. ASSUME fin # {}, fin # {first}
      PROVE  second \in fin \ {first} /\ \A t \in fin \ {first} : second = t \/ Precedes(second, t)
  <2> DEFINE rest == fin \ {first}
  <2>1. rest \in SUBSET Segment /\ Consolidated(rest) /\ rest # {} BY <1>1, <1>2 DEF Consolidated
  <2>2. \E s \in rest : \A t \in rest : s = t \/ Precedes(s, t)
    <3> HIDE DEF rest
    <3> QED BY <2>1, FirstExists
  <2> QED BY <2>2
<1>3. \A s \in fin : /\ s.start \in Nat /\ EndOf(s) \in Nat /\ s.start <= EndOf(s) /\ EndOf(s) <= Size
                     /\ s.start = EndOf(s) => s.start = 0
  <2> TAKE s \in fin
  <2>1. s.start \in Nat /\ s.size \in Nat /\ EndOf(s) = s.start + s.size /\ EndOf(s) <= Size
    BY CutSegFacts
  <2>2. s.size = 0 => s.start = 0 BY CutSegFacts
  <2> QED BY <2>1, <2>2
<1>4. \A s \in fin : IsBorder(s.start) /\ IsBorder(EndOf(s))
  <2>1. IsBorder(0) BY <1>0 DEF IsBorder
  <2> QED BY <2>1, BlankSeg DEF CutSeg
\* Borders in the file that are not its end are left alone by rounding.
<1>5. ASSUME NEW y \in Nat, IsBorder(y), y < Size PROVE RoundUp(y, BlockSize) = y /\ RoundDown(y, BlockSize) = y
  <2>1. PICK k \in Nat : y = k * BlockSize BY <1>5 DEF IsBorder
  <2> QED BY <2>1, RoundBorders
<1>6. WholeGap(fin, BlockSize) = Seg(from, IF to < Size THEN to ELSE Size) BY DEF WholeGap
<1>a. fin # {} /\ ~(first.start > 0) => from = RoundDown(EndOf(first), BlockSize) OBVIOUS
<1>b. fin # {} /\ first.start > 0 => from = 0 /\ to = RoundUp(first.start, BlockSize) OBVIOUS
<1>c. fin # {} /\ ~(first.start > 0) =>
        to = IF fin = {first} THEN Size ELSE RoundUp(second.start, BlockSize) OBVIOUS
<1>d. fin = {} => from = 0 /\ to = Size OBVIOUS
<1> HIDE DEF first, second, from, to
<1>7. CASE fin = {}
  <2>1. WholeGap(fin, BlockSize) = Seg(0, Size) BY <1>0, <1>6, <1>7, <1>d
  <2>2. /\ Seg(0, Size) \in Segment /\ Seg(0, Size).start = 0 /\ EndOf(Seg(0, Size)) = Size
        /\ Seg(0, Size).size = Size - 0
    <3>1. 0 \in Int /\ Size \in Int BY <1>0
    <3> QED BY <3>1, SegEnds, Zenon
  <2>3. IsBorder(0) /\ IsBorder(Size) BY <1>0 DEF IsBorder
  <2> QED BY <1>0, <1>7, <2>1, <2>2, <2>3 DEF CutSeg, InFile, Misses
<1>8. CASE fin # {} /\ first.start > 0
  <2>1. first \in fin /\ first.start < Size
    <3>1. first \in fin BY <1>1, <1>8
    <3>2. first.start \in Nat /\ EndOf(first) \in Nat /\ first.start # EndOf(first)
      BY <3>1, <1>3, <1>8
    <3>3. first.start <= EndOf(first) /\ EndOf(first) <= Size BY <3>1, <1>3
    <3> QED BY <1>0, <3>1, <3>2, <3>3
  <2> DEFINE y == first.start
  <2>2. y \in Nat /\ IsBorder(y) /\ RoundUp(y, BlockSize) = y BY <1>3, <1>4, <1>5, <2>1
  <2>3. WholeGap(fin, BlockSize) = Seg(0, y) BY <1>6, <1>8, <1>b, <2>1, <2>2
  <2>4. \A t \in fin : y <= t.start BY <1>1, <1>3, <1>8 DEF Precedes
  <2>5. y > 0 /\ y < Size BY <1>8, <2>1
  <2> HIDE DEF y
  <2>6. /\ Seg(0, y) \in Segment /\ Seg(0, y).start = 0 /\ EndOf(Seg(0, y)) = y /\ Seg(0, y).size = y - 0
    <3>1. 0 \in Int /\ y \in Int BY <2>2
    <3> QED BY <3>1, SegEnds, Zenon
  <2>7. IsBorder(0) BY <1>0 DEF IsBorder
  <2>8. CutSeg(WholeGap(fin, BlockSize)) /\ WholeGap(fin, BlockSize).size > 0 BY <1>0, <2>2, <2>3, <2>5, <2>6, <2>7 DEF CutSeg, InFile
  <2>9. Misses(WholeGap(fin, BlockSize), fin) BY <1>3, <2>2, <2>3, <2>4, <2>6 DEF Misses, Intersect
  <2> QED BY <2>8, <2>9
<1>9. CASE fin # {} /\ ~(first.start > 0)
  <2>1. first \in fin /\ first.start = 0 BY <1>1, <1>3, <1>9
  <2> DEFINE y == EndOf(first)
  <2>2. y < Size
    <3> SUFFICES ASSUME ~(y < Size) PROVE FALSE OBVIOUS
    <3>1. y = Size BY <1>0, <1>3, <2>1
    <3>2. x \in Positions(first) BY <2>1, <3>1 DEF Positions
    <3> QED BY <2>1, <3>2 DEF PositionsOf
  <2>3. y \in Nat /\ IsBorder(y) /\ RoundDown(y, BlockSize) = y BY <1>3, <1>4, <1>5, <2>1, <2>2
  <2>4. from = y BY <1>9, <1>a, <2>3
  <2>5. \A t \in fin \ {first} : y < t.start
    BY <1>3, <2>1 DEF Consolidated
  <2>6. PICK z \in Nat : /\ IsBorder(z) /\ y < z /\ z <= Size /\ WholeGap(fin, BlockSize) = Seg(y, z)
                         /\ \A t \in fin \ {first} : z <= t.start
    <3>1. CASE fin = {first}
      <4>1. to = Size BY <1>9, <1>c, <3>1
      <4>2. WholeGap(fin, BlockSize) = Seg(y, Size) BY <1>6, <2>4, <4>1, <1>0
      <4>3. IsBorder(Size) BY DEF IsBorder
      <4> QED BY <1>0, <2>2, <3>1, <4>2, <4>3
    <3>2. CASE fin # {first}
      <4> DEFINE z == second.start
      <4>1. second \in fin \ {first} BY <1>2, <1>9, <3>2
      <4>2. y < z /\ z \in Nat BY <1>3, <2>5, <4>1
      <4>3. z < Size BY <1>3, <4>1, <4>2, <2>3, <1>0
      <4>4. IsBorder(z) /\ RoundUp(z, BlockSize) = z BY <1>4, <1>5, <4>1, <4>2, <4>3
      <4>5. to = z BY <1>9, <1>c, <3>2, <4>4
      <4>6. WholeGap(fin, BlockSize) = Seg(y, z) BY <1>6, <2>4, <4>3, <4>5
      <4>7. \A t \in fin \ {first} : z <= t.start BY <1>2, <1>3, <1>9, <3>2, <4>1 DEF Precedes
      <4> QED BY <4>2, <4>3, <4>4, <4>6, <4>7, <1>0
    <3> QED BY <3>1, <3>2
  <2>7. EndOf(first) = y OBVIOUS
  <2> HIDE DEF y
  <2>8. /\ Seg(y, z) \in Segment /\ Seg(y, z).start = y /\ EndOf(Seg(y, z)) = z /\ Seg(y, z).size = z - y
    <3>1. y \in Int /\ z \in Int BY <2>3
    <3> QED BY <3>1, SegEnds, Zenon
  <2>9. CutSeg(WholeGap(fin, BlockSize)) /\ WholeGap(fin, BlockSize).size > 0 BY <2>3, <2>6, <2>8 DEF CutSeg, InFile
  <2>10. Misses(WholeGap(fin, BlockSize), fin)
    <3> SUFFICES ASSUME NEW t \in fin PROVE ~Intersect(Seg(y, z), t) BY <2>6 DEF Misses
    <3>1. CASE t = first BY <3>1, <2>7, <2>8, <2>3, <1>3 DEF Intersect
    <3>2. CASE t # first
      <4>1. z <= t.start BY <2>6, <3>2
      <4> QED BY <4>1, <2>8, <2>6, <1>3 DEF Intersect
    <3> QED BY <3>1, <3>2
  <2> QED BY <2>9, <2>10
<1> QED BY <1>7, <1>8, <1>9

\* What can be finished while the tree is not known: all of the file, or nothing.
WholeSegs == {Seg(0, 0), Seg(0, Size)}

LEMMA WholeSeg ==
  /\ Seg(0, Size) \in Segment /\ Seg(0, Size).start = 0
  /\ Seg(0, Size).size = Size /\ EndOf(Seg(0, Size)) = Size
<1>1. 0 \in Int /\ Size \in Int /\ Size - 0 = Size BY SegmentsAssumption
<1>2. /\ Seg(0, Size) \in Segment /\ Seg(0, Size).start = 0
      /\ Seg(0, Size).size = Size - 0 /\ EndOf(Seg(0, Size)) = Size
  BY <1>1, SegEnds, Zenon
<1> QED BY <1>1, <1>2, Zenon

LEMMA WholeSegCut == \A s \in WholeSegs : CutSeg(s)
<1>1. /\ Seg(0, Size) \in Segment /\ Seg(0, Size).start = 0 /\ Seg(0, Size).size = Size
      /\ EndOf(Seg(0, Size)) = Size
  BY WholeSeg
<1>2. IsBorder(0) /\ IsBorder(Size) BY SegmentsAssumption DEF IsBorder
<1> QED BY <1>1, <1>2, BlankSeg, SegmentsAssumption DEF WholeSegs, CutSeg, InFile

LEMMA WholeFinished ==
  ASSUME NEW fin \in SUBSET WholeSegs, Consolidated(fin)
  PROVE  fin = {} \/ fin = {Seg(0, 0)} \/ fin = {Seg(0, Size)}
<1>1. Seg(0, Size).start = 0 /\ EndOf(Seg(0, Size)) = Size BY SegEnds, SegmentsAssumption
<1>2. CASE Seg(0, 0) \in fin /\ Seg(0, Size) \in fin
  <2>1. Seg(0, 0) = Seg(0, Size) \/ EndOf(Seg(0, 0)) < Seg(0, Size).start
          \/ EndOf(Seg(0, Size)) < Seg(0, 0).start
    BY <1>2 DEF Consolidated
  <2> QED BY <1>1, <2>1, BlankSeg, SegmentsAssumption
<1>3. CASE ~(Seg(0, 0) \in fin /\ Seg(0, Size) \in fin) BY <1>3 DEF WholeSegs
<1> QED BY <1>2, <1>3

\* With the size of the file as block size the gap is the whole file.
LEMMA WholeGapWhole ==
  ASSUME NEW fin \in SUBSET WholeSegs, Consolidated(fin), fin # {Seg(0, Size)}
  PROVE  /\ WholeGap(fin, Size) = Seg(0, Size)
         /\ CutSeg(Seg(0, Size)) /\ Seg(0, Size).size > 0 /\ Misses(Seg(0, Size), fin)
<1>0. Size \in Nat \ {0} BY SegmentsAssumption
<1>1. CutSeg(Seg(0, Size)) BY WholeSegCut DEF WholeSegs
<1>2. Seg(0, Size).size > 0 BY <1>0, WholeSeg
<1>3. fin = {} \/ fin = {Seg(0, 0)} BY WholeFinished
<1>4. Misses(Seg(0, Size), fin) BY <1>1, <1>3, BlankSeg, CutSegFacts DEF Misses, Intersect
<1>5. WholeGap(fin, Size) = Seg(0, Size)
  <2>1. CASE fin = {} BY <2>1, <1>0 DEF WholeGap
  <2>2. CASE fin = {Seg(0, 0)}
    <3> DEFINE first == CHOOSE s \in fin : \A t \in fin : s = t \/ Precedes(s, t)
    <3>1. first = Seg(0, 0)
      <4>1. first \in fin BY <2>2
      <4> QED BY <4>1, <2>2
    <3>2. RoundDown(EndOf(Seg(0, 0)), Size) = 0
      <4>1. Size \div 2 \in Nat /\ Size \div 2 < Size BY <1>0
      <4> DEFINE half == Size \div 2
      <4> HIDE DEF half
      <4>2. (0 + half) \div Size = 0 BY <1>0, <4>1 DEF half
      <4>3. RoundDown(0, Size) = ((0 + half) \div Size) * Size BY DEF RoundDown, half
      <4> QED BY <1>0, <4>2, <4>3, BlankSeg
    <3>3. fin # {} /\ ~(Seg(0, 0).start > 0) /\ fin = {first} BY <2>2, <3>1, BlankSeg
    <3>4. WholeGap(fin, Size) =
            Seg(IF fin = {} \/ first.start > 0 THEN 0 ELSE RoundDown(EndOf(first), Size),
                IF (IF fin = {} THEN Size ELSE IF first.start > 0 THEN RoundUp(first.start, Size)
                    ELSE IF fin = {first} THEN Size
                    ELSE RoundUp((CHOOSE s \in fin \ {first} :
                                     \A t \in fin \ {first} : s = t \/ Precedes(s, t)).start, Size)) < Size
                THEN (IF fin = {} THEN Size ELSE IF first.start > 0 THEN RoundUp(first.start, Size)
                      ELSE IF fin = {first} THEN Size
                      ELSE RoundUp((CHOOSE s \in fin \ {first} :
                                       \A t \in fin \ {first} : s = t \/ Precedes(s, t)).start, Size))
                ELSE Size)
      BY DEF WholeGap
    <3> HIDE DEF first
    <3> QED BY <1>0, <3>1, <3>2, <3>3, <3>4
  <2> QED BY <1>3, <2>1, <2>2
<1> QED BY <1>1, <1>2, <1>4, <1>5

\* Without overlapping getNextSegment hands out unfinished bytes, or the blank, or
\* nothing; with the size of the file as block size when the tree is not known.
LEMMA NextSegmentsCut ==
  ASSUME attached \subseteq Conns, ~OverlapSlowSources,
         NEW fin \in SUBSET Segment, Consolidated(fin), \A s \in fin : CutSeg(s),
         NEW x \in 0 .. Size - 1, x \notin PositionsOf(fin), NEW over \in BOOLEAN,
         NEW block, block = BlockSize \/ (block = Size /\ fin \subseteq WholeSegs),
         NEW c \in Conns, NEW wanted \in Nat, NEW r \in NextSegments(fin, c, wanted, over, block)
  PROVE  CutOrNone(r.seg) /\ Misses(r.seg, fin)
<1> DEFINE target == TargetSize(fin, wanted)
           free == IF Partial[c] = {} THEN FirstFree(fin, target) ELSE NeededParts(fin, c, target)
           Plain(segments) == {[seg |-> s, overlapped |-> FALSE] : s \in segments}
<1>1. target \in Int BY TargetSizeInt
<1>2. \A s \in free : CutSeg(s) /\ Misses(s, fin)
  <2>1. \A s \in FirstFree(fin, target) : CutSeg(s) /\ Misses(s, fin)
    <3> HIDE DEF target
    <3> QED BY <1>1, FreeBlockCut DEF FirstFree
  <2>2. \A s \in NeededParts(fin, c, target) : CutSeg(s) /\ Misses(s, fin)
    <3>1. \E m \in Nat : target = m * BlockSize BY TargetBlocks
    <3> HIDE DEF target
    <3> QED BY <1>1, <3>1, NeededPartCut
  <2> QED BY <2>1, <2>2
<1>3. CutSeg(WholeGap(fin, block)) /\ Misses(WholeGap(fin, block), fin)
  <2>1. fin # {Seg(0, Size)} BY WholeFile
  <2> QED BY <2>1, WholeGapCut, WholeGapWhole
<1> HIDE DEF free, target
<1>4. \/ r \in Plain({WholeGap(fin, block)}) \/ r \in Overlaps(c, over, block)
      \/ r \in Plain(free) \/ r = NoMoreSegments
  BY Zenon DEF NextSegments, Unsegmented, free, target
<1>5. CASE r \in Plain({WholeGap(fin, block)})
  <2>1. r = [seg |-> WholeGap(fin, block), overlapped |-> FALSE] BY <1>5
  <2>2. r.seg = WholeGap(fin, block) BY <2>1
  <2> QED BY <1>3, <2>2 DEF CutOrNone
<1>6. CASE r \in Plain(free)
  <2>1. PICK s \in free : r = [seg |-> s, overlapped |-> FALSE] BY <1>6
  <2>2. r.seg = s BY <2>1
  <2> QED BY <1>2, <2>2 DEF CutOrNone
<1>7. CASE r \in Overlaps(c, over, block)
  <2>1. r = NoBlock BY <1>7 DEF Overlaps
  <2>2. r.seg = Seg(0, 0) BY <2>1 DEF NoBlock
  <2>3. Misses(Seg(0, 0), fin) BY BlankSeg, CutSegFacts DEF Misses, Intersect
  <2> QED BY <2>2, <2>3, BlankSeg DEF CutOrNone
<1>8. CASE r = NoMoreSegments BY <1>8, NoneFacts DEF CutOrNone
<1> QED BY <1>4, <1>5, <1>6, <1>7, <1>8

\* A position that no download works on and nobody has finished.
Untouched(x) == x \notin DonePositions /\ \A d \in attached : x \notin Positions(dl[d].seg)

\* A connection is only admitted when there is one.
LEMMA HasSegmentUntouched ==
  ASSUME attached \subseteq Conns, dl \in [Conns -> Download], ~OverlapSlowSources,
         done \in SUBSET Segment, Consolidated(done), \A s \in done : CutSeg(s),
         NEW c \in Conns, HasSegment(c)
  PROVE  \E x \in 0 .. Size - 1 : Untouched(x)
<1>1. CASE attached = {}
  <2>1. done # {Seg(0, Size)} BY DEF HasSegment, SegmentsDone
  <2> QED BY <1>1, <2>1, PositionMissing DEF Untouched, DonePositions
<1>2. CASE attached # {}
  <2>1. PICK r \in NextSegments(done, c, 0, TRUE, GetBlockSize) : r.seg.size # 0 BY <1>2 DEF HasSegment
  <2> DEFINE target == TargetSize(done, 0)
             free == IF Partial[c] = {} THEN FirstFree(done, target) ELSE NeededParts(done, c, target)
             Plain(segments) == {[seg |-> s, overlapped |-> FALSE] : s \in segments}
  <2>2. target \in Int BY TargetSizeInt
  <2>3. \E m \in Nat : target = m * BlockSize BY TargetBlocks
  <2>4. ASSUME free # {}
        PROVE  \E start \in BlockStarts : LargestBlocks(done, start, target) # {}
    <3> HIDE DEF target
    <3>1. CASE Partial[c] = {} BY <2>4, <3>1 DEF FirstFree
    <3>2. CASE Partial[c] # {}
      <4>1. NeededParts(done, c, target) # {} BY <2>4, <3>2
      <4> QED BY <4>1, <2>2, <2>3, NeededPartCut
    <3> QED BY <3>1, <3>2
  <2> HIDE DEF free, target
  <2>5. r \in Overlaps(c, TRUE, GetBlockSize) \/ r = NoMoreSegments \/ r \in Plain(free)
    BY <1>2, Zenon DEF NextSegments, Unsegmented, free, target
  <2>6. r # NoMoreSegments BY <2>1 DEF NoMoreSegments
  <2>7. r \notin Overlaps(c, TRUE, GetBlockSize)
    <3> SUFFICES ASSUME r \in Overlaps(c, TRUE, GetBlockSize) PROVE FALSE OBVIOUS
    <3>1. r = NoBlock BY DEF Overlaps
    <3> QED BY <3>1, <2>1, BlankSeg DEF NoBlock
  <2>8. free # {} BY <2>5, <2>6, <2>7
  <2>9. PICK start \in BlockStarts : LargestBlocks(done, start, target) # {} BY <2>4, <2>8
  <2>10. PICK b \in LargestBlocks(done, start, target) : TRUE BY <2>9
  <2>11. CutSeg(b) /\ b.size > 0 /\ Misses(b, done) BY <2>2, FreeBlockCut
  <2>12. Apart(b) BY LargestBlocksApart
  <2>13. \A s \in done : ~Covers(s, b)
    <3> SUFFICES ASSUME NEW s \in done, Covers(s, b) PROVE FALSE OBVIOUS
    <3>1. ~Intersect(b, s) BY <2>11 DEF Misses
    <3> QED BY <2>11, <3>1, CutSegFacts DEF Covers, Intersect
  <2>14. PICK x \in 0 .. Size - 1 : x \in Positions(b) /\ x \notin PositionsOf(done)
    BY <2>11, <2>13, UnfinishedPosition DEF CutSeg, InFile
  <2>15. ASSUME NEW d \in attached PROVE x \notin Positions(dl[d].seg)
    <3>1. dl[d].seg \in Segment BY DEF Download
    <3>2. ~Intersect(b, dl[d].seg) BY <2>12 DEF Apart
    <3> QED BY <2>11, <2>14, <3>1, <3>2, CutSegFacts, SegmentType DEF Intersect, Positions
  <2> QED BY <2>14, <2>15 DEF Untouched, DonePositions
<1> QED BY <1>1, <1>2

-----------------------------------------------------------------------------
(* The inductive invariant.  What a download adds was decided when it was  *)
(* created, so that until the file is complete no download may have bytes  *)
(* that another one has or that are finished; and between the two halves   *)
(* of getDownload the file must not be completed, for which the first half *)
(* has to leave a position that nobody else can bring.                     *)

DoneCut == \A s \in done : CutSeg(s)

DownloadsCut == \A c \in Conns : dl[c].type = "FILE" => CutOrNone(dl[c].seg)

ListedWhileQueued == ~downloaded => \A c \in Conns : dl[c].type # "NONE" => c \in attached

DownloadsUnfinished ==
    ~downloaded => \A c \in Conns : dl[c].type = "FILE" => Misses(dl[c].seg, done)

SlotUntouched == slotAssign # NoConn => \E x \in 0 .. Size - 1 : Untouched(x)

CompleteFull == downloaded => SegmentsDone

PInv ==
    /\ ~OverlapSlowSources
    /\ DoneCut /\ DownloadsCut /\ ListedWhileQueued /\ DownloadsUnfinished
    /\ SlotUntouched /\ CompleteFull /\ BundleCountExact

\* As long as the tree is not known every download is of the whole file.
WInv ==
    ~tree => /\ done \subseteq WholeSegs
             /\ \A c \in Conns : dl[c].type = "FILE" => /\ dl[c].block = Size
                                                      /\ dl[c].seg \in WholeSegs \union {NoMoreSegments.seg}

LEMMA InitWInv == Init => WInv
BY DEF Init, WInv, NoDownload

LEMMA InitPInv == Init /\ ~OverlapSlowSources => PInv
<1> SUFFICES ASSUME Init, ~OverlapSlowSources PROVE PInv OBVIOUS
<1>1. SizeOf({}) = 0 BY FS_EmptySet DEF SizeOf, PositionsOf
<1> QED
  BY <1>1 DEF Init, PInv, DoneCut, DownloadsCut, ListedWhileQueued, DownloadsUnfinished, SlotUntouched,
     CompleteFull, BundleCountExact, NoDownload

LEMMA DoneTypes == IInv => done \in SUBSET Segment /\ Consolidated(done) /\ attached \subseteq Conns
                            /\ dl \in [Conns -> Download] /\ finishedSegments \in Int
BY TypeParts DEF IInv, SegmentTypes, SetTypes, DownloadTypes, DoneSeparated

\* The holder of slotAssignCS finds the file in the queue.
LEMMA SlotQueued ==
  ASSUME PInv, slotAssign # NoConn
  PROVE  ~downloaded
<1> SUFFICES ASSUME downloaded PROVE FALSE OBVIOUS
<1>1. PICK x \in 0 .. Size - 1 : Untouched(x) BY DEF PInv, SlotUntouched
<1>2. DonePositions = 0 .. Size - 1 BY WholeFile DEF PInv, CompleteFull, SegmentsDone, DonePositions
<1> QED BY <1>1, <1>2 DEF Untouched

\* Steps that leave the downloads and what is finished as they are.
Quiet ==
    /\ attached' = attached
    /\ \A d \in Conns : dl'[d].type = dl[d].type /\ dl'[d].seg = dl[d].seg
    /\ done' = done
    /\ downloaded' = downloaded
    /\ finishedSegments' = finishedSegments

LEMMA QuietPInv ==
  ASSUME IInv, PInv, Quiet, slotAssign' # NoConn => \E x \in 0 .. Size - 1 : Untouched(x)
  PROVE  PInv'
<1>a. attached \subseteq Conns BY DoneTypes
<1>1. DoneCut' BY DEF PInv, DoneCut, Quiet
<1>2. DownloadsCut' BY DEF PInv, DownloadsCut, Quiet
<1>3. ListedWhileQueued' BY DEF PInv, ListedWhileQueued, Quiet
<1>4. DownloadsUnfinished' BY DEF PInv, DownloadsUnfinished, Quiet, Misses
<1>5. CompleteFull' BY DEF PInv, CompleteFull, SegmentsDone, Quiet
<1>6. BundleCountExact' BY DEF PInv, BundleCountExact, Quiet
<1>7. SlotUntouched'
  <2> SUFFICES ASSUME slotAssign' # NoConn PROVE \E x \in 0 .. Size - 1 : Untouched(x)' BY DEF SlotUntouched
  <2>1. PICK x \in 0 .. Size - 1 : Untouched(x) OBVIOUS
  <2>2. Untouched(x)' BY <2>1, <1>a DEF Untouched, DonePositions, Quiet
  <2> QED BY <2>2
<1> QED BY <1>1, <1>2, <1>3, <1>4, <1>5, <1>6, <1>7 DEF PInv

\* The download of c is over and leaves the segment a behind, all or a part of
\* its own.
Leaves(c, a) ==
    /\ dl[c].type = "FILE" /\ ~downloaded
    /\ dl[c].seg.start <= a.start /\ EndOf(a) <= EndOf(dl[c].seg)
    /\ dl'[c].type = "NONE"
    /\ \A d \in Conns \ {c} : dl'[d].type = dl[d].type /\ dl'[d].seg = dl[d].seg
    /\ done' = DoneAfter(a)
    /\ finishedSegments' = finishedSegments + NewBytes(a)

LEMMA LeavesFacts ==
  ASSUME IInv, RunningNested, PInv, NEW c \in Conns, NEW a, CutSeg(a), Leaves(c, a)
  PROVE  /\ DoneCut' /\ DownloadsCut' /\ BundleCountExact'
         /\ \A d \in Conns : dl'[d].type = "FILE" => Misses(dl'[d].seg, done')
         /\ DonePositions' = DonePositions \union Positions(a)
         /\ Positions(a) \subseteq Positions(dl[c].seg)
         /\ c \in attached
<1>1. done \in SUBSET Segment /\ Consolidated(done) /\ finishedSegments \in Int BY DoneTypes
<1>2. \A s \in done : CutSeg(s) BY DEF PInv, DoneCut
<1>3. CutSeg(dl[c].seg) /\ Misses(dl[c].seg, done) /\ c \in attached
  <2>1. CutOrNone(dl[c].seg) /\ Misses(dl[c].seg, done) /\ c \in attached
    BY DEF PInv, Leaves, DownloadsCut, DownloadsUnfinished, ListedWhileQueued
  <2>2. dl[c].seg # NoMoreSegments.seg BY NoneFacts, CutSegFacts DEF Leaves
  <2> QED BY <2>1, <2>2 DEF CutOrNone
<1>4. Misses(a, done) BY <1>2, <1>3, CutSegFacts DEF Misses, Leaves, Intersect
<1>5. DoneCut'
  <2>1. CutSeg(Merged(a)) BY <1>1, <1>2, <1>4, MergedCut
  <2> QED BY <2>1, <1>2 DEF DoneCut, Leaves, DoneAfter
<1>6. DownloadsCut' BY DEF PInv, DownloadsCut, Leaves
<1>7. BundleCountExact'
  <2>1. NewBytes(a) = a.size BY <1>2, <1>4, NewBytesOfNew
  <2>2. SizeOf(DoneAfter(a)) = SizeOf(done) + a.size BY <1>1, <1>2, <1>4, MergedSize
  <2>3. finishedSegments' = SizeOf(DoneAfter(a)) BY <2>1, <2>2 DEF PInv, BundleCountExact, Leaves
  <2> QED BY <2>3 DEF BundleCountExact, Leaves
<1>8. ASSUME NEW d \in Conns, dl'[d].type = "FILE" PROVE Misses(dl'[d].seg, done')
  <2>1. d # c /\ dl[d].type = "FILE" /\ dl'[d].seg = dl[d].seg BY <1>8 DEF Leaves
  <2>2. CutOrNone(dl[d].seg) /\ Misses(dl[d].seg, done) /\ d \in attached
    BY <2>1 DEF PInv, Leaves, DownloadsCut, DownloadsUnfinished, ListedWhileQueued
  <2>3. CASE dl[d].seg = NoMoreSegments.seg BY <2>1, <2>3, <1>5, NoneFacts DEF DoneCut
  <2>4. CASE CutSeg(dl[d].seg)
    <3>1. ~Intersect(dl[c].seg, dl[d].seg)
      BY <2>1, <2>2, <1>3 DEF RunningNested, PInv, Leaves
    <3>2. ~Intersect(a, dl[d].seg)
      BY <2>4, <3>1, <1>3, CutSegFacts DEF Intersect, Leaves
    <3>3. Misses(dl[d].seg, DoneAfter(a)) BY <1>1, <1>2, <1>4, <2>2, <2>4, <3>2, MergedMissed
    <3> QED BY <2>1, <3>3 DEF Leaves
  <2> QED BY <2>2, <2>3, <2>4 DEF CutOrNone
<1>9. DonePositions' = DonePositions \union Positions(a)
  BY <1>1, <1>2, <1>4, MergedPositions DEF DonePositions, Leaves
<1>10. Positions(a) \subseteq Positions(dl[c].seg)
  BY <1>3, CutSegFacts DEF Positions, Leaves
<1> QED BY <1>3, <1>5, <1>6, <1>7, <1>8, <1>9, <1>10

LEMMA StepsQuiet ==
  ASSUME IInv, NEW c \in Conns,
         \/ StartDownload(c) \/ NoNeededPart(c) \/ GetDownloadRemovedSource(c)
         \/ StartData(c) \/ Data(c) \/ RemoveFileSource(c) \/ Disconnected(c)
         \/ ReadBlockSize \/ Pause \/ Resume \/ LoseTempFile \/ UNCHANGED vars
  PROVE  Quiet /\ (StartDownload(c) \/ slotAssign' = slotAssign \/ slotAssign' = NoConn)
<1>t. dl \in [Conns -> Download] BY DoneTypes
<1>1. CASE StartDownload(c) \/ NoNeededPart(c) \/ GetDownloadRemovedSource(c)
  BY <1>1 DEF StartDownload, NoNeededPart, GetDownloadRemovedSource, Quiet
<1>2. CASE StartData(c) \/ Data(c)
  BY <1>2, <1>t DEF StartData, Data, Quiet, Download
<1>3. CASE RemoveFileSource(c) \/ Disconnected(c)
  BY <1>3 DEF RemoveFileSource, Disconnected, Quiet
<1>4. CASE LoseTempFile
  BY <1>4, <1>t DEF LoseTempFile, Quiet, Download
<1>5. CASE ReadBlockSize \/ Pause \/ Resume \/ UNCHANGED vars
  BY <1>5 DEF ReadBlockSize, Pause, Resume, vars, Quiet
<1> QED BY <1>1, <1>2, <1>3, <1>4, <1>5

LEMMA QuietStepsPInv ==
  ASSUME IInv, PInv, NEW c \in Conns,
         \/ StartDownload(c) \/ NoNeededPart(c) \/ GetDownloadRemovedSource(c)
         \/ StartData(c) \/ Data(c) \/ RemoveFileSource(c) \/ Disconnected(c)
         \/ ReadBlockSize \/ Pause \/ Resume \/ LoseTempFile \/ UNCHANGED vars
  PROVE  PInv'
<1>1. Quiet /\ (StartDownload(c) \/ slotAssign' = slotAssign \/ slotAssign' = NoConn) BY StepsQuiet
<1>2. CASE StartDownload(c)
  <2>1. HasSegment(c) BY <1>2 DEF StartDownload
  <2>2. \E x \in 0 .. Size - 1 : Untouched(x)
    BY <2>1, DoneTypes, HasSegmentUntouched DEF PInv, DoneCut
  <2> QED BY <1>1, <2>2, QuietPInv
<1>3. CASE slotAssign' = slotAssign \/ slotAssign' = NoConn
  <2>1. slotAssign' # NoConn => \E x \in 0 .. Size - 1 : Untouched(x) BY <1>3 DEF PInv, SlotUntouched
  <2> QED BY <1>1, <2>1, QuietPInv
<1> QED BY <1>1, <1>2, <1>3

LEMMA EndTreePInv ==
  ASSUME IInv, PInv, NEW c \in Conns, EndTree(c)
  PROVE  PInv'
<1>t. dl \in [Conns -> Download] /\ attached \subseteq Conns BY DoneTypes
<1>1. dl'[c].type = "NONE" /\ \A d \in Conns \ {c} : dl'[d].type = dl[d].type /\ dl'[d].seg = dl[d].seg
  BY <1>t DEF EndTree, NoDownload
<1>2. /\ attached' = attached \ {c} /\ done' = done /\ downloaded' = downloaded
      /\ finishedSegments' = finishedSegments /\ slotAssign' = slotAssign
  BY DEF EndTree
<1>3. DoneCut' BY <1>2 DEF PInv, DoneCut
<1>4. DownloadsCut' BY <1>1 DEF PInv, DownloadsCut
<1>5. ListedWhileQueued' BY <1>1, <1>2 DEF PInv, ListedWhileQueued
<1>6. DownloadsUnfinished' BY <1>1, <1>2 DEF PInv, DownloadsUnfinished, Misses
<1>7. CompleteFull' BY <1>2 DEF PInv, CompleteFull, SegmentsDone
<1>8. BundleCountExact' BY <1>2 DEF PInv, BundleCountExact
<1>9. SlotUntouched'
  <2> SUFFICES ASSUME slotAssign' # NoConn PROVE \E x \in 0 .. Size - 1 : Untouched(x)' BY DEF SlotUntouched
  <2>1. PICK x \in 0 .. Size - 1 : Untouched(x) BY <1>2 DEF PInv, SlotUntouched
  <2>2. Untouched(x)' BY <2>1, <1>t, <1>1, <1>2 DEF Untouched, DonePositions
  <2> QED BY <2>2
<1> QED BY <1>3, <1>4, <1>5, <1>6, <1>7, <1>8, <1>9 DEF PInv

\* A download that leaves something behind and is taken off the list.
LEMMA LeavesPInv ==
  ASSUME IInv, RunningNested, PInv, NEW c \in Conns, NEW a, CutSeg(a), Leaves(c, a),
         attached' = attached \ {c}, downloaded' = downloaded, slotAssign' = slotAssign
  PROVE  PInv'
<1>t. attached \subseteq Conns BY DoneTypes
<1>1. DoneCut' /\ DownloadsCut' /\ BundleCountExact' BY LeavesFacts
<1>2. DownloadsUnfinished' BY LeavesFacts DEF DownloadsUnfinished
<1>3. ListedWhileQueued' BY DEF PInv, ListedWhileQueued, Leaves
<1>4. CompleteFull' BY DEF CompleteFull, Leaves
<1>5. SlotUntouched'
  <2> SUFFICES ASSUME slotAssign' # NoConn PROVE \E x \in 0 .. Size - 1 : Untouched(x)' BY DEF SlotUntouched
  <2>1. PICK x \in 0 .. Size - 1 : Untouched(x) BY DEF PInv, SlotUntouched
  <2>2. x \notin DonePositions' BY <2>1, LeavesFacts DEF Untouched
  <2>3. \A d \in attached' : x \notin Positions(dl'[d].seg) BY <2>1, <1>t DEF Untouched, Leaves
  <2>4. Untouched(x)' BY <2>2, <2>3 DEF Untouched
  <2> QED BY <2>4
<1> QED BY <1>1, <1>2, <1>3, <1>4, <1>5 DEF PInv

\* What a download that ends leaves behind.
LEMMA EndDataLeaves ==
  ASSUME IInv, PInv, NEW c \in Conns, EndData(c), ~downloaded
  PROVE  Leaves(c, dl[c].seg) /\ CutSeg(dl[c].seg)
<1>t. dl \in [Conns -> Download] BY DoneTypes
<1>1. CutSeg(dl[c].seg)
  <2>1. CutOrNone(dl[c].seg) /\ InFile(dl[c].seg)
    BY DEF PInv, DownloadsCut, EndData, IInv, DownloadsInFile
  <2> QED BY <2>1, NoneFacts DEF CutOrNone, InFile
<1>2. dl'[c].type = "NONE" /\ \A d \in Conns \ {c} : dl'[d].type = dl[d].type /\ dl'[d].seg = dl[d].seg
  BY <1>t DEF EndData, NoDownload
<1>3. AddFinishedSegment(dl[c].seg) BY DEF EndData
<1> QED BY <1>1, <1>2, <1>3, CutSegFacts DEF Leaves, AddFinishedSegment, EndData

LEMMA EndDataPInv ==
  ASSUME IInv, RunningNested, PInv, NEW c \in Conns, EndData(c)
  PROVE  PInv'
<1>t. dl \in [Conns -> Download] /\ attached \subseteq Conns BY DoneTypes
<1>1. CASE downloaded
  <2>1. dl'[c].type = "NONE" /\ \A d \in Conns \ {c} : dl'[d].type = dl[d].type /\ dl'[d].seg = dl[d].seg
    BY <1>t DEF EndData, NoDownload
  <2>2. done' = done /\ finishedSegments' = finishedSegments /\ downloaded' /\ slotAssign' = slotAssign
    BY <1>1 DEF EndData
  <2>3. slotAssign = NoConn BY <1>1, SlotQueued
  <2>4. DoneCut' BY <2>2 DEF PInv, DoneCut
  <2>5. DownloadsCut' BY <2>1 DEF PInv, DownloadsCut
  <2>6. CompleteFull' BY <1>1, <2>2 DEF PInv, CompleteFull, SegmentsDone
  <2>7. BundleCountExact' BY <2>2 DEF PInv, BundleCountExact
  <2> QED BY <2>2, <2>3, <2>4, <2>5, <2>6, <2>7
        DEF PInv, ListedWhileQueued, DownloadsUnfinished, SlotUntouched
<1>2. CASE ~downloaded /\ done' # {Seg(0, Size)}
  <2>1. attached' = attached \ {c} /\ downloaded' = downloaded /\ slotAssign' = slotAssign
    BY <1>2 DEF EndData
  <2> QED BY <1>2, <2>1, EndDataLeaves, LeavesPInv
<1>3. CASE ~downloaded /\ done' = {Seg(0, Size)}
  <2> DEFINE a == dl[c].seg
  <2>1. downloaded' /\ slotAssign' = slotAssign BY <1>3 DEF EndData
  <2>2. Leaves(c, a) /\ CutSeg(a) BY <1>3, EndDataLeaves
  <2>3. DoneCut' /\ DownloadsCut' /\ BundleCountExact' /\ DonePositions' = DonePositions \union Positions(a)
        /\ c \in attached
    BY <2>2, LeavesFacts
  <2>4. DonePositions' = 0 .. Size - 1 BY <1>3, WholeFile DEF DonePositions
  <2>5. slotAssign = NoConn
    <3> SUFFICES ASSUME slotAssign # NoConn PROVE FALSE OBVIOUS
    <3>1. PICK x \in 0 .. Size - 1 : Untouched(x) BY DEF PInv, SlotUntouched
    <3> QED BY <3>1, <2>3, <2>4 DEF Untouched
  <2>6. CompleteFull' BY <1>3 DEF CompleteFull, SegmentsDone
  <2> QED BY <2>1, <2>3, <2>5, <2>6 DEF PInv, ListedWhileQueued, DownloadsUnfinished, SlotUntouched
<1> QED BY <1>1, <1>2, <1>3

\* What is kept of a failed download: whole blocks from its start on.
LEMMA KeptCut ==
  ASSUME IInv, PInv, NEW c \in Conns, AlignDown(dl[c].pos, dl[c].block) > 0
  PROVE  LET kept == [start |-> dl[c].seg.start, size |-> AlignDown(dl[c].pos, dl[c].block)]
         IN  CutSeg(kept) /\ EndOf(kept) <= EndOf(dl[c].seg) /\ dl[c].type = "FILE" /\ dl[c].pos > 0
<1> DEFINE s == dl[c].seg
           got == AlignDown(dl[c].pos, dl[c].block)
           kept == [start |-> s.start, size |-> got]
<1>0. BlockSize \in Nat \ {0} /\ Size \in Nat \ {0} BY SegmentsAssumption
<1>1. dl[c].pos \in Nat /\ (dl[c].pos = 0 \/ dl[c].pos <= s.size) /\ s.size \in Int
  BY TypeParts DEF IInv, DownloadTypes, Download, Segment
<1>b. dl[c].block \in BlockSizes BY TypeParts DEF IInv, DownloadTypes, Download, BlockSizes
<1>2. got \in Nat /\ got <= dl[c].pos BY <1>1, <1>b, BlockArithmetic
<1>3. dl[c].pos > 0 /\ got <= s.size BY <1>1, <1>2
<1>4. dl[c].type = "FILE" /\ InFile(s) BY <1>3 DEF IInv, DownloadsInFile
<1>5. CutSeg(s) BY <1>4, NoneFacts DEF PInv, DownloadsCut, CutOrNone, InFile
<1>6. s.start \in Nat /\ s.size \in Nat /\ EndOf(s) = s.start + s.size /\ EndOf(s) <= Size BY <1>5, CutSegFacts
<1>7. IsBorder(s.start) BY <1>3, <1>5, <1>6, <1>2, BlankSeg DEF CutSeg
<1>8. PICK k \in Nat : s.start = k * BlockSize BY <1>0, <1>2, <1>3, <1>6, <1>7 DEF IsBorder
<1>10. IsBorder(s.start + got)
  <2>1. CASE dl[c].block = BlockSize
    <3>1. PICK m \in Nat : got = m * BlockSize BY <1>1, <2>1, AlignDownMultiple
    <3>2. s.start + got = (k + m) * BlockSize /\ k + m \in Nat BY <1>8, <3>1, MultiplesAdd
    <3> QED BY <3>2 DEF IsBorder
\* Without the tree all of the file is kept, or nothing.
  <2>2. CASE dl[c].block = Size
    <3>1. dl[c].pos = Size
      <4> SUFFICES ASSUME dl[c].pos < Size PROVE FALSE BY <1>0, <1>1, <1>6, <1>3
      <4>1. dl[c].pos % Size = dl[c].pos BY <1>0, <1>1
      <4> QED BY <1>1, <1>2, <2>2, <4>1 DEF AlignDown
    <3>2. got = Size
      <4>1. Size % Size = 0 BY <1>0
      <4> QED BY <1>0, <2>2, <3>1, <4>1 DEF AlignDown
    <3>3. s.start = 0 BY <1>0, <1>1, <1>3, <1>6, <3>1
    <3> QED BY <1>0, <3>2, <3>3 DEF IsBorder
  <2> QED BY <1>b, <2>1, <2>2 DEF BlockSizes
<1> HIDE DEF got
<1>11. /\ kept \in Segment /\ kept.start = s.start /\ kept.size = got
       /\ EndOf(kept) = s.start + got
  BY <1>2, <1>6 DEF Segment, EndOf
<1>12. EndOf(kept) <= EndOf(s) BY <1>2, <1>3, <1>6, <1>11
<1>13. IsBorder(EndOf(kept)) BY <1>10, <1>11 DEF IsBorder
<1>14. CutSeg(kept)
  BY <1>0, <1>6, <1>7, <1>11, <1>12, <1>13, <1>2 DEF CutSeg, InFile, got
<1> QED BY <1>3, <1>4, <1>12, <1>14 DEF got

LEMMA FailedLeaves ==
  ASSUME IInv, PInv, NEW c \in Conns, Failed(c), ~downloaded, AlignDown(dl[c].pos, dl[c].block) > 0
  PROVE  LET kept == [start |-> dl[c].seg.start, size |-> AlignDown(dl[c].pos, dl[c].block)]
         IN  Leaves(c, kept) /\ CutSeg(kept)
<1> DEFINE kept == [start |-> dl[c].seg.start, size |-> AlignDown(dl[c].pos, dl[c].block)]
<1>1. CutSeg(kept) /\ EndOf(kept) <= EndOf(dl[c].seg) /\ dl[c].type = "FILE" BY KeptCut
<1>2. AddFinishedSegment(kept) BY DEF Failed
<1>3. dl'[c].type = "NONE" /\ \A d \in Conns \ {c} : dl'[d].type = dl[d].type /\ dl'[d].seg = dl[d].seg
  <2>1. PICK b : dl' = [d \in Conns |-> IF d = c THEN NoDownload ELSE [dl[d] EXCEPT !.live = @ /\ b]]
    BY Zenon DEF Failed
  <2>2. dl \in [Conns -> Download] BY DoneTypes
  <2>3. NoDownload.type = "NONE" BY DEF NoDownload
  <2> HIDE DEF NoDownload
  <2> QED BY <2>1, <2>2, <2>3 DEF Download
<1>4. dl[c].seg.start \in Int
  <2>1. dl[c].seg \in Segment BY DoneTypes DEF Download
  <2> QED BY <2>1, SegmentType
<1>5. dl[c].seg.start <= kept.start BY <1>4
<1> HIDE DEF kept
<1>6. Leaves(c, kept) BY <1>1, <1>2, <1>3, <1>5 DEF Leaves, AddFinishedSegment
<1> QED BY <1>1, <1>6 DEF kept

LEMMA FailedPInv ==
  ASSUME IInv, RunningNested, PInv, NEW c \in Conns, Failed(c)
  PROVE  PInv'
<1>t. dl \in [Conns -> Download] /\ attached \subseteq Conns BY DoneTypes
<1>1. CASE ~downloaded /\ AlignDown(dl[c].pos, dl[c].block) > 0
  <2> DEFINE kept == [start |-> dl[c].seg.start, size |-> AlignDown(dl[c].pos, dl[c].block)]
  <2>1. Leaves(c, kept) /\ CutSeg(kept) BY <1>1, FailedLeaves
  <2>2. attached' = attached \ {c} /\ downloaded' = downloaded /\ slotAssign' = slotAssign
    BY <1>1 DEF Failed
  <2> HIDE DEF kept
  <2> QED BY <2>1, <2>2, LeavesPInv
<1>2. CASE downloaded \/ ~(AlignDown(dl[c].pos, dl[c].block) > 0)
  <2>1. /\ done' = done /\ finishedSegments' = finishedSegments /\ downloaded' = downloaded
        /\ slotAssign' = slotAssign
        /\ attached' = IF downloaded THEN attached ELSE attached \ {c}
    BY <1>2 DEF Failed
  <2>2. dl'[c].type = "NONE" /\ \A d \in Conns \ {c} : dl'[d].type = dl[d].type /\ dl'[d].seg = dl[d].seg
    <3>1. PICK b : dl' = [d \in Conns |-> IF d = c THEN NoDownload ELSE [dl[d] EXCEPT !.live = @ /\ b]]
      BY Zenon DEF Failed
    <3>2. NoDownload.type = "NONE" BY DEF NoDownload
    <3> HIDE DEF NoDownload
    <3> QED BY <3>1, <3>2, <1>t DEF Download
  <2>3. DoneCut' BY <2>1 DEF PInv, DoneCut
  <2>4. DownloadsCut' BY <2>2 DEF PInv, DownloadsCut
  <2>5. ListedWhileQueued' BY <2>1, <2>2 DEF PInv, ListedWhileQueued
  <2>6. DownloadsUnfinished' BY <2>1, <2>2 DEF PInv, DownloadsUnfinished, Misses
  <2>7. CompleteFull' BY <2>1 DEF PInv, CompleteFull, SegmentsDone
  <2>8. BundleCountExact' BY <2>1 DEF PInv, BundleCountExact
  <2>9. SlotUntouched'
    <3> SUFFICES ASSUME slotAssign' # NoConn PROVE \E x \in 0 .. Size - 1 : Untouched(x)' BY DEF SlotUntouched
    <3>1. PICK x \in 0 .. Size - 1 : Untouched(x) BY <2>1 DEF PInv, SlotUntouched
    <3>2. attached' = attached \ {c} BY <2>1, SlotQueued
    <3>3. Untouched(x)' BY <3>1, <3>2, <1>t, <2>1, <2>2 DEF Untouched, DonePositions
    <3> QED BY <3>3
  <2> QED BY <2>3, <2>4, <2>5, <2>6, <2>7, <2>8, <2>9 DEF PInv
<1> QED BY <1>1, <1>2

LEMMA GetDownloadPInv ==
  ASSUME IInv, PInv, WInv, NEW c \in Conns, GetDownload(c)
  PROVE  PInv'
<1>t. dl \in [Conns -> Download] /\ attached \subseteq Conns /\ done \in SUBSET Segment /\ Consolidated(done)
  BY DoneTypes
<1>1. /\ slotAssign # NoConn /\ slotAssign' = NoConn /\ downloaded' = downloaded /\ done' = Remaining
      /\ attached' = attached \union {c}
      /\ finishedSegments' = finishedSegments - (SizeOf(done) - SizeOf(Remaining))
  BY SegmentsAssumption DEF GetDownload
<1>2. ~downloaded BY <1>1, SlotQueued
<1>3. PICK x \in 0 .. Size - 1 : Untouched(x) BY <1>1 DEF PInv, SlotUntouched
<1>4. Remaining = {} \/ Remaining = done BY DEF Remaining
<1>5. /\ Remaining \in SUBSET Segment /\ Consolidated(Remaining)
      /\ \A s \in Remaining : CutSeg(s)
      /\ x \notin PositionsOf(Remaining)
      /\ \A s : Misses(s, done) => Misses(s, Remaining)
  <2>1. Consolidated({}) BY DEF Consolidated
  <2> QED BY <2>1, <1>t, <1>3, <1>4 DEF PInv, DoneCut, Untouched, DonePositions, PositionsOf, Misses
<1>6. \A d \in Conns \ {c} : dl'[d].type = dl[d].type /\ dl'[d].seg = dl[d].seg
  BY GetDownloadTakes DEF TakesTree, TakesSegment
<1>7. dl'[c].type # "NONE" BY GetDownloadTakes DEF TakesTree, TakesSegment
<1>8. dl'[c].type = "FILE" => CutOrNone(dl'[c].seg) /\ Misses(dl'[c].seg, Remaining)
  <2>1. WantedSizes \subseteq Nat /\ ~OverlapSlowSources BY SegmentsAssumption DEF PInv
  <2>2. ASSUME NEW r, NEW block, NEW orig, dl' = WithDownload(c, r, block, orig)
        PROVE  dl'[c].seg = r.seg
    BY <2>2 DEF WithDownload, FileDownload, NoDownload
  <2>3. CASE dl' = [dl EXCEPT ![c] = TreeDownload] BY <1>t, <2>3 DEF TreeDownload, NoDownload
  <2>4. ASSUME NEW w \in WantedSizes, NEW r \in NextSegments(Remaining, c, w, TRUE, BlockSize)
        PROVE  CutOrNone(r.seg) /\ Misses(r.seg, Remaining)
    BY <1>t, <1>5, <2>1, NextSegmentsCut
  <2>5. ASSUME ~tree, NEW r \in NextSegments(Remaining, c, 0, FALSE, Size)
        PROVE  CutOrNone(r.seg) /\ Misses(r.seg, Remaining)
    <3>1. Remaining \subseteq WholeSegs BY <1>4, <2>5 DEF WInv
    <3>2. Size = Size /\ 0 \in Nat OBVIOUS
    <3> QED BY <1>t, <1>5, <2>1, <3>1, <3>2, NextSegmentsCut
  <2>6. CASE \E w \in WantedSizes : \E r \in NextSegments(Remaining, c, w, TRUE, BlockSize) :
             \E orig \in Conns \union {NoConn} : dl' = WithDownload(c, r, BlockSize, orig)
    BY <2>2, <2>4, <2>6, Zenon
  <2>7. CASE \E r \in NextSegments(Remaining, c, 0, FALSE, Size) : \E orig \in Conns \union {NoConn} :
                ~tree /\ dl' = WithDownload(c, r, Size, orig)
    BY <2>2, <2>5, <2>7, Zenon
  <2>8. TypeOK BY DEF IInv
  <2> QED BY <2>3, <2>6, <2>7, <2>8, GetDownloadCases, Zenon
<1>9. DoneCut' BY <1>1, <1>5 DEF DoneCut
<1>10. DownloadsCut' BY <1>6, <1>8 DEF PInv, DownloadsCut
<1>11. ListedWhileQueued' BY <1>1, <1>2, <1>6 DEF PInv, ListedWhileQueued
<1>12. DownloadsUnfinished'
  <2> SUFFICES ASSUME NEW d \in Conns, dl'[d].type = "FILE" PROVE Misses(dl'[d].seg, done')
    BY DEF DownloadsUnfinished
  <2>1. CASE d = c BY <2>1, <1>1, <1>8
  <2>2. CASE d # c
    <3>1. dl[d].type = "FILE" /\ dl'[d].seg = dl[d].seg BY <2>2, <1>6
    <3>2. Misses(dl[d].seg, done) BY <3>1, <1>2 DEF PInv, DownloadsUnfinished
    <3> QED BY <3>1, <3>2, <1>1, <1>5
  <2> QED BY <2>1, <2>2
<1>13. CompleteFull' /\ SlotUntouched' BY <1>1, <1>2 DEF CompleteFull, SlotUntouched
<1>14. BundleCountExact'
  <2>1. finishedSegments = SizeOf(done) /\ finishedSegments \in Int BY DoneTypes DEF PInv, BundleCountExact
  <2>2. SizeOf({}) = 0 BY FS_EmptySet DEF SizeOf, PositionsOf
  <2>3. finishedSegments' = SizeOf(Remaining) BY <2>1, <2>2, <1>1, <1>4
  <2> QED BY <2>3, <1>1 DEF BundleCountExact, SizeOf, PositionsOf
<1> QED BY <1>9, <1>10, <1>11, <1>12, <1>13, <1>14 DEF PInv

LEMMA NextPInv == IInv /\ RunningNested /\ PInv /\ WInv /\ [Next]_vars => PInv'
<1> SUFFICES ASSUME IInv, RunningNested, PInv, WInv, [Next]_vars PROVE PInv' OBVIOUS
<1>1. CASE \E c \in Conns : StartDownload(c) BY <1>1, QuietStepsPInv
<1>2. CASE \E c \in Conns : NoNeededPart(c) BY <1>2, QuietStepsPInv
<1>3. CASE \E c \in Conns : GetDownload(c) BY <1>3, GetDownloadPInv
<1>4. CASE \E c \in Conns : GetDownloadRemovedSource(c) BY <1>4, QuietStepsPInv
<1>5. CASE \E c \in Conns : StartData(c) BY <1>5, QuietStepsPInv
<1>6. CASE \E c \in Conns : Data(c) BY <1>6, QuietStepsPInv
<1>7. CASE \E c \in Conns : EndTree(c) BY <1>7, EndTreePInv
<1>8. CASE \E c \in Conns : EndData(c) BY <1>8, EndDataPInv
<1>9. CASE \E c \in Conns : FailDownload(c) BY <1>9, FailedPInv DEF FailDownload
<1>10. CASE \E c \in Conns : OpenFails(c) BY <1>10, FailedPInv DEF OpenFails
<1>11. CASE \E c \in Conns : RemoveFileSource(c) BY <1>11, QuietStepsPInv
<1>12. CASE \E c \in Conns : Disconnected(c) BY <1>12, QuietStepsPInv
<1>14. CASE \E c \in Conns : FileNotAvailable(c) BY <1>14, FailedPInv DEF FileNotAvailable
<1>13. CASE ReadBlockSize \/ Pause \/ Resume \/ LoseTempFile \/ UNCHANGED vars
  <2>1. CASE Conns # {} BY <2>1, <1>13, QuietStepsPInv
  <2>2. CASE Conns = {}
    <3>1. Quiet /\ slotAssign' = slotAssign
      BY <2>2, <1>13 DEF ReadBlockSize, Pause, Resume, LoseTempFile, vars, Quiet
    <3>2. slotAssign' # NoConn => \E x \in 0 .. Size - 1 : Untouched(x) BY <3>1 DEF PInv, SlotUntouched
    <3> QED BY <3>1, <3>2, QuietPInv
  <2> QED BY <2>1, <2>2
<1> QED BY <1>1, <1>2, <1>3, <1>4, <1>5, <1>6, <1>7, <1>8, <1>9, <1>10, <1>11, <1>12, <1>13, <1>14
        DEF Next

\* Segments of the whole file add up to it.
LEMMA WholeAdded ==
  ASSUME done \subseteq WholeSegs, Consolidated(done), NEW a \in WholeSegs
  PROVE  DoneAfter(a) \subseteq WholeSegs
<1>1. \A s \in WholeSegs : s \in Segment /\ s.start = 0 /\ EndOf(s) \in {0, Size} /\ s.size = EndOf(s)
  <2> TAKE s \in WholeSegs
  <2>1. CASE s = Seg(0, 0)
    <3>1. Seg(0, 0) \in Segment BY SegEnds
    <3> QED BY <2>1, <3>1, BlankSeg
  <2>2. CASE s = Seg(0, Size) BY <2>2, WholeSeg, Zenon
  <2> QED BY <2>1, <2>2 DEF WholeSegs
<1> DEFINE p == CHOOSE p \in Predecessors(a) : TRUE
           s == CHOOSE s \in Successors(a) : TRUE
<1>2. Predecessors(a) # {} => p \in WholeSegs BY DEF Predecessors
<1>3. Successors(a) # {} => s \in WholeSegs BY DEF Successors
<1>4. Merged(a) = Seg(IF Predecessors(a) = {} THEN a.start ELSE p.start,
                      IF Successors(a) = {} THEN EndOf(a) ELSE EndOf(s))
  BY DEF Merged
<1> HIDE DEF p, s
<1>5. Merged(a) = Seg(0, 0) \/ Merged(a) = Seg(0, Size)
  <2>1. (IF Predecessors(a) = {} THEN a.start ELSE p.start) = 0 BY <1>1, <1>2
  <2>2. (IF Successors(a) = {} THEN EndOf(a) ELSE EndOf(s)) \in {0, Size} BY <1>1, <1>3
  <2> QED BY <1>4, <2>1, <2>2
<1> QED BY <1>5 DEF DoneAfter, WholeSegs

LEMMA GetDownloadWInv ==
  ASSUME IInv, PInv, WInv, NEW c \in Conns, GetDownload(c)
  PROVE  WInv'
<1>t. dl \in [Conns -> Download] /\ done \in SUBSET Segment /\ Consolidated(done) BY DoneTypes
<1>1. tree' = tree /\ done' = Remaining /\ slotAssign # NoConn BY SegmentsAssumption DEF GetDownload
<1>2. Remaining = done \/ Remaining = {} BY DEF Remaining
<1> SUFFICES ASSUME ~tree
             PROVE  /\ done' \subseteq WholeSegs
                    /\ \A d \in Conns : dl'[d].type = "FILE" =>
                          /\ dl'[d].block = Size
                          /\ dl'[d].seg \in WholeSegs \union {NoMoreSegments.seg}
  BY <1>1 DEF WInv
<1>3. done' \subseteq WholeSegs BY <1>1, <1>2 DEF WInv
<1>4. \A d \in Conns : dl[d].type = "FILE" => /\ dl[d].block = Size
                                              /\ dl[d].seg \in WholeSegs \union {NoMoreSegments.seg}
  BY DEF WInv
<1>5. CASE dl' = [dl EXCEPT ![c] = TreeDownload]
  <2>1. TreeDownload.type = "TREE" BY DEF TreeDownload, NoDownload
  <2> QED BY <1>t, <1>3, <1>4, <1>5, <2>1
<1>6. ASSUME NEW r \in NextSegments(Remaining, c, 0, FALSE, Size), NEW orig, dl' = WithDownload(c, r, Size, orig)
      PROVE  \A d \in Conns : dl'[d].type = "FILE" =>
                          /\ dl'[d].block = Size
                          /\ dl'[d].seg \in WholeSegs \union {NoMoreSegments.seg}
  <2>1. r.seg \in WholeSegs
    <3>1. Size >= Size BY SegmentsAssumption
    <3>2. r \in Unsegmented(Remaining, c, FALSE, Size) BY <1>6, <3>1 DEF NextSegments
    <3>3. CASE r = [seg |-> WholeGap(Remaining, Size), overlapped |-> FALSE]
      <4>1. r.seg = WholeGap(Remaining, Size) BY <3>3
      <4>2. Remaining # {Seg(0, Size)}
        <5>1. PICK x \in 0 .. Size - 1 : Untouched(x) BY <1>1 DEF PInv, SlotUntouched
        <5> QED BY <5>1, <1>2, WholeFile DEF Untouched, DonePositions
      <4>3. Remaining \subseteq WholeSegs /\ Consolidated(Remaining)
        <5>1. Consolidated({}) BY DEF Consolidated
        <5> QED BY <5>1, <1>t, <1>1, <1>2, <1>3
      <4> QED BY <4>1, <4>2, <4>3, WholeGapWhole DEF WholeSegs
    <3>4. CASE r = NoBlock BY <3>4 DEF NoBlock, WholeSegs
    <3> QED BY <3>2, <3>3, <3>4 DEF Unsegmented, Overlaps
  <2>2. dl'[c].seg = r.seg /\ dl'[c].block = Size BY <1>6 DEF WithDownload, FileDownload, NoDownload
  <2>3. \A d \in Conns \ {c} : /\ dl'[d].type = dl[d].type /\ dl'[d].seg = dl[d].seg
                                /\ dl'[d].block = dl[d].block
    BY <1>t, <1>6 DEF WithDownload, Download
  <2> QED BY <1>4, <2>1, <2>2, <2>3
<1>7. TypeOK BY DEF IInv
<1> QED BY <1>3, <1>5, <1>6, <1>7, GetDownloadCases, Zenon

LEMMA NextWInv == IInv /\ PInv /\ WInv /\ [Next]_vars => WInv'
<1> SUFFICES ASSUME IInv, PInv, WInv, [Next]_vars, ~tree', \A c \in Conns : ~GetDownload(c)
             PROVE  WInv'
  BY GetDownloadWInv DEF WInv
<1>1. ~tree
  BY DEF Next, vars, StartDownload, NoNeededPart, GetDownloadRemovedSource, StartData, Data, EndTree,
     EndData, FailDownload, OpenFails, FileNotAvailable, Failed, RemoveFileSource, Disconnected,
     ReadBlockSize, Pause, Resume, LoseTempFile
<1>2. FewerDownloadsLeft BY StepsEndDownloads
<1>3. done \subseteq WholeSegs /\ Consolidated(done) BY <1>1, DoneTypes DEF WInv
<1>4. ASSUME NEW c \in Conns, EndData(c) PROVE done' \subseteq WholeSegs
  <2>1. dl[c].type = "FILE" /\ dl[c].running BY <1>4 DEF EndData
  <2>2. dl[c].seg \in WholeSegs
    <3>1. InFile(dl[c].seg) BY <2>1 DEF IInv, DownloadsInFile
    <3> QED BY <1>1, <2>1, <3>1, NoneFacts DEF WInv, InFile
  <2>3. done' = done \/ done' = DoneAfter(dl[c].seg) BY <1>4 DEF EndData, AddFinishedSegment
  <2> QED BY <1>3, <2>2, <2>3, WholeAdded
<1>5. ASSUME NEW c \in Conns, Failed(c) PROVE done' \subseteq WholeSegs
  <2> DEFINE got == AlignDown(dl[c].pos, dl[c].block)
             kept == [start |-> dl[c].seg.start, size |-> got]
  <2>1. done' = done \/ (got > 0 /\ done' = DoneAfter(kept))
    BY <1>5 DEF Failed, AddFinishedSegment
  <2>2. ASSUME got > 0 PROVE kept \in WholeSegs
    <3>0. Size \in Nat \ {0} BY SegmentsAssumption
    <3>1. /\ CutSeg(kept) /\ dl[c].type = "FILE" BY <2>2, KeptCut
    <3>2. dl[c].block = Size BY <1>1, <3>1 DEF WInv
    <3>3. dl[c].pos \in Nat BY TypeParts DEF IInv, DownloadTypes, Download
    <3>4. dl[c].pos >= Size
      <4> SUFFICES ASSUME dl[c].pos < Size PROVE FALSE BY <3>0, <3>3
      <4>1. dl[c].pos % Size = dl[c].pos BY <3>0, <3>3
      <4> QED BY <2>2, <3>2, <3>3, <4>1 DEF AlignDown
    <3>5. dl[c].pos % Size < Size /\ dl[c].pos % Size \in Nat BY <3>0, <3>3
    <3>6. dl[c].pos <= dl[c].seg.size /\ InFile(dl[c].seg)
      <4>1. dl[c].pos # 0 BY <3>0, <3>4
      <4> QED BY <4>1, TypeParts DEF IInv, DownloadTypes, DownloadsInFile
    <3>7. dl[c].seg.start = 0 /\ dl[c].pos = Size
      BY <3>0, <3>3, <3>4, <3>6, SegmentType DEF InFile, EndOf
    <3>8. got = Size
      <4>1. Size % Size = 0 BY <3>0
      <4> QED BY <3>0, <3>2, <3>7, <4>1 DEF AlignDown
    <3>9. kept = Seg(0, Size) BY <3>0, <3>7, <3>8 DEF Seg
    <3> QED BY <3>9 DEF WholeSegs
  <2> HIDE DEF got, kept
  <2> QED BY <1>3, <2>1, <2>2, WholeAdded
<1>6. (\A c \in Conns : ~EndData(c) /\ ~Failed(c)) => done' = done
  BY DEF Next, vars, StartDownload, NoNeededPart, GetDownloadRemovedSource, StartData, Data, EndTree,
     FailDownload, OpenFails, FileNotAvailable, RemoveFileSource, Disconnected,
     ReadBlockSize, Pause, Resume, LoseTempFile
<1>7. done' \subseteq WholeSegs BY <1>3, <1>4, <1>5, <1>6
<1>8. ASSUME NEW c \in Conns, dl'[c].type = "FILE"
      PROVE  dl'[c].block = Size /\ dl'[c].seg \in WholeSegs \union {NoMoreSegments.seg}
  BY <1>1, <1>2, <1>8 DEF WInv, FewerDownloadsLeft
<1> QED BY <1>7, <1>8 DEF WInv

\* Without overlapping, what the bundle has counted is what its file has
\* finished, whatever fails, is removed or is lost: addFinishedSegment reports
\* the new bytes although it looks at the first merge of its pass only.
THEOREM CountExact == Spec /\ ~OverlapSlowSources => []BundleCountExact
<1>1. PInv => BundleCountExact BY DEF PInv
<1>2. Init => RunningNested BY DEF Init, RunningNested
<1> QED BY <1>1, <1>2, InitIInv, NextIInv, NextNested, InitPInv, NextPInv, InitWInv, NextWInv, PTL DEF Spec

-----------------------------------------------------------------------------
(* Every step of the queue item is a step of BundleFile, or changes        *)
(* nothing that it promises.                                               *)

\* The promised state stays as it is, perhaps except for the temporary file.
OnlyStored == DonePositions' = DonePositions /\ downloaded' = downloaded

LEMMA OnlyStoredPromise ==
  ASSUME TypeOK, TypeOK', OnlyStored
  PROVE  [Promise!Next]_<<DonePositions, downloaded, temp>>
<1>1. temp \in BOOLEAN /\ temp' \in BOOLEAN BY DEF TypeOK
<1>2. CASE temp' = temp BY <1>2 DEF OnlyStored
<1>3. CASE temp' # temp
  <2>1. temp' = ~temp BY <1>1, <1>3
  <2>2. Promise!ChangeStore BY <2>1 DEF OnlyStored, Promise!ChangeStore
  <2> QED BY <2>2 DEF Promise!Next
<1> QED BY <1>2, <1>3

LEMMA LeavesPromise ==
  ASSUME IInv, RunningNested, PInv, IInv', CompleteFull', NEW c \in Conns, NEW a, CutSeg(a), Leaves(c, a),
         temp' = temp
  PROVE  Promise!Next
<1>1. DonePositions' = DonePositions \union Positions(a) BY LeavesFacts
<1>2. a.start \in 0 .. Size /\ EndOf(a) \in 0 .. Size
  <2>1. a.start \in Nat /\ a.size \in Nat /\ EndOf(a) = a.start + a.size /\ EndOf(a) <= Size BY CutSegFacts
  <2> QED BY <2>1, SegmentsAssumption
<1>3. DonePositions' = DonePositions \union (a.start .. EndOf(a) - 1) BY <1>1 DEF Positions
<1>4. downloaded' \in BOOLEAN BY TypeParts DEF IInv, TypeOK
<1>5. downloaded' => DonePositions' = 0 .. Size - 1
  BY WholeFile DEF CompleteFull, SegmentsDone, DonePositions
<1>6. Promise!Receive
  BY <1>2, <1>3, <1>4, <1>5, Zenon DEF Promise!Receive, Promise!File, Leaves
<1> QED BY <1>6 DEF Promise!Next

\* Whoever has received a block has received something.
LEMMA ReceivedSomething ==
  ASSUME IInv, NEW c \in attached, dl[c].pos > 0
  PROVE  DownloadedBytes(done) # 0
<1> DEFINE S == {x \in attached \X (1 .. Size) : x[2] <= dl[x[1]].pos}
<1>t. attached \subseteq Conns /\ done \in SUBSET Segment /\ Consolidated(done) /\ dl \in [Conns -> Download]
  BY DoneTypes
<1>1. <<c, 1>> \in S
  <2>1. 1 \in 1 .. Size BY SegmentsAssumption
  <2>2. dl[c].pos \in Nat BY <1>t DEF Download
  <2> QED BY <2>1, <2>2
<1>2. IsFiniteSet(S)
  <2>1. IsFiniteSet(attached) BY <1>t, SegmentsAssumption, FS_Subset
  <2>2. IsFiniteSet(1 .. Size) BY FS_Interval, SegmentsAssumption, SMT
  <2>3. IsFiniteSet(attached \X (1 .. Size)) BY <2>1, <2>2, FS_Product
  <2> QED BY <2>3, FS_Subset
<1>3. Cardinality(S) \in Nat /\ Cardinality(S) # 0
  <2> HIDE DEF S
  <2> QED BY <1>1, <1>2, FS_CardinalityType, FS_EmptySet
<1>4. IsFiniteSet(PositionsOf(done))
  <2>1. \A s \in done : InFile(s) BY <1>t DEF InFile, Consolidated
  <2> QED BY <1>t, <2>1, PositionsInFile
<1>5. SizeOf(done) \in Nat BY <1>4, FS_CardinalityType DEF SizeOf
<1>6. DownloadedBytes(done) = SizeOf(done) + Cardinality(S) BY DEF DownloadedBytes
<1> HIDE DEF S
<1> QED BY <1>3, <1>5, <1>6

LEMMA FailedPromise ==
  ASSUME IInv, RunningNested, PInv, IInv', PInv', NEW c \in Conns, Failed(c)
  PROVE  [Promise!Next]_<<DonePositions, downloaded, temp>>
<1>1. CASE ~downloaded /\ AlignDown(dl[c].pos, dl[c].block) > 0
  <2> DEFINE kept == [start |-> dl[c].seg.start, size |-> AlignDown(dl[c].pos, dl[c].block)]
  <2>1. Leaves(c, kept) /\ CutSeg(kept) BY <1>1, FailedLeaves
  <2>2. dl[c].pos > 0 /\ dl[c].type = "FILE" BY <1>1, KeptCut
  <2>3. c \in attached BY <1>1, <2>2 DEF PInv, ListedWhileQueued
  <2>4. DownloadedBytes(done) # 0 BY <2>2, <2>3, ReceivedSomething
  <2>5. temp \in BOOLEAN BY DEF IInv, TypeOK
  <2>6. temp' = temp BY <2>4, <2>5, Zenon DEF Failed
  <2>7. CompleteFull' BY DEF PInv
  <2> HIDE DEF kept
  <2> QED BY <2>1, <2>6, <2>7, LeavesPromise
<1>2. CASE downloaded \/ ~(AlignDown(dl[c].pos, dl[c].block) > 0)
  <2>1. done' = done /\ downloaded' = downloaded BY <1>2 DEF Failed
  <2>2. OnlyStored BY <2>1 DEF OnlyStored, DonePositions
  <2> QED BY <2>2, OnlyStoredPromise DEF IInv
<1> QED BY <1>1, <1>2

LEMMA NextPromise ==
  ASSUME IInv, RunningNested, PInv, IInv', PInv', [Next]_vars
  PROVE  [Promise!Next]_<<DonePositions, downloaded, temp>>
<1>q. ASSUME Quiet PROVE [Promise!Next]_<<DonePositions, downloaded, temp>>
  <2>1. OnlyStored BY <1>q DEF OnlyStored, DonePositions, Quiet
  <2> QED BY <2>1, OnlyStoredPromise DEF IInv
<1>1. ASSUME NEW c \in Conns,
             \/ StartDownload(c) \/ NoNeededPart(c) \/ GetDownloadRemovedSource(c)
             \/ StartData(c) \/ Data(c) \/ RemoveFileSource(c) \/ Disconnected(c)
      PROVE  [Promise!Next]_<<DonePositions, downloaded, temp>>
  BY <1>1, <1>q, StepsQuiet
<1>2. ASSUME NEW c \in Conns, GetDownload(c)
      PROVE  [Promise!Next]_<<DonePositions, downloaded, temp>>
  <2>1. done' = Remaining /\ downloaded' = downloaded /\ temp' = temp BY <1>2 DEF GetDownload
  <2>2. CASE Remaining = done
    <3>1. OnlyStored BY <2>1, <2>2 DEF OnlyStored, DonePositions
    <3> QED BY <3>1, OnlyStoredPromise DEF IInv
  <2>3. CASE Remaining # done
    <3>1. ~temp /\ Remaining = {} BY <2>3 DEF Remaining
    <3>2. slotAssign # NoConn BY <1>2, SegmentsAssumption DEF GetDownload
    <3>3. ~downloaded BY <3>2, SlotQueued
    <3>4. DonePositions' = {} BY <2>1, <3>1 DEF DonePositions, PositionsOf
    <3>5. Promise!Forget BY <2>1, <3>1, <3>3, <3>4 DEF Promise!Forget
    <3> QED BY <3>5 DEF Promise!Next
  <2> QED BY <2>2, <2>3
<1>3. ASSUME NEW c \in Conns, EndTree(c)
      PROVE  [Promise!Next]_<<DonePositions, downloaded, temp>>
  BY <1>3 DEF EndTree, DonePositions
<1>4. ASSUME NEW c \in Conns, EndData(c)
      PROVE  [Promise!Next]_<<DonePositions, downloaded, temp>>
  <2>1. CASE downloaded BY <1>4, <2>1 DEF EndData, DonePositions
  <2>2. CASE ~downloaded
    <3>1. Leaves(c, dl[c].seg) /\ CutSeg(dl[c].seg) BY <1>4, <2>2, EndDataLeaves
    <3>2. temp' = temp BY <1>4 DEF EndData
    <3>3. CompleteFull' BY DEF PInv
    <3> QED BY <3>1, <3>2, <3>3, LeavesPromise
  <2> QED BY <2>1, <2>2
<1>5. ASSUME NEW c \in Conns, Failed(c)
      PROVE  [Promise!Next]_<<DonePositions, downloaded, temp>>
  BY <1>5, FailedPromise
<1>6. CASE LoseTempFile
  <2>1. OnlyStored BY <1>6 DEF LoseTempFile, OnlyStored, DonePositions
  <2> QED BY <2>1, OnlyStoredPromise DEF IInv
<1>7. CASE ReadBlockSize \/ Pause \/ Resume \/ UNCHANGED vars
  BY <1>7 DEF ReadBlockSize, Pause, Resume, vars, DonePositions
<1> QED BY <1>1, <1>2, <1>3, <1>4, <1>5, <1>6, <1>7 DEF Next, FailDownload, OpenFails, FileNotAvailable

\* Without overlapping a queue item does what BundleFile promises of a file:
\* its bytes come in whole ranges, it is taken off the queue as downloaded only
\* with all of them, and it never gives up some of them.
THEOREM KeepsPromise == Spec /\ ~OverlapSlowSources => ImplementsBundleFile
<1>1. Init => RunningNested BY DEF Init, RunningNested
<1>2. Init => Promise!Init
  <2>1. PositionsOf({}) = {} BY DEF PositionsOf
  <2> QED BY <2>1 DEF Init, Promise!Init, DonePositions
<1>3. IInv /\ RunningNested /\ PInv /\ IInv' /\ PInv' /\ [Next]_vars
        => [Promise!Next]_<<DonePositions, downloaded, temp>>
  BY NextPromise
<1> QED
  BY <1>1, <1>2, <1>3, InitIInv, NextIInv, NextNested, InitPInv, NextPInv, InitWInv, NextWInv, PTL
  DEF Spec, ImplementsBundleFile, Promise!Spec

-----------------------------------------------------------------------------
(* Downloads do not stay attached behind their end, unless a source is     *)
(* removed while it downloads: completing the file clears the downloads of *)
(* its sources, so every attached connection must be one of them.          *)

AttachedSources == attached \subseteq sources

NoneAfterwards == downloaded => attached = {}

SlotIdle == \A c \in Conns : slotAssign = c => dl[c].type = "NONE"

AInv == RemovableSources = {} /\ NoDanglingDownload /\ AttachedSources /\ NoneAfterwards /\ SlotIdle

LEMMA InitAInv == Init /\ RemovableSources = {} => AInv
BY SegmentsAssumption DEF Init, AInv, NoDanglingDownload, AttachedSources, NoneAfterwards, SlotIdle, NoDownload

\* A connection that asks for a download is not attached.
LEMMA NextAInv == IInv /\ RunningNested /\ PInv /\ AInv /\ [Next]_vars => AInv'
<1> SUFFICES ASSUME IInv, RunningNested, PInv, AInv, [Next]_vars PROVE AInv' OBVIOUS
<1>t. dl \in [Conns -> Download] /\ attached \subseteq Conns BY DoneTypes
<1>n. NoConn \notin Conns BY SegmentsAssumption
<1>1. ASSUME Quiet, sources' = sources, slotAssign' = slotAssign \/ slotAssign' = NoConn PROVE AInv'
  BY <1>1, <1>t, <1>n DEF AInv, NoDanglingDownload, AttachedSources, NoneAfterwards, SlotIdle, Quiet
<1>2. ASSUME NEW c \in Conns, StartDownload(c) PROVE AInv'
  <2>1. Quiet BY <1>2, StepsQuiet
  <2>2. dl[c].type = "NONE" /\ slotAssign' = c /\ sources' = sources
    BY <1>2 DEF StartDownload, NoDownload
  <2> QED BY <2>1, <2>2, <1>t
        DEF AInv, NoDanglingDownload, AttachedSources, NoneAfterwards, SlotIdle, Quiet
<1>3. ASSUME NEW c \in Conns, NoNeededPart(c) PROVE AInv'
  <2>1. Quiet BY <1>3, StepsQuiet
  <2>2. slotAssign = c /\ slotAssign' = NoConn /\ sources' = sources \ {c} BY <1>3 DEF NoNeededPart
  <2>3. c \notin attached BY <2>2 DEF AInv, NoDanglingDownload, SlotIdle
  <2> QED BY <2>1, <2>2, <2>3, <1>t, <1>n
        DEF AInv, NoDanglingDownload, AttachedSources, NoneAfterwards, SlotIdle, Quiet
<1>4. ASSUME NEW c \in Conns, GetDownload(c) PROVE AInv'
  <2>1. /\ slotAssign # NoConn /\ slotAssign' = NoConn /\ downloaded' = downloaded
        /\ attached' = attached \union {c} /\ sources' = sources /\ c \in sources
    BY <1>4, <1>n DEF GetDownload
  <2>2. ~downloaded BY <2>1, SlotQueued
  <2>3. dl'[c].type # "NONE" /\ \A d \in Conns \ {c} : dl'[d].type = dl[d].type
    BY <1>4, GetDownloadTakes DEF TakesTree, TakesSegment
  <2> QED BY <2>1, <2>2, <2>3, <1>t, <1>n
        DEF AInv, NoDanglingDownload, AttachedSources, NoneAfterwards, SlotIdle
\* The download of c is over.
<1>5. ASSUME NEW c \in Conns, dl'[c].type = "NONE",
             \A d \in Conns \ {c} : dl'[d].type = dl[d].type,
             slotAssign' = slotAssign, sources \ {c} \subseteq sources',
             attached' = {} \/ (attached' = attached \ {c} /\ ~downloaded')
      PROVE  AInv'
  BY <1>5, <1>t DEF AInv, NoDanglingDownload, AttachedSources, NoneAfterwards, SlotIdle
<1>6. ASSUME NEW c \in Conns, EndTree(c) PROVE AInv'
  <2>1. dl'[c].type = "NONE" /\ \A d \in Conns \ {c} : dl'[d].type = dl[d].type
    BY <1>6, <1>t DEF EndTree, NoDownload
  <2>2. /\ attached' = attached \ {c} /\ downloaded' = downloaded
        /\ slotAssign' = slotAssign /\ sources' = sources
    BY <1>6 DEF EndTree
  <2>3. downloaded => attached' = {} BY <2>2 DEF AInv, NoneAfterwards
  <2> QED BY <2>1, <2>2, <2>3, <1>5
<1>7. ASSUME NEW c \in Conns, EndData(c) PROVE AInv'
  <2>1. dl'[c].type = "NONE" /\ \A d \in Conns \ {c} : dl'[d].type = dl[d].type
    BY <1>7, <1>t DEF EndData, NoDownload
  <2>2. slotAssign' = slotAssign /\ sources' = sources BY <1>7 DEF EndData
  <2>3. CASE downloaded
    <3>1. attached' = {} BY <1>7, <2>3 DEF EndData, AInv, NoneAfterwards
    <3> QED BY <2>1, <2>2, <3>1, <1>5
  <2>4. CASE ~downloaded /\ done' = {Seg(0, Size)}
    <3>1. attached' = attached \ sources BY <1>7, <2>4 DEF EndData
    <3>2. attached' = {} BY <3>1 DEF AInv, AttachedSources
    <3> QED BY <2>1, <2>2, <3>2, <1>5
  <2>5. CASE ~downloaded /\ done' # {Seg(0, Size)}
    <3>1. attached' = attached \ {c} /\ downloaded' = downloaded BY <1>7, <2>5 DEF EndData
    <3> QED BY <2>1, <2>2, <2>5, <3>1, <1>5
  <2> QED BY <2>3, <2>4, <2>5
<1>8. ASSUME NEW c \in Conns, Failed(c), sources \ {c} \subseteq sources' PROVE AInv'
  <2>1. dl'[c].type = "NONE" /\ \A d \in Conns \ {c} : dl'[d].type = dl[d].type
    <3>1. PICK b : dl' = [d \in Conns |-> IF d = c THEN NoDownload ELSE [dl[d] EXCEPT !.live = @ /\ b]]
      BY <1>8, Zenon DEF Failed
    <3>2. NoDownload.type = "NONE" BY DEF NoDownload
    <3> HIDE DEF NoDownload
    <3> QED BY <3>1, <3>2, <1>t DEF Download
  <2>2. /\ slotAssign' = slotAssign /\ downloaded' = downloaded
        /\ attached' = IF downloaded THEN attached ELSE attached \ {c}
    BY <1>8 DEF Failed
  <2>3. downloaded => attached' = {} BY <2>2 DEF AInv, NoneAfterwards
  <2> QED BY <1>8, <2>1, <2>2, <2>3, <1>5
<1>12. ASSUME NEW c \in Conns, FailDownload(c) \/ OpenFails(c) \/ FileNotAvailable(c) PROVE AInv'
  <2>1. Failed(c) BY <1>12 DEF FailDownload, OpenFails, FileNotAvailable
  <2>2. sources' = sources \/ sources' = sources \ {c}
    BY <1>12, Zenon DEF FailDownload, OpenFails, FileNotAvailable
  <2> QED BY <2>1, <2>2, <1>8
<1>9. ASSUME NEW c \in Conns, GetDownloadRemovedSource(c) \/ StartData(c) \/ Data(c) \/ Disconnected(c)
      PROVE  AInv'
  <2>1. Quiet BY <1>9, StepsQuiet
  <2>2. sources' = sources /\ (slotAssign' = slotAssign \/ slotAssign' = NoConn)
    BY <1>9 DEF GetDownloadRemovedSource, StartData, Data, Disconnected
  <2> QED BY <2>1, <2>2, <1>1
<1>10. ASSUME NEW c \in Conns, RemoveFileSource(c) PROVE AInv'
  BY <1>10 DEF RemoveFileSource, AInv
<1>11. CASE ReadBlockSize \/ Pause \/ Resume \/ LoseTempFile \/ UNCHANGED vars
  <2>1. Quiet /\ sources' = sources /\ slotAssign' = slotAssign
    BY <1>11, <1>t DEF ReadBlockSize, Pause, Resume, LoseTempFile, vars, Quiet, Download
  <2> QED BY <2>1, <1>1
<1> QED
  BY <1>2, <1>3, <1>4, <1>6, <1>7, <1>9, <1>10, <1>11, <1>12 DEF Next

\* Without overlapping, and as long as no source is removed by hand or for being
\* slow, QueueItem::downloads never names a download that has been deleted, also
\* when the file is completed under other downloads or a request for a segment.
THEOREM NoneDangling == Spec /\ ~OverlapSlowSources /\ RemovableSources = {} => []NoDanglingDownload
<1>1. Init => RunningNested BY DEF Init, RunningNested
<1>2. AInv => NoDanglingDownload BY DEF AInv
<1> QED
  BY <1>1, <1>2, InitIInv, NextIInv, NextNested, InitPInv, NextPInv, InitWInv, NextWInv, InitAInv, NextAInv, PTL DEF Spec

-----------------------------------------------------------------------------
(* The search does not stall: a queued file lacks a position, the block of *)
(* a missing position is free when nobody downloads, and the search takes  *)
(* the first free block.                                                   *)

LEMMA GreatestElement ==
  ASSUME NEW n \in Nat, NEW S \in SUBSET (1 .. n), S # {}
  PROVE  \E m \in S : \A k \in S : k <= m
<1> DEFINE T == {n - k : k \in S}
<1>1. T \in SUBSET Nat /\ T # {}
  <2>1. \A k \in S : k \in Int /\ k <= n OBVIOUS
  <2>2. \A k \in S : n - k \in Nat BY <2>1
  <2>3. T # {} OBVIOUS
  <2> QED BY <2>2, <2>3, Zenon
<1>2. PICK t \in T : \A u \in T : t <= u
  <2> HIDE DEF T
  <2> QED BY <1>1, LeastElement
<1>3. PICK m \in S : t = n - m BY <1>2
<1>4. ASSUME NEW k \in S PROVE k <= m
  <2>1. n - k \in T OBVIOUS
  <2>2. t <= n - k BY <1>2, <2>1
  <2> QED BY <1>3, <2>2
<1> QED BY <1>4

LEMMA FirstFreeExists ==
  ASSUME NEW fin \in SUBSET Segment, attached = {}, NEW target \in Int, target >= BlockSize,
         NEW x \in 0 .. Size - 1, x \notin PositionsOf(fin)
  PROVE  FirstFree(fin, target) # {}
<1>0. BlockSize \in Nat \ {0} /\ Size \in Nat \ {0} BY SegmentsAssumption
<1> DEFINE k == x \div BlockSize
           start == k * BlockSize
           Starts == {s \in BlockStarts : FreeSizes(fin, s, target) # {}}
<1>1. k \in Nat /\ start <= x /\ x < start + BlockSize BY <1>0
<1>2. start \in Nat BY <1>0, <1>1
<1>3. start \in BlockStarts
  <2> DEFINE q == (Size - 1) \div BlockSize
  <2>1. q \in Nat /\ Size - 1 < q * BlockSize + BlockSize BY <1>0
  <2> HIDE DEF q, k
  <2>2. k * BlockSize < q * BlockSize + BlockSize BY <1>0, <1>1, <1>2, <2>1
  <2>3. k * BlockSize <= q * BlockSize BY <1>1, <2>1, <2>2, BlockSteps
  <2>4. k <= q
    <3> SUFFICES ASSUME ~(k <= q) PROVE FALSE OBVIOUS
    <3>1. k - q \in Nat \ {0} BY <1>1, <2>1
    <3>2. (k - q) * BlockSize > 0 BY <3>1, <1>0
    <3>3. k * BlockSize = q * BlockSize + (k - q) * BlockSize BY <1>0, <1>1, <2>1
    <3> QED BY <2>3, <3>2, <3>3, <1>0, <1>1, <2>1
  <2> QED BY <1>1, <2>1, <2>4 DEF BlockStarts, q
<1>4. BlockSize \in FreeSizes(fin, start, target)
  <2> HIDE DEF k
  <2>1. BlockSize \in 1 .. target /\ BlockSize % BlockSize = 0 BY <1>0
  <2>2. ASSUME NEW s \in fin, Covers(s, BlockAt(start, BlockSize)) PROVE FALSE
    <3> DEFINE to == IF start + BlockSize < Size THEN start + BlockSize ELSE Size
    <3>1. to \in Int /\ start \in Int /\ x < to BY <1>0, <1>1, <1>2
    <3>2. BlockAt(start, BlockSize) = Seg(start, to) BY DEF BlockAt
    <3> HIDE DEF to
    <3>3. Seg(start, to).start = start /\ EndOf(Seg(start, to)) = to BY <3>1, SegEnds
    <3>4. s.start <= start /\ to <= EndOf(s) BY <2>2, <3>2, <3>3 DEF Covers
    <3>5. x \in Positions(s) BY <1>1, <1>2, <3>1, <3>4, SegmentType DEF Positions
    <3> QED BY <3>5 DEF PositionsOf
  <2>3. FreeBlock(fin, start, BlockSize) BY <1>0, <2>2 DEF FreeBlock
  <2> QED BY <2>1, <2>3 DEF FreeSizes
<1>5. Starts \in SUBSET Nat /\ Starts # {}
  <2>1. BlockStarts \subseteq Nat
    <3>1. (Size - 1) \div BlockSize \in Nat BY <1>0
    <3>2. \A j \in Nat : j * BlockSize \in Nat BY <1>0
    <3> QED BY <3>1, <3>2 DEF BlockStarts
  <2> HIDE DEF start
  <2> QED BY <2>1, <1>3, <1>4
<1>6. PICK l \in Starts : \A m \in Starts : l <= m
  <2> HIDE DEF Starts
  <2> QED BY <1>5, LeastElement
<1>7. \A r \in BlockStarts : r < l => FreeSizes(fin, r, target) = {}
  <2> SUFFICES ASSUME NEW r \in BlockStarts, r < l, FreeSizes(fin, r, target) # {} PROVE FALSE OBVIOUS
  <2>1. r \in Starts OBVIOUS
  <2>2. l <= r /\ l \in Nat /\ r \in Nat BY <2>1, <1>5, <1>6
  <2> QED BY <2>2
<1>8. LargestSizes(fin, l, target) # {}
  <2>1. FreeSizes(fin, l, target) \in SUBSET (1 .. target) /\ FreeSizes(fin, l, target) # {}
    BY DEF FreeSizes
  <2>2. target \in Nat BY <1>0
  <2>3. PICK n \in FreeSizes(fin, l, target) : \A m \in FreeSizes(fin, l, target) : m <= n
    BY <2>1, <2>2, GreatestElement
  <2> QED BY <2>3 DEF LargestSizes
<1>9. LargestBlocks(fin, l, target) # {} BY <1>8 DEF LargestBlocks
<1> QED BY <1>7, <1>9 DEF FirstFree

LEMMA NextSegmentsGoOn ==
  ASSUME attached = {}, ~paused, NEW fin \in SUBSET Segment, Consolidated(fin), \A s \in fin : CutSeg(s),
         fin # {Seg(0, Size)}, NEW c \in Conns, Partial[c] = {}, NEW wanted \in Nat,
         NEW block, block = BlockSize \/ (block = Size /\ fin \subseteq WholeSegs),
         NEW r \in NextSegments(fin, c, wanted, TRUE, block)
  PROVE  r.seg.size > 0 /\ ~(Positions(r.seg) \subseteq PositionsOf(fin))
<1> DEFINE target == TargetSize(fin, wanted)
           Plain(segments) == {[seg |-> s, overlapped |-> FALSE] : s \in segments}
<1>0. attached \subseteq Conns OBVIOUS
<1>1. target \in Int BY <1>0, TargetSizeInt
<1>2. target >= BlockSize BY <1>0, TargetBlocks
<1>3. PICK x \in 0 .. Size - 1 : x \notin PositionsOf(fin) BY PositionMissing
<1> HIDE DEF target
<1>4. FirstFree(fin, target) # {} BY <1>1, <1>2, <1>3, FirstFreeExists
<1>5. r \in Plain({WholeGap(fin, block)}) \/ r \in Plain(FirstFree(fin, target))
  <2>1. CASE ~MultiChunk \/ block >= Size
    BY <2>1, Zenon DEF NextSegments, Unsegmented
  <2>2. CASE ~(~MultiChunk \/ block >= Size)
    <3>1. ~(Cardinality(attached) >= MaxSegments) BY FS_EmptySet, SegmentsAssumption
    <3> QED BY <2>2, <3>1, <1>4, Zenon DEF NextSegments, target
  <2> QED BY <2>1, <2>2
<1>6. ASSUME NEW s, CutSeg(s), s.size > 0, Misses(s, fin)
      PROVE  ~(Positions(s) \subseteq PositionsOf(fin))
  <2>1. s.start \in Nat /\ EndOf(s) \in Nat /\ s.start < EndOf(s) BY <1>6, CutSegFacts
  <2>2. s.start \in Positions(s) BY <2>1 DEF Positions
  <2>3. ASSUME NEW t \in fin, s.start \in Positions(t) PROVE FALSE
    <3>1. ~Intersect(s, t) BY <1>6 DEF Misses
    <3>2. t.start \in Int /\ EndOf(t) \in Int BY SegmentType
    <3>3. t.start <= s.start /\ s.start < EndOf(t) BY <2>1, <2>3, <3>2 DEF Positions
    <3> QED BY <2>1, <3>1, <3>2, <3>3 DEF Intersect
  <2> QED BY <2>2, <2>3 DEF PositionsOf
<1>7. CASE r \in Plain({WholeGap(fin, block)})
  <2>1. r = [seg |-> WholeGap(fin, block), overlapped |-> FALSE] BY <1>7
  <2>2. r.seg = WholeGap(fin, block) BY <2>1
  <2>3. CutSeg(r.seg) /\ r.seg.size > 0 /\ Misses(r.seg, fin) BY <1>3, <2>2, WholeGapCut, WholeGapWhole
  <2> QED BY <2>3, <1>6
<1>8. CASE r \in Plain(FirstFree(fin, target))
  <2>1. PICK s \in FirstFree(fin, target) : r = [seg |-> s, overlapped |-> FALSE] BY <1>8
  <2>2. r.seg = s BY <2>1
  <2>3. CutSeg(s) /\ s.size > 0 /\ Misses(s, fin) BY <1>1, FreeBlockCut DEF FirstFree
  <2> QED BY <2>2, <2>3, <1>6
<1> QED BY <1>5, <1>7, <1>8

\* A file is complete only when it has been taken off the queue.
QInv == ~downloaded => ~SegmentsDone

LEMMA InitQInv == Init => QInv
BY DEF Init, QInv, SegmentsDone

\* A failed download never brings the last missing bytes: it lacks the last
\* position of its own segment, which nobody else has.
LEMMA FailedIncomplete ==
  ASSUME IInv, RunningNested, PInv, QInv, NEW c \in Conns,
         FailDownload(c) \/ OpenFails(c) \/ FileNotAvailable(c), ~downloaded'
  PROVE  ~SegmentsDone'
<1> DEFINE kept == [start |-> dl[c].seg.start, size |-> AlignDown(dl[c].pos, dl[c].block)]
<1>1. Failed(c) /\ downloaded' = downloaded BY DEF FailDownload, OpenFails, FileNotAvailable, Failed
<1>2. CASE ~(AlignDown(dl[c].pos, dl[c].block) > 0)
  <2>1. done' = done BY <1>1, <1>2 DEF Failed
  <2> QED BY <2>1, <1>1 DEF QInv, SegmentsDone
<1>3. CASE AlignDown(dl[c].pos, dl[c].block) > 0
  <2>1. Leaves(c, kept) /\ CutSeg(kept) BY <1>1, <1>3, FailedLeaves
  <2>2. dl[c].pos > 0 BY <1>3, KeptCut
  <2>3. dl[c].pos \in Nat BY TypeParts DEF IInv, DownloadTypes, Download
  <2>4. dl[c].running /\ dl[c].type = "FILE" /\ InFile(dl[c].seg) BY <2>2, <2>3 DEF IInv, DownloadsInFile
  <2>5. dl[c].pos < dl[c].seg.size BY <2>4 DEF FailDownload, OpenFails, FileNotAvailable
  <2>6. CutSeg(dl[c].seg) /\ Misses(dl[c].seg, done)
    BY <1>1, <2>1, <2>4, NoneFacts DEF PInv, Leaves, DownloadsCut, DownloadsUnfinished, CutOrNone, InFile
  <2> DEFINE x == EndOf(dl[c].seg) - 1
  <2>7. /\ dl[c].seg.start \in Nat /\ dl[c].seg.size \in Nat /\ EndOf(dl[c].seg) <= Size
        /\ EndOf(dl[c].seg) = dl[c].seg.start + dl[c].seg.size
    BY <2>6, CutSegFacts
  <2>8. AlignDown(dl[c].pos, dl[c].block) \in Nat /\ AlignDown(dl[c].pos, dl[c].block) <= dl[c].pos
    <3>1. dl[c].block \in BlockSizes BY TypeParts DEF IInv, DownloadTypes, Download, BlockSizes
    <3> QED BY <2>3, <3>1, BlockArithmetic
  <2>9. x \in Positions(dl[c].seg) /\ x \in 0 .. Size - 1
    BY <2>3, <2>5, <2>7, SegmentsAssumption DEF Positions
  <2>10. x \notin Positions(kept)
    BY <2>3, <2>5, <2>7, <2>8 DEF Positions, EndOf
  <2>11. x \notin DonePositions
    <3>1. \A s \in done : Positions(dl[c].seg) \intersect Positions(s) = {}
      BY <2>6, MissedPositions DEF PInv, DoneCut, Misses
    <3> HIDE DEF x
    <3> QED BY <2>9, <3>1 DEF DonePositions, PositionsOf
  <2>12. DonePositions' = DonePositions \union Positions(kept) BY <2>1, LeavesFacts
  <2> HIDE DEF x, kept
  <2>13. DonePositions' # 0 .. Size - 1 BY <2>9, <2>10, <2>11, <2>12
  <2> QED BY <2>13, WholeFile DEF SegmentsDone, DonePositions
<1> QED BY <1>2, <1>3

LEMMA NextQInv == IInv /\ RunningNested /\ PInv /\ QInv /\ [Next]_vars => QInv'
<1> SUFFICES ASSUME IInv, RunningNested, PInv, QInv, [Next]_vars PROVE QInv' OBVIOUS
<1>2. ASSUME NEW c \in Conns,
             \/ StartDownload(c) \/ NoNeededPart(c) \/ GetDownloadRemovedSource(c)
             \/ StartData(c) \/ Data(c) \/ EndTree(c) \/ RemoveFileSource(c) \/ Disconnected(c)
      PROVE  done' = done /\ downloaded' = downloaded
  BY <1>2 DEF StartDownload, NoNeededPart, GetDownloadRemovedSource, StartData, Data, EndTree,
     RemoveFileSource, Disconnected
<1>3. ReadBlockSize \/ Pause \/ Resume \/ LoseTempFile \/ UNCHANGED vars
        => done' = done /\ downloaded' = downloaded
  BY DEF ReadBlockSize, Pause, Resume, LoseTempFile, vars
<1>4. ASSUME done' = done /\ downloaded' = downloaded PROVE ~downloaded' => ~SegmentsDone'
  BY <1>4 DEF QInv, SegmentsDone
<1>5. ASSUME NEW c \in Conns, GetDownload(c) PROVE ~downloaded' => ~SegmentsDone'
  BY <1>5 DEF GetDownload, Remaining, QInv, SegmentsDone
<1>6. ASSUME NEW c \in Conns, EndData(c) PROVE ~downloaded' => ~SegmentsDone'
  BY <1>6 DEF EndData, SegmentsDone
<1>7. ASSUME NEW c \in Conns, FailDownload(c) \/ OpenFails(c) \/ FileNotAvailable(c)
      PROVE  ~downloaded' => ~SegmentsDone'
  BY <1>7, FailedIncomplete
<1>8. ~downloaded' => ~SegmentsDone'
  BY <1>2, <1>3, <1>4, <1>5, <1>6, <1>7 DEF Next
<1> QED BY <1>8 DEF QInv

\* Without overlapping a file in the queue that nobody downloads is incomplete,
\* and getNextSegment finds unfinished bytes for every full source of it.
THEOREM GoesOn == Spec /\ ~OverlapSlowSources => []NoStall
<1>1. Init => RunningNested BY DEF Init, RunningNested
<1>2. IInv /\ PInv /\ WInv /\ QInv => NoStall
  <2> SUFFICES ASSUME IInv, PInv, WInv, QInv, ~downloaded, ~paused, attached = {}
               PROVE  /\ ~SegmentsDone
                      /\ \A c \in sources : \A w \in WantedSizes :
                            Partial[c] = {} => \A r \in NextSegments(Remaining, c, w, TRUE,
                                                        IF tree THEN BlockSize ELSE Size) :
                                                  /\ r.seg.size > 0
                                                  /\ ~(Positions(r.seg) \subseteq PositionsOf(Remaining))
    BY Zenon DEF NoStall
  <2>1. ~SegmentsDone BY DEF QInv
  <2>2. /\ Remaining \in SUBSET Segment /\ Consolidated(Remaining)
        /\ \A s \in Remaining : CutSeg(s)
        /\ Remaining # {Seg(0, Size)}
    <3>1. Consolidated({}) BY DEF Consolidated
    <3> QED BY <2>1, <3>1, DoneTypes DEF Remaining, PInv, DoneCut, SegmentsDone
  <2>3. sources \subseteq Conns BY TypeParts DEF IInv, SetTypes
  <2>4. WantedSizes \subseteq Nat BY SegmentsAssumption
  <2> DEFINE block == IF tree THEN BlockSize ELSE Size
  <2>5. block = BlockSize \/ (block = Size /\ Remaining \subseteq WholeSegs) BY DEF WInv, Remaining
  <2> HIDE DEF block
  <2>6. \A c \in sources : \A w \in WantedSizes :
           Partial[c] = {} => \A r \in NextSegments(Remaining, c, w, TRUE, block) :
                                 /\ r.seg.size > 0
                                 /\ ~(Positions(r.seg) \subseteq PositionsOf(Remaining))
    BY <2>2, <2>3, <2>4, <2>5, NextSegmentsGoOn
  <2> QED BY <2>1, <2>6 DEF block
<1> QED
  BY <1>1, <1>2, InitIInv, NextIInv, NextNested, InitPInv, NextPInv, InitWInv, NextWInv, InitQInv, NextQInv, PTL DEF Spec
-----------------------------------------------------------------------------
(* The temporary file has what is finished, as long as only one connection *)
(* downloads the file at a time: by MULTI_CHUNK, by a limit of one segment, *)
(* or because the file is one block of its tree.  A download is then never *)
(* left with a file that another one has deleted.                          *)

OneAtATime == ~OverlapSlowSources /\ (MaxSegments = 1 \/ ~MultiChunk \/ BlockSize >= Size)

NoneRunning == \A c \in Conns : dl[c].type = "NONE"

SlotAlone == slotAssign # NoConn => NoneRunning

OneDownload == \A c, d \in Conns : dl[c].type # "NONE" /\ dl[d].type # "NONE" => c = d

Received(c) == dl[c].seg.start .. dl[c].seg.start + dl[c].pos - 1

ReceivedOnDisk ==
    \A c \in Conns : dl[c].type # "NONE" /\ dl[c].running => dl[c].live /\ Received(c) \subseteq disk

DInv ==
    /\ OneAtATime /\ SlotAlone /\ OneDownload
    /\ temp => DonePositions \subseteq disk /\ ReceivedOnDisk

LEMMA InitDInv == Init /\ OneAtATime => DInv
<1> SUFFICES ASSUME Init, OneAtATime PROVE DInv OBVIOUS
<1>1. \A c \in Conns : dl[c].type = "NONE" BY DEF Init, NoDownload
<1> QED BY <1>1 DEF Init, DInv, SlotAlone, NoneRunning, OneDownload

\* A connection is only admitted when no other one downloads.
LEMMA HasSegmentAlone ==
  ASSUME OneAtATime, SetTypes, NEW c \in Conns, HasSegment(c)
  PROVE  attached = {}
<1> SUFFICES ASSUME attached # {} PROVE FALSE OBVIOUS
<1>1. PICK r \in NextSegments(done, c, 0, TRUE, GetBlockSize) : r.seg.size # 0 BY DEF HasSegment
<1>2. r \in Overlaps(c, TRUE, GetBlockSize) \/ r = NoMoreSegments
  <2>1. CASE ~MultiChunk \/ GetBlockSize >= Size BY <2>1, Zenon DEF NextSegments, Unsegmented
  <2>2. CASE ~(~MultiChunk \/ GetBlockSize >= Size)
    <3>0. ~(BlockSize >= Size)
      <4>1. GetBlockSize \in {BlockSize, Size} BY DEF GetBlockSize, SetTypes
      <4>2. Size >= Size BY SegmentsAssumption
      <4> QED BY <2>2, <4>1, <4>2
    <3>1. MaxSegments = 1 BY <2>2, <3>0 DEF OneAtATime
    <3>2. IsFiniteSet(attached) BY SegmentsAssumption, FS_Subset DEF SetTypes
    <3>3. Cardinality(attached) \in Nat /\ Cardinality(attached) # 0
      BY <3>2, FS_CardinalityType, FS_EmptySet
    <3>4. Cardinality(attached) >= MaxSegments BY <3>1, <3>3
    <3> QED BY <2>2, <3>4, Zenon DEF NextSegments
  <2> QED BY <2>1, <2>2
<1>3. CASE r \in Overlaps(c, TRUE, GetBlockSize)
  <2>1. r = NoBlock BY <1>3 DEF Overlaps, OneAtATime
  <2> QED BY <1>1, <2>1, BlankSeg DEF NoBlock
<1>4. CASE r = NoMoreSegments BY <1>1, <1>4 DEF NoMoreSegments
<1> QED BY <1>2, <1>3, <1>4

LEMMA NextAlone == IInv /\ PInv /\ DInv /\ [Next]_vars => SlotAlone' /\ OneDownload'
<1> SUFFICES ASSUME IInv, PInv, DInv, [Next]_vars PROVE SlotAlone' /\ OneDownload' OBVIOUS
<1>n. NoConn \notin Conns BY SegmentsAssumption
<1>s. SlotAlone /\ OneDownload /\ OneAtATime BY DEF DInv
<1>1. ASSUME NEW c \in Conns, GetDownload(c) PROVE SlotAlone' /\ OneDownload'
  <2>1. slotAssign = c /\ slotAssign' = NoConn BY <1>1 DEF GetDownload
  <2>2. NoneRunning BY <2>1, <1>n, <1>s DEF SlotAlone
  <2>3. \A d \in Conns \ {c} : dl'[d].type = dl[d].type
    BY <1>1, GetDownloadTakes DEF TakesTree, TakesSegment
  <2>4. \A d \in Conns \ {c} : dl'[d].type = "NONE" BY <2>2, <2>3 DEF NoneRunning
  <2> QED BY <2>1, <2>4 DEF SlotAlone, OneDownload
<1>2. CASE \A c \in Conns : ~GetDownload(c)
  <2>1. FewerDownloadsLeft BY <1>2, StepsEndDownloads
  <2>2. \A d \in Conns : dl[d].type = "NONE" => dl'[d].type = "NONE" BY <2>1 DEF FewerDownloadsLeft
  <2>3. OneDownload' BY <2>2, <1>s DEF OneDownload
  <2>4. NoneRunning => NoneRunning' BY <2>2 DEF NoneRunning
  <2>5. ASSUME NEW c \in Conns, StartDownload(c) PROVE NoneRunning'
    <3>1. HasSegment(c) /\ ~downloaded BY <2>5 DEF StartDownload, HasSegment
    <3>2. attached = {} BY <3>1, <1>s, TypeParts, HasSegmentAlone DEF IInv
    <3>3. NoneRunning BY <3>1, <3>2 DEF PInv, ListedWhileQueued, NoneRunning
    <3> QED BY <3>3, <2>4
  <2>6. CASE \A c \in Conns : ~StartDownload(c)
    <3>1. slotAssign' = slotAssign \/ slotAssign' = NoConn
      BY <2>6 DEF Next, vars, NoNeededPart, GetDownload, GetDownloadRemovedSource, StartData, Data,
         EndTree, EndData, FailDownload, OpenFails, FileNotAvailable, Failed, RemoveFileSource,
         Disconnected, ReadBlockSize, Pause, Resume, LoseTempFile
    <3> QED BY <3>1, <2>3, <2>4, <1>s DEF SlotAlone
  <2> QED BY <2>3, <2>5, <2>6 DEF SlotAlone
<1> QED BY <1>1, <1>2

\* Nothing counted means nothing finished.
LEMMA NothingFinished ==
  ASSUME IInv, ~(DownloadedBytes(done) > 0)
  PROVE  DonePositions = {}
<1> DEFINE S == {x \in attached \X (1 .. Size) : x[2] <= dl[x[1]].pos}
<1>t. attached \subseteq Conns /\ done \in SUBSET Segment /\ Consolidated(done) BY DoneTypes
<1>1. IsFiniteSet(S)
  <2>1. IsFiniteSet(attached) BY <1>t, SegmentsAssumption, FS_Subset
  <2>2. IsFiniteSet(1 .. Size) BY FS_Interval, SegmentsAssumption, SMT
  <2>3. IsFiniteSet(attached \X (1 .. Size)) BY <2>1, <2>2, FS_Product
  <2> QED BY <2>3, FS_Subset
<1>2. Cardinality(S) \in Nat
  <2> HIDE DEF S
  <2> QED BY <1>1, FS_CardinalityType
<1>3. IsFiniteSet(PositionsOf(done))
  <2>1. \A s \in done : InFile(s) BY <1>t DEF InFile, Consolidated
  <2> QED BY <1>t, <2>1, PositionsInFile
<1>4. SizeOf(done) \in Nat BY <1>3, FS_CardinalityType DEF SizeOf
<1>5. DownloadedBytes(done) = SizeOf(done) + Cardinality(S) BY DEF DownloadedBytes
<1> HIDE DEF S
<1>6. Cardinality(PositionsOf(done)) = 0 BY <1>2, <1>4, <1>5 DEF SizeOf
<1> QED BY <1>3, <1>6, FS_EmptySet DEF DonePositions

\* What a download leaves of the bytes it has written is in the file.
LEMMA LeftOnDisk ==
  ASSUME IInv, NEW c \in Conns, NEW n \in Nat, n <= dl[c].pos, DonePositions \subseteq disk,
         Received(c) \subseteq disk, done' = DoneAfter([start |-> dl[c].seg.start, size |-> n])
  PROVE  DonePositions' \subseteq disk
<1> DEFINE a == [start |-> dl[c].seg.start, size |-> n]
<1>t. dl \in [Conns -> Download] /\ done \in SUBSET Segment BY DoneTypes
<1>1. dl[c].seg.start \in Int /\ dl[c].pos \in Nat BY <1>t DEF Download, Segment
<1>2. a \in Segment /\ a.start = dl[c].seg.start /\ EndOf(a) = dl[c].seg.start + n
  BY <1>1 DEF Segment, EndOf
<1>3. Positions(a) \subseteq Received(c) BY <1>1, <1>2 DEF Positions, Received
<1> HIDE DEF a
<1>4. PositionsOf(DoneAfter(a)) \subseteq PositionsOf(done) \union Positions(a)
  BY <1>t, <1>2, MergedWithin
<1>5. done' = DoneAfter(a) BY DEF a
<1>6. DonePositions' = PositionsOf(DoneAfter(a)) BY <1>5 DEF DonePositions
<1> QED BY <1>3, <1>4, <1>6 DEF DonePositions

Stored == temp => DonePositions \subseteq disk /\ ReceivedOnDisk

\* A request leaves the bytes of the running downloads where they are, and may
\* only forget what is finished.
LEMMA GetDownloadStored ==
  ASSUME IInv, DInv, NEW c \in Conns, GetDownload(c)
  PROVE  Stored'
<1>t. dl \in [Conns -> Download] BY DoneTypes
<1>s. (temp => DonePositions \subseteq disk /\ ReceivedOnDisk) /\ SlotAlone BY DEF DInv
<1>1. temp' = temp /\ disk' = disk /\ done' = Remaining /\ slotAssign = c BY DEF GetDownload
<1>2. DonePositions' \subseteq DonePositions BY <1>1 DEF DonePositions, PositionsOf, Remaining
<1>3. ~dl'[c].running /\ \A d \in Conns \ {c} : dl'[d].type = dl[d].type /\ dl'[d].seg = dl[d].seg
                                                /\ dl'[d].running = dl[d].running
                                                /\ dl'[d].pos = dl[d].pos /\ dl'[d].live = dl[d].live
  <2>1. CASE dl' = [dl EXCEPT ![c] = TreeDownload] BY <2>1, <1>t DEF TreeDownload, NoDownload
  <2>2. ASSUME NEW r, NEW block, NEW orig, dl' = WithDownload(c, r, block, orig)
        PROVE  ~dl'[c].running /\ \A d \in Conns \ {c} : dl'[d].type = dl[d].type /\ dl'[d].seg = dl[d].seg
                                                /\ dl'[d].running = dl[d].running
                                                /\ dl'[d].pos = dl[d].pos /\ dl'[d].live = dl[d].live
    BY <2>2, <1>t DEF WithDownload, FileDownload, NoDownload, Download
  <2>3. TypeOK BY DEF IInv
  <2> HIDE DEF NoDownload
  <2> QED BY <2>1, <2>2, <2>3, GetDownloadCases, Zenon
<1>4. ReceivedOnDisk => ReceivedOnDisk'
  BY <1>1, <1>3 DEF ReceivedOnDisk, Received
<1> QED BY <1>1, <1>2, <1>4, <1>s DEF Stored

\* A download may only create the file when nothing is finished, and nobody else
\* has written to it.
LEMMA StartDataStored ==
  ASSUME IInv, QInv, DInv, NEW c \in Conns, StartData(c)
  PROVE  Stored'
<1>t. dl \in [Conns -> Download] BY DoneTypes
<1>s. Stored /\ OneDownload BY DEF DInv, Stored
<1>1. /\ dl[c].type = "FILE" /\ ~dl[c].running /\ TempUsable
      /\ dl' = [dl EXCEPT ![c].running = TRUE, ![c].live = TRUE, ![c].overlapped = FALSE]
      /\ done' = done /\ disk' = disk
  BY DEF StartData
<1>2. DonePositions' = DonePositions BY <1>1 DEF DonePositions
<1>3. DonePositions \subseteq disk
  <2>1. CASE temp BY <2>1, <1>s DEF Stored
  <2>2. CASE ~temp
    <3>1. DonePositions = {} BY <1>1, <2>2, NothingFinished DEF TempUsable
    <3> QED BY <3>1
  <2> QED BY <2>1, <2>2
<1>4. ASSUME NEW d \in Conns, dl'[d].type # "NONE", dl'[d].running
      PROVE  dl'[d].live /\ Received(d)' \subseteq disk'
  <2>1. CASE d = c
    <3>1. dl'[c].live /\ dl'[c].pos = dl[c].pos /\ dl'[c].seg = dl[c].seg BY <1>1, <1>t DEF Download
    <3>2. dl[c].pos = 0 /\ dl[c].seg.start \in Int
      BY <1>1, <1>t DEF IInv, DownloadsInFile, Download, Segment
    <3>3. Received(c)' = {} BY <3>1, <3>2 DEF Received
    <3> QED BY <2>1, <3>1, <3>3
  <2>2. CASE d # c
    <3>1. dl'[d] = dl[d] BY <1>1, <1>t, <2>2
    <3>2. dl[d].type = "NONE" BY <1>1, <1>s, <2>2 DEF OneDownload
    <3> QED BY <1>4, <3>1, <3>2
  <2> QED BY <2>1, <2>2
<1> QED BY <1>1, <1>2, <1>3, <1>4 DEF Stored, ReceivedOnDisk

LEMMA DataStored ==
  ASSUME IInv, DInv, NEW c \in Conns, Data(c)
  PROVE  Stored'
<1>t. dl \in [Conns -> Download] BY DoneTypes
<1>1. /\ dl[c].type = "FILE" /\ dl[c].running
      /\ dl' = [dl EXCEPT ![c].pos = @ + 1] /\ done' = done /\ temp' = temp
      /\ disk' = IF dl[c].live THEN disk \union {dl[c].seg.start + dl[c].pos} ELSE disk
  BY DEF Data
<1> SUFFICES ASSUME temp PROVE DonePositions' \subseteq disk' /\ ReceivedOnDisk' BY <1>1 DEF Stored
<1>2. DonePositions \subseteq disk /\ ReceivedOnDisk BY DEF DInv
<1>3. disk \subseteq disk' BY <1>1
<1>4. DonePositions' \subseteq disk' BY <1>1, <1>2, <1>3 DEF DonePositions
<1>5. ASSUME NEW d \in Conns, dl'[d].type # "NONE", dl'[d].running
      PROVE  dl'[d].live /\ Received(d)' \subseteq disk'
  <2>1. CASE d # c
    <3>1. dl'[d] = dl[d] BY <1>1, <1>t, <2>1
    <3> QED BY <1>2, <1>3, <1>5, <3>1 DEF ReceivedOnDisk, Received
  <2>2. CASE d = c
    <3>1. /\ dl'[c].live = dl[c].live /\ dl'[c].seg = dl[c].seg /\ dl'[c].pos = dl[c].pos + 1
      BY <1>1, <1>t DEF Download
    <3>2. dl[c].live /\ Received(c) \subseteq disk BY <1>1, <1>2 DEF ReceivedOnDisk
    <3>3. disk' = disk \union {dl[c].seg.start + dl[c].pos} BY <1>1, <3>2
    <3>4. dl[c].seg.start \in Int /\ dl[c].pos \in Nat BY <1>t DEF Download, Segment
    <3>5. Received(c)' = Received(c) \union {dl[c].seg.start + dl[c].pos} BY <3>1, <3>4 DEF Received
    <3> QED BY <2>2, <3>1, <3>2, <3>3, <3>5
  <2> QED BY <2>1, <2>2
<1> QED BY <1>4, <1>5 DEF ReceivedOnDisk

LEMMA EndDataStored ==
  ASSUME IInv, DInv, NEW c \in Conns, EndData(c)
  PROVE  Stored'
<1>t. dl \in [Conns -> Download] BY DoneTypes
<1>n. ~NoDownload.running BY DEF NoDownload
<1>1. /\ dl[c].type = "FILE" /\ dl[c].running /\ dl[c].pos = dl[c].seg.size
      /\ dl' = [dl EXCEPT ![c] = NoDownload]
      /\ temp' = temp /\ disk' = disk
  BY DEF EndData
<1> SUFFICES ASSUME temp PROVE DonePositions' \subseteq disk' /\ ReceivedOnDisk' BY <1>1 DEF Stored
<1>2. DonePositions \subseteq disk /\ ReceivedOnDisk BY DEF DInv
<1>3. ReceivedOnDisk'
  <2> HIDE DEF NoDownload
  <2>1. ~dl'[c].running /\ \A d \in Conns \ {c} : dl'[d] = dl[d] BY <1>1, <1>t, <1>n
  <2> QED BY <1>1, <1>2, <2>1 DEF ReceivedOnDisk, Received
<1>4. CASE downloaded
  <2>1. done' = done BY <1>4 DEF EndData
  <2> QED BY <1>1, <1>2, <1>3, <2>1 DEF DonePositions
<1>5. CASE ~downloaded
  <2>1. done' = DoneAfter(dl[c].seg) BY <1>5 DEF EndData, AddFinishedSegment
  <2>2. dl[c].seg \in Segment /\ dl[c].pos \in Nat BY <1>t DEF Download
  <2>3. dl[c].seg = [start |-> dl[c].seg.start, size |-> dl[c].pos] BY <1>1, <2>2 DEF Segment
  <2>4. Received(c) \subseteq disk BY <1>1, <1>2 DEF ReceivedOnDisk
  <2>5. DonePositions' \subseteq disk BY <1>2, <2>1, <2>2, <2>3, <2>4, LeftOnDisk
  <2> QED BY <1>1, <1>3, <2>5
<1> QED BY <1>4, <1>5

\* The whole blocks kept of a failed download have been written to the file,
\* unless it is deleted with them.
LEMMA FailedStored ==
  ASSUME IInv, PInv, QInv, DInv, NEW c \in Conns, Failed(c)
  PROVE  Stored'
<1>t. dl \in [Conns -> Download] BY DoneTypes
<1>n. ~NoDownload.running BY DEF NoDownload
<1>1. PICK drop : /\ temp' = (temp /\ ~drop) /\ disk' = IF drop THEN {} ELSE disk
                  /\ dl' = [d \in Conns |-> IF d = c THEN NoDownload
                                            ELSE [dl[d] EXCEPT !.live = @ /\ ~drop]]
  BY Zenon DEF Failed
<1> SUFFICES ASSUME temp, ~drop PROVE DonePositions' \subseteq disk' /\ ReceivedOnDisk' BY <1>1 DEF Stored
<1>2. DonePositions \subseteq disk /\ ReceivedOnDisk BY DEF DInv
<1>3. disk' = disk BY <1>1
<1>4. ReceivedOnDisk'
  <2> HIDE DEF NoDownload
  <2>1. ~dl'[c].running BY <1>1, <1>n
  <2>2. ASSUME NEW d \in Conns \ {c}
        PROVE  /\ dl'[d].type = dl[d].type /\ dl'[d].running = dl[d].running
               /\ dl'[d].seg = dl[d].seg /\ dl'[d].pos = dl[d].pos
               /\ dl[d].live => dl'[d].live
    <3>1. dl'[d] = [dl[d] EXCEPT !.live = @ /\ ~drop] BY <1>1
    <3> QED BY <1>t, <3>1 DEF Download
  <2> QED BY <1>2, <1>3, <2>1, <2>2 DEF ReceivedOnDisk, Received
<1>5. CASE ~downloaded /\ AlignDown(dl[c].pos, dl[c].block) > 0
  <2>1. done' = DoneAfter([start |-> dl[c].seg.start, size |-> AlignDown(dl[c].pos, dl[c].block)])
    BY <1>5 DEF Failed, AddFinishedSegment
  <2>2. dl[c].pos \in Nat BY <1>t DEF Download
  <2>3. dl[c].pos > 0 /\ dl[c].type = "FILE" BY <1>5, KeptCut
  <2>4. dl[c].running BY <2>2, <2>3 DEF IInv, DownloadsInFile
  <2>5. Received(c) \subseteq disk BY <1>2, <2>3, <2>4 DEF ReceivedOnDisk
  <2>6. AlignDown(dl[c].pos, dl[c].block) \in Nat /\ AlignDown(dl[c].pos, dl[c].block) <= dl[c].pos
    <3>1. dl[c].block \in BlockSizes BY <1>t DEF Download, BlockSizes
    <3> QED BY <2>2, <3>1, BlockArithmetic
  <2>7. DonePositions' \subseteq disk BY <1>2, <2>1, <2>5, <2>6, LeftOnDisk
  <2> QED BY <1>3, <1>4, <2>7
<1>6. CASE downloaded \/ ~(AlignDown(dl[c].pos, dl[c].block) > 0)
  <2>1. done' = done BY <1>6 DEF Failed
  <2> QED BY <1>2, <1>3, <1>4, <2>1 DEF DonePositions
<1> QED BY <1>5, <1>6

LEMMA NextStored == IInv /\ PInv /\ QInv /\ DInv /\ [Next]_vars => Stored'
<1> SUFFICES ASSUME IInv, PInv, QInv, DInv, [Next]_vars PROVE Stored' OBVIOUS
<1>t. dl \in [Conns -> Download] BY DoneTypes
<1>s. Stored BY DEF DInv, Stored
<1>1. ASSUME done' = done, dl' = dl, temp' = temp, disk' = disk PROVE Stored'
  BY <1>1, <1>s DEF Stored, DonePositions, ReceivedOnDisk, Received
<1>2. ASSUME NEW c \in Conns,
             \/ StartDownload(c) \/ NoNeededPart(c) \/ GetDownloadRemovedSource(c)
             \/ RemoveFileSource(c) \/ Disconnected(c)
      PROVE  done' = done /\ dl' = dl /\ temp' = temp /\ disk' = disk
  BY <1>2, Zenon DEF StartDownload, NoNeededPart, GetDownloadRemovedSource, RemoveFileSource, Disconnected
<1>3. ASSUME NEW c \in Conns, EndTree(c) PROVE Stored'
  <2>1. dl' = [dl EXCEPT ![c] = NoDownload] /\ done' = done /\ temp' = temp /\ disk' = disk
    BY <1>3, Zenon DEF EndTree
  <2>2. ~NoDownload.running BY DEF NoDownload
  <2> HIDE DEF NoDownload
  <2>3. ~dl'[c].running /\ \A d \in Conns \ {c} : dl'[d] = dl[d] BY <2>1, <2>2, <1>t
  <2> QED BY <2>1, <2>3, <1>s DEF Stored, DonePositions, ReceivedOnDisk, Received
<1>4. LoseTempFile => Stored' BY DEF LoseTempFile, Stored
<1>5. ReadBlockSize \/ Pause \/ Resume \/ UNCHANGED vars
        => done' = done /\ dl' = dl /\ temp' = temp /\ disk' = disk
  BY Zenon DEF ReadBlockSize, Pause, Resume, vars
<1> QED
  BY <1>1, <1>2, <1>3, <1>4, <1>5, GetDownloadStored, StartDataStored, DataStored, EndDataStored,
     FailedStored DEF Next, FailDownload, OpenFails, FileNotAvailable

LEMMA NextDInv == IInv /\ PInv /\ QInv /\ DInv /\ [Next]_vars => DInv'
<1> SUFFICES ASSUME IInv, PInv, QInv, DInv, [Next]_vars PROVE DInv' OBVIOUS
<1>1. SlotAlone' /\ OneDownload' BY NextAlone
<1>2. Stored' BY NextStored
<1> QED BY <1>1, <1>2 DEF DInv, Stored, OneAtATime

\* Where one connection at a time downloads the file, everything finished is in
\* the temporary file if there is one, whatever is lost, deleted, removed or
\* started again in between: renameDownloadedFile never moves a file with holes.
THEOREM FinishedOnDisk == Spec /\ OneAtATime => []DoneOnDisk
<1>1. Init => RunningNested BY DEF Init, RunningNested
<1>2. DInv => DoneOnDisk BY DEF DInv, DoneOnDisk
<1>3. OneAtATime => ~OverlapSlowSources BY DEF OneAtATime
<1> QED
  BY <1>1, <1>2, <1>3, InitIInv, NextIInv, NextNested, InitPInv, NextPInv, InitWInv, NextWInv, InitQInv, NextQInv,
     InitDInv, NextDInv, PTL DEF Spec

=============================================================================
