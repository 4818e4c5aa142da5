------------------------- MODULE FileSegments_proofs -------------------------
(***************************************************************************)
(* Type correctness and consolidation of the finished segments of          *)
(* FileSegments, for every file, block size, set of sources and settings.  *)
(***************************************************************************)
EXTENDS FileSegments, FiniteSetTheorems, WellFoundedInduction, TLAPS

(* A set of natural numbers has a least element: the intervals 0 .. n - 1   *)
(* are finite sets, and strict inclusion of finite sets is well-founded.   *)
LEMMA LeastElement ==
  ASSUME NEW S \in SUBSET Nat, S # {}
  PROVE  \E n \in S : \A m \in S : n <= m
<1> DEFINE Below(n) == 0 .. (n - 1)
           F == {Below(n) : n \in S}
<1>1. F \subseteq FiniteSubsetsOf(Nat) /\ F # {}
  <2>1. ASSUME NEW n \in S PROVE Below(n) \in FiniteSubsetsOf(Nat)
    <3>1. IsFiniteSet(0 .. (n - 1)) BY FS_Interval, SMT
    <3>2. 0 .. (n - 1) \subseteq Nat BY SMT
    <3> QED BY <3>1, <3>2 DEF FiniteSubsetsOf
  <2> QED BY <2>1
<1>2. PICK X \in F : \A Y \in F : ~(<<Y, X>> \in StrictSubsetOrdering(Nat))
  <2>1. IsWellFoundedOn(StrictSubsetOrdering(Nat), FiniteSubsetsOf(Nat))
    BY FS_StrictSubsetOrderingWellFounded
  <2> HIDE DEF F
  <2> QED BY <1>1, <2>1, WFMin
<1>3. PICK n \in S : X = Below(n) BY <1>2
<1>4. ASSUME NEW m \in S PROVE n <= m
  <2> SUFFICES ASSUME m < n PROVE FALSE BY SMT
  <2>1. Below(m) \subseteq Below(n) BY SMT
  <2>2. m \in Below(n) /\ m \notin Below(m) BY SMT
  <2>3. Below(m) \in F /\ Below(m) \subseteq Nat /\ Below(n) \subseteq Nat BY SMT
  <2>4. <<Below(m), Below(n)>> \in StrictSubsetOrdering(Nat)
    BY <2>1, <2>2, <2>3 DEF StrictSubsetOrdering
  <2> QED BY <2>3, <2>4, <1>2, <1>3
<1> QED BY <1>4

-----------------------------------------------------------------------------
(* Segments. *)

\* A segment made of two positions has the end it was made with.
LEMMA SegEnds ==
  ASSUME NEW x \in Int, NEW y \in Int
  PROVE  /\ Seg(x, y) \in Segment
         /\ Seg(x, y).start = x
         /\ Seg(x, y).size = y - x
         /\ EndOf(Seg(x, y)) = y
BY DEF Seg, Segment, EndOf

LEMMA SegInFile ==
  ASSUME NEW x \in Nat, NEW y \in Int, y <= Size
  PROVE  Seg(x, y) \in Segment /\ Seg(x, y).start >= 0 /\ EndOf(Seg(x, y)) <= Size
<1> x \in Int /\ Size \in Int BY SegmentsAssumption
<1> QED BY DEF Seg, Segment, EndOf

LEMMA SegmentType ==
  ASSUME NEW s \in Segment
  PROVE  s.start \in Int /\ s.size \in Int /\ EndOf(s) \in Int
BY DEF Segment, EndOf

\* addFinishedSegment merges at most one predecessor and one successor.
LEMMA OnePredecessor ==
  ASSUME done \subseteq Segment, Consolidated(done), NEW a \in Segment,
         NEW p \in Predecessors(a), NEW q \in Predecessors(a)
  PROVE  p = q
<1> p \in Segment /\ q \in Segment BY DEF Predecessors
<1> QED BY SegmentType DEF Predecessors, Precedes, Consolidated

LEMMA OneSuccessor ==
  ASSUME done \subseteq Segment, Consolidated(done), NEW a \in Segment,
         NEW s \in Successors(a), NEW t \in Successors(a)
  PROVE  s = t
<1> SUFFICES ASSUME s # t PROVE FALSE OBVIOUS
<1>1. s \in done /\ t \in done /\ s \in Segment /\ t \in Segment BY DEF Successors
<1>2. ~Precedes(s, t) /\ ~Precedes(t, s) BY <1>1 DEF Successors
<1>3. EndOf(s) < t.start \/ EndOf(t) < s.start BY <1>1 DEF Consolidated
<1>4. s.size >= 0 /\ t.size >= 0 BY <1>1 DEF Consolidated
<1> QED BY <1>1, <1>2, <1>3, <1>4, SegmentType DEF Precedes, EndOf

\* When the new segment reaches a later one, it reaches the first of them.
LEMMA SuccessorExists ==
  ASSUME done \subseteq Segment, Consolidated(done), NEW a \in Segment,
         NEW u \in done, Precedes(a, u), EndOf(a) >= u.start
  PROVE  Successors(a) # {}
<1> DEFINE Later == {t \in done : Precedes(a, t)}
           S == {t.start : t \in Later}
<1>1. S \in SUBSET Nat /\ S # {}
  <2>1. \A t \in done : t.start \in Int /\ t.start >= 0 BY SegmentType DEF Consolidated
  <2> QED BY <2>1
<1>2. PICK n \in S : \A m \in S : n <= m
  <2> HIDE DEF S
  <2> QED BY <1>1, LeastElement
<1>3. PICK t \in Later : t.start = n BY <1>2
<1>4. u.start \in S /\ t \in done /\ t \in Segment OBVIOUS
<1>5. EndOf(a) >= t.start
  <2> t.start <= u.start BY <1>2, <1>3, <1>4
  <2> QED BY <1>4, SegmentType
<1>6. ASSUME NEW v \in done, Precedes(a, v) PROVE ~Precedes(v, t)
  <2>1. t.start <= v.start BY <1>2, <1>3, <1>6
  <2>2. v \in Segment /\ v.size >= 0 /\ t.size >= 0 BY <1>4 DEF Consolidated
  <2>3. v = t \/ EndOf(v) < t.start \/ EndOf(t) < v.start BY <1>4 DEF Consolidated
  <2> QED BY <2>1, <2>2, <2>3, <1>4, SegmentType DEF Precedes, EndOf
<1> QED BY <1>3, <1>4, <1>5, <1>6 DEF Successors

\* The single merging pass leaves consolidated segments.
LEMMA MergeConsolidates ==
  ASSUME done \subseteq Segment, Consolidated(done), Size \in Nat,
         NEW a \in Segment, a.start >= 0, a.size >= 0, EndOf(a) <= Size
  PROVE  DoneAfter(a) \subseteq Segment /\ Consolidated(DoneAfter(a))
<1> DEFINE Pred == Predecessors(a)
           Succ == Successors(a)
           p == CHOOSE p \in Pred : TRUE
           s == CHOOSE s \in Succ : TRUE
           big == Merged(a)
           from == IF Pred = {} THEN a.start ELSE p.start
           to == IF Succ = {} THEN EndOf(a) ELSE EndOf(s)
           Rest == done \ (Pred \union Succ)
<1>1. Pred # {} => p \in Pred /\ p \in done /\ p \in Segment BY DEF Predecessors
<1>2. Succ # {} => s \in Succ /\ s \in done /\ s \in Segment BY DEF Successors
<1>3. from \in Int /\ to \in Int BY <1>1, <1>2, SegmentType
<1>4. big \in Segment /\ big.start = from /\ EndOf(big) = to /\ big.size = to - from
  <2>1. big = Seg(from, to) BY DEF Merged
  <2> HIDE DEF big, from, to
  <2> QED BY <2>1, <1>3, SegEnds
<1>5. 0 <= from /\ from <= a.start
  <2>1. Pred # {} => p.start >= 0 /\ p.start <= a.start
    BY <1>1, SegmentType DEF Predecessors, Precedes, Consolidated
  <2> QED BY <2>1, SegmentType
<1>6. to <= Size /\ a.start <= to
  <2>1. Succ # {} => EndOf(s) <= Size /\ a.start <= EndOf(s)
    <3> SUFFICES ASSUME Succ # {} PROVE EndOf(s) <= Size /\ a.start <= EndOf(s) OBVIOUS
    <3>1. s \in done /\ Precedes(a, s) BY <1>2 DEF Successors
    <3>2. s.size >= 0 /\ EndOf(s) <= Size BY <3>1 DEF Consolidated
    <3> QED BY <3>1, <3>2, <1>2, SegmentType DEF Precedes, EndOf
  <2>2. a.start <= EndOf(a) BY SegmentType DEF EndOf
  <2> QED BY <2>1, <2>2
<1>7. big.start >= 0 /\ big.size >= 0 /\ EndOf(big) <= Size
  BY <1>3, <1>4, <1>5, <1>6, SegmentType
<1>8. ASSUME NEW u \in Rest, a \notin done
      PROVE  EndOf(u) < from \/ to < u.start
  <2>1. u \in done /\ u \in Segment /\ u # a BY <1>8
  <2>2. u.size >= 0 BY <2>1 DEF Consolidated
  <2>3. Precedes(u, a) \/ Precedes(a, u)
    <3>1. u.start # a.start \/ u.size # a.size BY <2>1 DEF Segment
    <3> QED BY <3>1, <2>1, SegmentType DEF Precedes
  <2>4. CASE Precedes(u, a)
    <3>1. EndOf(u) < a.start BY <2>1, <2>4, SegmentType DEF Predecessors
    <3>2. CASE Pred = {} BY <3>1, <3>2
    <3>3. CASE Pred # {}
      <4>1. p \in done /\ p # u /\ EndOf(p) >= a.start BY <1>1, <3>3 DEF Predecessors
      <4>2. EndOf(u) < p.start \/ EndOf(p) < u.start BY <4>1, <2>1 DEF Consolidated
      <4>3. u.start <= EndOf(u) BY <2>1, <2>2, SegmentType DEF EndOf
      <4>4. EndOf(u) < p.start BY <1>1, <3>1, <3>3, <4>1, <4>2, <4>3, <2>1, SegmentType
      <4> QED BY <4>4, <3>3
    <3> QED BY <3>2, <3>3
  <2>5. CASE Precedes(a, u)
    <3>1. CASE Succ = {}
      <4>1. ~(EndOf(a) >= u.start) BY <2>1, <2>5, <3>1, SuccessorExists
      <4> QED BY <4>1, <3>1, <2>1, SegmentType
    <3>2. CASE Succ # {}
      <4>1. s \in done /\ s # u /\ ~Precedes(u, s) BY <1>2, <2>1, <2>5, <3>2 DEF Successors
      <4>2. EndOf(u) < s.start \/ EndOf(s) < u.start BY <4>1, <2>1 DEF Consolidated
      <4>3. ~(EndOf(u) < s.start) BY <4>1, <1>2, <3>2, <2>1, <2>2, SegmentType DEF Precedes, EndOf
      <4> QED BY <4>2, <4>3, <3>2
    <3> QED BY <3>1, <3>2
  <2> QED BY <2>3, <2>4, <2>5
<1>9. CASE a \in done BY <1>9 DEF DoneAfter
<1>10. CASE a \notin done
  <2>1. DoneAfter(a) = Rest \union {big} BY <1>10 DEF DoneAfter
  <2> HIDE DEF Pred, Succ, p, s, big, from, to
  <2>2. Rest \union {big} \subseteq Segment BY <1>4
  <2>3. \A u \in Rest : u.start >= 0 /\ u.size >= 0 /\ EndOf(u) <= Size BY DEF Consolidated
  <2>4. \A u, v \in Rest : u = v \/ EndOf(u) < v.start \/ EndOf(v) < u.start BY DEF Consolidated
  <2>5. \A u \in Rest : EndOf(u) < big.start \/ EndOf(big) < u.start BY <1>4, <1>8, <1>10
  <2> HIDE DEF Rest
  <2>6. Consolidated(Rest \union {big}) BY <2>3, <2>4, <2>5, <1>7 DEF Consolidated
  <2> QED BY <2>1, <2>2, <2>6
<1> QED BY <1>9, <1>10

-----------------------------------------------------------------------------
(* Sizes and block arithmetic. *)

\* Merging invents no bytes: what it adds is in the new segment.
LEMMA MergedWithin ==
  ASSUME done \subseteq Segment, NEW a \in Segment
  PROVE  PositionsOf(DoneAfter(a)) \subseteq PositionsOf(done) \union Positions(a)
<1> DEFINE p == CHOOSE p \in Predecessors(a) : TRUE
           s == CHOOSE s \in Successors(a) : TRUE
           from == IF Predecessors(a) = {} THEN a.start ELSE p.start
           to == IF Successors(a) = {} THEN EndOf(a) ELSE EndOf(s)
<1>1. ASSUME NEW x \in Positions(Merged(a))
      PROVE  x \in PositionsOf(done) \union Positions(a)
  <2>1. Merged(a) = Seg(from, to) BY DEF Merged
  <2>2. Predecessors(a) # {} => p \in done /\ EndOf(p) >= a.start
    <3> HAVE Predecessors(a) # {}
    <3>1. p \in Predecessors(a) OBVIOUS
    <3> QED BY <3>1 DEF Predecessors
  <2>3. Successors(a) # {} => s \in done /\ EndOf(a) >= s.start
    <3> HAVE Successors(a) # {}
    <3>1. s \in Successors(a) OBVIOUS
    <3> QED BY <3>1 DEF Successors
  <2>4. a.start \in Int /\ EndOf(a) \in Int BY SegmentType
  <2>5. Predecessors(a) # {} => p.start \in Int /\ EndOf(p) \in Int BY <2>2, SegmentType
  <2>6. Successors(a) # {} => s.start \in Int /\ EndOf(s) \in Int BY <2>3, SegmentType
  <2> HIDE DEF p, s
  <2>7. from \in Int /\ to \in Int BY <2>4, <2>5, <2>6
  <2>8. x \in from .. to - 1
    <3> HIDE DEF from, to
    <3>1. Merged(a).start = from /\ EndOf(Merged(a)) = to BY <2>1, <2>7, SegEnds
    <3> QED BY <3>1 DEF Positions
  <2>9. CASE x < a.start
    <3>1. Predecessors(a) # {} BY <2>7, <2>8, <2>9, <2>4
    <3>2. x \in Positions(p) BY <2>2, <2>4, <2>5, <2>7, <2>8, <2>9, <3>1 DEF Positions
    <3> QED BY <2>2, <3>1, <3>2 DEF PositionsOf
  <2>10. CASE x >= EndOf(a)
    <3>1. Successors(a) # {} BY <2>7, <2>8, <2>10, <2>4
    <3>2. x \in Positions(s) BY <2>3, <2>4, <2>6, <2>7, <2>8, <2>10, <3>1 DEF Positions
    <3> QED BY <2>3, <3>1, <3>2 DEF PositionsOf
  <2>11. CASE a.start <= x /\ x < EndOf(a)
    <3>1. x \in Positions(a) BY <2>4, <2>7, <2>8, <2>11 DEF Positions
    <3> QED BY <3>1
  <2> QED BY <2>4, <2>7, <2>8, <2>9, <2>10, <2>11
<1> HIDE DEF p, s, from, to
<1>2. DoneAfter(a) \subseteq done \union {Merged(a)} BY DEF DoneAfter
<1> QED BY <1>1, <1>2 DEF PositionsOf

LEMMA DownloadedBytesNat ==
  ASSUME NEW fin \in SUBSET Segment, Consolidated(fin), attached \subseteq Conns
  PROVE  DownloadedBytes(fin) \in Nat
<1>1. IsFiniteSet(PositionsOf(fin))
  <2>1. PositionsOf(fin) \subseteq 0 .. Size
    BY SegmentType, SegmentsAssumption DEF PositionsOf, Positions, Consolidated
  <2>2. IsFiniteSet(0 .. Size) BY FS_Interval, SegmentsAssumption, SMT
  <2> QED BY <2>1, <2>2, FS_Subset
<1>2. IsFiniteSet({x \in attached \X (1 .. Size) : x[2] <= dl[x[1]].pos})
  <2>1. IsFiniteSet(attached) BY SegmentsAssumption, FS_Subset
  <2>2. IsFiniteSet(1 .. Size) BY FS_Interval, SegmentsAssumption, SMT
  <2>3. IsFiniteSet(attached \X (1 .. Size)) BY <2>1, <2>2, FS_Product
  <2> QED BY <2>3, FS_Subset
<1> QED BY <1>1, <1>2, FS_CardinalityType DEF DownloadedBytes, SizeOf

\* The block sizes of a download, and of getNextSegment.
BlockSizes == {BlockSize, Size}

LEMMA BlockArithmetic ==
  ASSUME NEW block \in BlockSizes
  PROVE  /\ \A n \in Nat : AlignDown(n, block) \in Nat /\ AlignDown(n, block) <= n
         /\ \A n \in Nat : RoundDown(n, block) \in Nat
         /\ \A n \in Nat : RoundUp(n, block) \in Nat
         /\ \A n \in Int : RoundDown(n, block) \in Int
<1>1. block \in Nat \ {0} BY SegmentsAssumption DEF BlockSizes
<1>2. \A n \in Nat : n % block \in Nat /\ n % block <= n BY <1>1
<1>3. \A n \in Int : n \div block \in Int BY <1>1
<1>4. \A n \in Nat : n \div block \in Nat BY <1>1
<1>5. block \div 2 \in Nat BY <1>1
<1>6. \A k \in Nat : k * block \in Nat BY <1>1
<1>7. \A k \in Int : k * block \in Int BY <1>1
<1>8. ASSUME NEW n \in Nat PROVE AlignDown(n, block) \in Nat /\ AlignDown(n, block) <= n
  <2>1. n % block \in Nat /\ n % block <= n BY <1>2
  <2> QED BY <2>1 DEF AlignDown
<1>9. ASSUME NEW n \in Nat PROVE RoundDown(n, block) \in Nat /\ RoundUp(n, block) \in Nat
  <2>1. n + block \div 2 \in Nat /\ n + block - 1 \in Nat BY <1>1, <1>5
  <2>2. (n + block \div 2) \div block \in Nat /\ (n + block - 1) \div block \in Nat
    BY <1>4, <2>1
  <2> QED BY <1>6, <2>2 DEF RoundDown, RoundUp
<1>10. ASSUME NEW n \in Int PROVE RoundDown(n, block) \in Int
  <2>1. n + block \div 2 \in Int BY <1>5
  <2>2. (n + block \div 2) \div block \in Int BY <1>3, <2>1
  <2> QED BY <1>7, <2>2 DEF RoundDown
<1> QED BY <1>8, <1>9, <1>10

LEMMA TargetSizeInt ==
  ASSUME NEW fin \in SUBSET Segment, Consolidated(fin), attached \subseteq Conns,
         NEW wanted \in Nat
  PROVE  TargetSize(fin, wanted) \in Int
<1> DEFINE b == DownloadedBytes(fin)
           scaled == (wanted * (Size * Size - b * b)) \div (Size * Size)
           target == IF scaled > wanted \div 4 THEN scaled ELSE wanted \div 4
<1>1. b \in Nat BY DownloadedBytesNat
<1>2. Size * Size \in Nat \ {0} BY SegmentsAssumption
<1>3. scaled \in Int
  <2>1. b * b \in Int BY <1>1
  <2>2. Size * Size - b * b \in Int BY <1>2, <2>1
  <2>3. wanted * (Size * Size - b * b) \in Int BY <2>2
  <2>4. ASSUME NEW m \in Int, NEW n \in Nat \ {0} PROVE m \div n \in Int OBVIOUS
  <2> HIDE DEF b
  <2> QED BY <1>2, <2>3, <2>4
<1>4. wanted \div 4 \in Int OBVIOUS
<1>5. target \in Int BY <1>3, <1>4
<1>6. TargetSize(fin, wanted) = IF target > BlockSize THEN RoundDown(target, BlockSize) ELSE BlockSize
  BY DEF TargetSize
<1> HIDE DEF target
<1>7. BlockSize \in BlockSizes BY DEF BlockSizes
<1> QED BY <1>5, <1>6, <1>7, BlockArithmetic, SegmentsAssumption

-----------------------------------------------------------------------------
(* What getNextSegment returns is inside the file. *)

InFile(s) == s \in Segment /\ s.start >= 0 /\ EndOf(s) <= Size

\* Every running download works inside the file; one that was created when
\* there was nothing to do asks for nothing.
InFileOrNone(s) == InFile(s) \/ s = NoMoreSegments.seg

DownloadsInFile ==
    \A c \in Conns :
        /\ dl[c].type = "FILE" => InFileOrNone(dl[c].seg)
        /\ dl[c].type # "FILE" => ~dl[c].running
        /\ ~dl[c].running => dl[c].pos = 0
        /\ dl[c].running => InFile(dl[c].seg)

LEMMA FirstExists ==
  ASSUME NEW fin \in SUBSET Segment, Consolidated(fin), fin # {}
  PROVE  \E s \in fin : \A t \in fin : s = t \/ Precedes(s, t)
<1> DEFINE S == {s.start : s \in fin}
<1>1. S \in SUBSET Nat /\ S # {} BY SegmentType DEF Consolidated
<1>2. PICK n \in S : \A m \in S : n <= m
  <2> HIDE DEF S
  <2> QED BY <1>1, LeastElement
<1>3. PICK s \in fin : s.start = n BY <1>2
<1>4. ASSUME NEW t \in fin PROVE s = t \/ Precedes(s, t)
  <2>1. s.start <= t.start BY <1>2, <1>3
  <2>2. s = t \/ EndOf(s) < t.start \/ EndOf(t) < s.start BY DEF Consolidated
  <2>3. s.size >= 0 /\ t.size >= 0 BY DEF Consolidated
  <2> QED BY <2>1, <2>2, <2>3, SegmentType DEF Precedes, EndOf
<1> QED BY <1>4

LEMMA BlockAtInFile ==
  ASSUME NEW start \in Nat, NEW n \in Int
  PROVE  InFile(BlockAt(start, n))
<1> DEFINE to == IF start + n < Size THEN start + n ELSE Size
<1>1. to \in Int /\ to <= Size BY SegmentsAssumption
<1>2. BlockAt(start, n) = Seg(start, to) BY DEF BlockAt
<1> HIDE DEF to
<1> QED BY <1>1, <1>2, SegInFile DEF InFile

LEMMA LargestBlocksInFile ==
  ASSUME NEW fin, NEW target, NEW start \in BlockStarts, NEW b \in LargestBlocks(fin, start, target)
  PROVE  InFile(b)
<1>1. start \in Nat
  <2>1. PICK k \in 0 .. ((Size - 1) \div BlockSize) : start = k * BlockSize BY DEF BlockStarts
  <2>2. k \in Nat /\ BlockSize \in Nat BY <2>1, SegmentsAssumption
  <2> QED BY <2>1, <2>2
<1>2. PICK n \in LargestSizes(fin, start, target) : b = BlockAt(start, n) BY DEF LargestBlocks
<1>3. n \in Int BY <1>2 DEF LargestSizes, FreeSizes
<1> QED BY <1>1, <1>2, <1>3, BlockAtInFile

LEMMA WholeGapInFile ==
  ASSUME NEW fin \in SUBSET Segment, Consolidated(fin), NEW block \in BlockSizes
  PROVE  InFile(WholeGap(fin, block))
<1> DEFINE first == CHOOSE s \in fin : \A t \in fin : s = t \/ Precedes(s, t)
           second == CHOOSE s \in fin \ {first} : \A t \in fin \ {first} : s = t \/ Precedes(s, t)
           from == IF fin = {} \/ first.start > 0 THEN 0 ELSE RoundDown(EndOf(first), block)
           to == IF fin = {} THEN Size
                 ELSE IF first.start > 0 THEN RoundUp(first.start, block)
                 ELSE IF fin = {first} THEN Size ELSE RoundUp(second.start, block)
<1>1. ASSUME fin # {} PROVE first \in fin
  BY <1>1, FirstExists
<1>2. ASSUME fin # {}, fin # {first} PROVE second \in fin
  <2> DEFINE rest == fin \ {first}
  <2>1. rest \in SUBSET Segment /\ Consolidated(rest) /\ rest # {} BY <1>1, <1>2 DEF Consolidated
  <2>2. \E s \in rest : \A t \in rest : s = t \/ Precedes(s, t)
    <3> HIDE DEF rest
    <3> QED BY <2>1, FirstExists
  <2> QED BY <2>2
<1>3. \A s \in fin : s.start \in Nat /\ EndOf(s) \in Nat
  BY SegmentType DEF Consolidated, EndOf
<1> HIDE DEF first, second
<1>4. from \in Nat BY <1>1, <1>3, BlockArithmetic
<1>5. to \in Nat BY <1>1, <1>2, <1>3, BlockArithmetic, SegmentsAssumption
<1>6. WholeGap(fin, block) = Seg(from, IF to < Size THEN to ELSE Size) BY DEF WholeGap, first, second
<1> HIDE DEF from, to
<1> DEFINE end == IF to < Size THEN to ELSE Size
<1>7. end \in Int /\ end <= Size BY <1>5, SegmentsAssumption
<1>8. WholeGap(fin, block) = Seg(from, end) BY <1>6
<1> HIDE DEF end
<1> QED BY <1>4, <1>7, <1>8, SegInFile DEF InFile

LEMMA VisitedStarts ==
  ASSUME NEW fin, NEW target
  PROVE  Visited(fin, target) \subseteq BlockStarts
BY DEF Visited

LEMMA NeededPartsInFile ==
  ASSUME NEW fin, NEW c \in Conns, NEW target \in Int, NEW s \in NeededParts(fin, c, target)
  PROVE  InFile(s)
<1> DEFINE Low(m, n)  == IF m < n THEN m ELSE n
           High(m, n) == IF m > n THEN m ELSE n
           Free == UNION {LargestBlocks(fin, x, target) : x \in Visited(fin, target)}
           Has == {Seg(Low(Size, p[1] * BlockSize), Low(Size, p[2] * BlockSize)) : p \in Partial[c]}
           Part(b, h) == Seg(High(b.start, h.start),
                             Low(Low(EndOf(b), EndOf(h)), High(b.start, h.start) + target))
<1>1. PICK b \in Free, h \in Has : s = Part(b, h) BY DEF NeededParts
<1>2. InFile(b) BY LargestBlocksInFile, VisitedStarts
<1>3. h \in Segment
  <2>1. PICK p \in Partial[c] : h = Seg(Low(Size, p[1] * BlockSize), Low(Size, p[2] * BlockSize)) OBVIOUS
  <2>2. p[1] \in Nat /\ p[2] \in Nat /\ BlockSize \in Nat /\ Size \in Nat BY SegmentsAssumption
  <2>3. p[1] * BlockSize \in Int /\ p[2] * BlockSize \in Int BY <2>2
  <2>4. Low(Size, p[1] * BlockSize) \in Int /\ Low(Size, p[2] * BlockSize) \in Int BY <2>2, <2>3
  <2> QED BY <2>1, <2>4, SegEnds
<1> HIDE DEF Free, Has
<1> DEFINE from == High(b.start, h.start)
           to == Low(Low(EndOf(b), EndOf(h)), from + target)
<1>4. from \in Int /\ to \in Int BY <1>2, <1>3, SegmentType DEF InFile
<1>5. from >= 0 /\ to <= Size BY <1>2, <1>3, SegmentType, SegmentsAssumption DEF InFile
<1>6. s = Seg(from, to) BY <1>1
<1> HIDE DEF from, to
<1> QED BY <1>4, <1>5, <1>6, SegInFile DEF InFile

LEMMA OverlapsInFile ==
  ASSUME attached \subseteq Conns, dl \in [Conns -> Download], DownloadsInFile,
         NEW c \in Conns, NEW allowOverlap \in BOOLEAN, NEW block \in BlockSizes,
         NEW r \in Overlaps(c, allowOverlap, block)
  PROVE  InFile(r.seg) /\ r.overlapped \in BOOLEAN
<1>1. CASE r = NoBlock
  <2>1. InFile(Seg(0, 0)) BY SegInFile, SegmentsAssumption DEF InFile
  <2> QED BY <1>1, <2>1 DEF NoBlock
<1>2. CASE r # NoBlock
  <2>1. PICK d \in attached :
          /\ dl[d].type = "FILE" /\ dl[d].running
          /\ r = [seg |-> Seg(dl[d].seg.start + AlignDown(dl[d].pos, block), EndOf(dl[d].seg)),
                  overlapped |-> TRUE]
    BY <1>2 DEF Overlaps
  <2>2. InFile(dl[d].seg) /\ dl[d].pos \in Nat BY <2>1 DEF DownloadsInFile, Download
  <2>3. dl[d].seg.start + AlignDown(dl[d].pos, block) \in Nat
    BY <2>2, BlockArithmetic, SegmentType DEF InFile
  <2>4. EndOf(dl[d].seg) \in Int /\ EndOf(dl[d].seg) <= Size BY <2>2, SegmentType DEF InFile
  <2>5. InFile(Seg(dl[d].seg.start + AlignDown(dl[d].pos, block), EndOf(dl[d].seg)))
    BY <2>3, <2>4, SegInFile DEF InFile
  <2> QED BY <2>1, <2>5
<1> QED BY <1>1, <1>2

\* The segment handed out is inside the file, or none.
LEMMA NextSegmentsInFile ==
  ASSUME attached \subseteq Conns, dl \in [Conns -> Download], DownloadsInFile,
         NEW fin \in SUBSET Segment, Consolidated(fin), NEW c \in Conns, NEW wanted \in Nat,
         NEW allowOverlap \in BOOLEAN, NEW block \in BlockSizes,
         NEW r \in NextSegments(fin, c, wanted, allowOverlap, block)
  PROVE  (InFile(r.seg) /\ r.overlapped \in BOOLEAN) \/ r = NoMoreSegments
<1> DEFINE target == TargetSize(fin, wanted)
           free == IF Partial[c] = {} THEN FirstFree(fin, target) ELSE NeededParts(fin, c, target)
           Plain(segments) == {[seg |-> s, overlapped |-> FALSE] : s \in segments}
<1>1. target \in Int BY TargetSizeInt
<1>2. \A s \in free : InFile(s)
  <2>1. \A s \in FirstFree(fin, target) : InFile(s) BY LargestBlocksInFile DEF FirstFree
  <2>2. \A s \in NeededParts(fin, c, target) : InFile(s) BY <1>1, NeededPartsInFile
  <2> QED BY <2>1, <2>2
<1>3. InFile(WholeGap(fin, block)) BY WholeGapInFile
<1> HIDE DEF free, target
<1>4. \/ r = [seg |-> WholeGap(fin, block), overlapped |-> FALSE]
      \/ r \in Overlaps(c, allowOverlap, block)
      \/ r \in Plain(free)
      \/ r = NoMoreSegments
  BY Zenon DEF NextSegments, Unsegmented, free, target
<1>5. CASE r = [seg |-> WholeGap(fin, block), overlapped |-> FALSE] BY <1>3, <1>5
<1>6. CASE r \in Plain(free)
  <2>1. PICK s \in free : r = [seg |-> s, overlapped |-> FALSE] BY <1>6
  <2>2. r.seg = s /\ r.overlapped = FALSE BY <2>1
  <2> QED BY <1>2, <2>2
<1>7. CASE r \in Overlaps(c, allowOverlap, block) BY <1>7, OverlapsInFile
<1> QED BY <1>4, <1>5, <1>6, <1>7

-----------------------------------------------------------------------------
(* The inductive invariant.  DoneSeparated alone is not inductive: what a  *)
(* download adds when it ends was decided when it was created, so the      *)
(* segments of running downloads must be inside the file.                  *)

IInv == TypeOK /\ DoneSeparated /\ DownloadsInFile

LEMMA InitIInv == Init => IInv
<1> SUFFICES ASSUME Init PROVE IInv OBVIOUS
<1>1. NoDownload \in Download BY SegEnds DEF NoDownload, Download
<1>2. TypeOK
  <2>1. dl \in [Conns -> Download] BY <1>1 DEF Init
  <2>2. \A c \in Conns : dl[c].pos = 0 \/ dl[c].pos <= dl[c].seg.size BY DEF Init, NoDownload
  <2>3. /\ downloaded \in BOOLEAN /\ tree \in BOOLEAN /\ temp \in BOOLEAN /\ lossLeft \in BOOLEAN
        /\ paused \in BOOLEAN
    BY SegmentsAssumption, Zenon DEF Init
  <2>4. /\ done \subseteq Segment /\ attached \subseteq Conns /\ disk \subseteq Int
        /\ slotAssign \in Conns \union {NoConn} /\ sources \subseteq Conns /\ disconnecting \subseteq Conns
        /\ noTree \subseteq Conns /\ blockSize \in {-1, BlockSize, Size} /\ finishedSegments \in Int
    BY DEF Init
  <2> QED BY <2>1, <2>2, <2>3, <2>4, Zenon DEF TypeOK
<1>3. DoneSeparated BY DEF Init, DoneSeparated, Consolidated
<1>4. DownloadsInFile BY DEF Init, DownloadsInFile, NoDownload
<1> QED BY <1>2, <1>3, <1>4 DEF IInv

\* The segment a download leaves behind is merged into consolidated segments.
LEMMA AddFinishedSegmentKeeps ==
  ASSUME done \subseteq Segment, DoneSeparated, NEW a \in Segment, AddFinishedSegment(a),
         a.start >= 0, a.size >= 0, EndOf(a) <= Size
  PROVE  done' \subseteq Segment /\ DoneSeparated' /\ finishedSegments' \in Int
<1>1. DoneAfter(a) \subseteq Segment /\ Consolidated(DoneAfter(a))
  BY MergeConsolidates, SegmentsAssumption DEF DoneSeparated
<1>2. done' = DoneAfter(a) BY DEF AddFinishedSegment
<1>3. Consolidated(done')  BY <1>1, <1>2
<1>4. finishedSegments' \in Int BY DEF AddFinishedSegment
<1> QED BY <1>1, <1>2, <1>3, <1>4 DEF DoneSeparated, Consolidated

-----------------------------------------------------------------------------
(* Every step keeps the invariant. *)

\* The parts of TypeOK a step usually treats differently.
FlagTypes ==
    /\ downloaded \in BOOLEAN /\ tree \in BOOLEAN /\ temp \in BOOLEAN /\ lossLeft \in BOOLEAN
    /\ paused \in BOOLEAN

SetTypes ==
    /\ attached \subseteq Conns
    /\ slotAssign \in Conns \union {NoConn}
    /\ sources \subseteq Conns /\ noTree \subseteq Conns
    /\ blockSize \in {-1, BlockSize, Size}
    /\ disconnecting \subseteq Conns
    /\ disk \subseteq Int

DownloadTypes ==
    /\ dl \in [Conns -> Download]
    /\ \A c \in Conns : dl[c].pos = 0 \/ dl[c].pos <= dl[c].seg.size

SegmentTypes == done \subseteq Segment /\ finishedSegments \in Int

LEMMA TypeParts == TypeOK <=> FlagTypes /\ SetTypes /\ DownloadTypes /\ SegmentTypes
BY Zenon DEF TypeOK, FlagTypes, SetTypes, DownloadTypes, SegmentTypes

LEMMA NextTypeParts == FlagTypes' /\ SetTypes' /\ DownloadTypes' /\ SegmentTypes' => TypeOK'
BY Zenon DEF TypeOK, FlagTypes, SetTypes, DownloadTypes, SegmentTypes

LEMMA StartDownloadIInv ==
  ASSUME IInv, NEW c \in Conns, StartDownload(c)
  PROVE  IInv'
<1> USE DEF StartDownload
<1>1. FlagTypes' BY TypeParts, Zenon DEF IInv, FlagTypes
<1>2. SetTypes' BY TypeParts DEF IInv, SetTypes, GetBlockSize
<1>3. DownloadTypes' BY TypeParts, Zenon DEF IInv, DownloadTypes
<1>4. SegmentTypes' BY TypeParts DEF IInv, SegmentTypes
<1>5. DoneSeparated' BY DEF IInv, DoneSeparated, Consolidated
<1>6. DownloadsInFile' BY DEF IInv, DownloadsInFile
<1> QED BY <1>1, <1>2, <1>3, <1>4, <1>5, <1>6, NextTypeParts, Zenon DEF IInv

LEMMA DataIInv ==
  ASSUME IInv, NEW c \in Conns, Data(c)
  PROVE  IInv'
<1> USE DEF Data
<1>1. FlagTypes' BY TypeParts, Zenon DEF IInv, FlagTypes
<1>2. SetTypes' BY TypeParts, SegmentType DEF IInv, SetTypes, DownloadTypes, Download
<1>3. DownloadTypes' BY TypeParts, SegmentType DEF IInv, DownloadTypes, Download
<1>4. SegmentTypes' BY TypeParts DEF IInv, SegmentTypes
<1>5. DoneSeparated' BY DEF IInv, DoneSeparated, Consolidated
<1>6. DownloadsInFile' BY TypeParts DEF IInv, DownloadsInFile, DownloadTypes, Download, InFile
<1> QED BY <1>1, <1>2, <1>3, <1>4, <1>5, <1>6, NextTypeParts, Zenon DEF IInv

LEMMA NoNeededPartIInv ==
  ASSUME IInv, NEW c \in Conns, NoNeededPart(c)
  PROVE  IInv'
<1> USE DEF NoNeededPart
<1>1. FlagTypes' BY TypeParts, Zenon DEF IInv, FlagTypes
<1>2. SetTypes' BY TypeParts DEF IInv, SetTypes, GetBlockSize
<1>3. DownloadTypes' BY TypeParts, Zenon DEF IInv, DownloadTypes
<1>4. SegmentTypes' BY TypeParts DEF IInv, SegmentTypes
<1>5. DoneSeparated' BY DEF IInv, DoneSeparated, Consolidated
<1>6. DownloadsInFile' BY DEF IInv, DownloadsInFile
<1> QED BY <1>1, <1>2, <1>3, <1>4, <1>5, <1>6, NextTypeParts, Zenon DEF IInv

LEMMA RemovedSourceIInv ==
  ASSUME IInv, NEW c \in Conns, GetDownloadRemovedSource(c)
  PROVE  IInv'
<1> USE DEF GetDownloadRemovedSource
<1>1. FlagTypes' BY TypeParts, Zenon DEF IInv, FlagTypes
<1>2. SetTypes' BY TypeParts DEF IInv, SetTypes
<1>3. DownloadTypes' BY TypeParts, Zenon DEF IInv, DownloadTypes
<1>4. SegmentTypes' BY TypeParts DEF IInv, SegmentTypes
<1>5. DoneSeparated' BY DEF IInv, DoneSeparated, Consolidated
<1>6. DownloadsInFile' BY DEF IInv, DownloadsInFile
<1> QED BY <1>1, <1>2, <1>3, <1>4, <1>5, <1>6, NextTypeParts, Zenon DEF IInv

LEMMA EndTreeIInv ==
  ASSUME IInv, NEW c \in Conns, EndTree(c)
  PROVE  IInv'
<1> USE DEF EndTree
<1>1. FlagTypes' BY TypeParts, Zenon DEF IInv, FlagTypes
<1>2. SetTypes' BY TypeParts DEF IInv, SetTypes
<1>3. DownloadTypes'
  <2>1. NoDownload \in Download BY SegEnds DEF NoDownload, Download
  <2> QED BY <2>1, TypeParts DEF IInv, DownloadTypes, NoDownload
<1>4. SegmentTypes' BY TypeParts DEF IInv, SegmentTypes
<1>5. DoneSeparated' BY DEF IInv, DoneSeparated, Consolidated
<1>6. DownloadsInFile' BY TypeParts DEF IInv, DownloadsInFile, NoDownload, DownloadTypes
<1> QED BY <1>1, <1>2, <1>3, <1>4, <1>5, <1>6, NextTypeParts, Zenon DEF IInv

LEMMA StartDataIInv ==
  ASSUME IInv, NEW c \in Conns, StartData(c)
  PROVE  IInv'
<1> USE DEF StartData
<1>1. FlagTypes' BY TypeParts, Zenon DEF IInv, FlagTypes
<1>2. SetTypes' BY TypeParts DEF IInv, SetTypes, Originals
<1>d. /\ dl \in [Conns -> Download]
      /\ dl' = [dl EXCEPT ![c].running = TRUE, ![c].live = TRUE, ![c].overlapped = FALSE]
  BY TypeParts DEF IInv, DownloadTypes
<1>e. [dl[c] EXCEPT !.running = TRUE, !.live = TRUE, !.overlapped = FALSE] \in Download
  <2>0. dl[c] \in Download BY <1>d
  <2> QED BY <2>0 DEF Download
<1>f. dl' \in [Conns -> Download] BY <1>d, <1>e
<1>g. \A d \in Conns : /\ dl'[d].seg = dl[d].seg /\ dl'[d].pos = dl[d].pos /\ dl'[d].type = dl[d].type
                       /\ d # c => dl'[d] = dl[d]
  <2>1. \A d \in Conns \ {c} : dl'[d] = dl[d] BY <1>d
  <2>2. dl'[c] = [dl[c] EXCEPT !.running = TRUE, !.live = TRUE, !.overlapped = FALSE] BY <1>d
  <2>3. dl'[c].seg = dl[c].seg /\ dl'[c].pos = dl[c].pos /\ dl'[c].type = dl[c].type
    BY <1>d, <2>2 DEF Download
  <2> QED BY <2>1, <2>3
<1>3. DownloadTypes' BY <1>f, <1>g, TypeParts DEF IInv, DownloadTypes
<1>4. SegmentTypes' BY TypeParts DEF IInv, SegmentTypes
<1>5. DoneSeparated' BY DEF IInv, DoneSeparated, Consolidated
<1>6. DownloadsInFile'
  <2>1. InFile(dl[c].seg) BY DEF IInv, DownloadsInFile, InFileOrNone, NoMoreSegments
  <2>2. [dl[c] EXCEPT !.running = TRUE, !.live = TRUE, !.overlapped = FALSE].running = TRUE
    BY <1>d DEF Download
  <2>3. dl'[c] = [dl[c] EXCEPT !.running = TRUE, !.live = TRUE, !.overlapped = FALSE] BY <1>d
  <2>4. dl'[c].running = TRUE BY <2>2, <2>3
  <2>5. DownloadsInFile BY DEF IInv
  <2>6. ASSUME NEW d \in Conns
        PROVE  /\ dl'[d].type = "FILE" => InFileOrNone(dl'[d].seg)
               /\ dl'[d].type # "FILE" => ~dl'[d].running
               /\ ~dl'[d].running => dl'[d].pos = 0
               /\ dl'[d].running => InFile(dl'[d].seg)
    <3>1. CASE d = c BY <3>1, <1>g, <2>1, <2>4 DEF InFileOrNone
    <3>2. CASE d # c
      <4>1. dl'[d] = dl[d] BY <3>2, <1>g
      <4> QED BY <4>1, <2>5, Zenon DEF DownloadsInFile
    <3> QED BY <3>1, <3>2
  <2> QED BY <2>6 DEF DownloadsInFile, InFileOrNone, InFile, EndOf, NoMoreSegments
<1> QED BY <1>1, <1>2, <1>3, <1>4, <1>5, <1>6, NextTypeParts, Zenon DEF IInv

LEMMA RemoveFileSourceIInv ==
  ASSUME IInv, NEW c \in Conns, RemoveFileSource(c)
  PROVE  IInv'
<1> USE DEF RemoveFileSource
<1>1. FlagTypes' BY TypeParts, Zenon DEF IInv, FlagTypes
<1>2. SetTypes' BY TypeParts DEF IInv, SetTypes
<1>3. DownloadTypes' BY TypeParts, Zenon DEF IInv, DownloadTypes
<1>4. SegmentTypes' BY TypeParts DEF IInv, SegmentTypes
<1>5. DoneSeparated' BY DEF IInv, DoneSeparated, Consolidated
<1>6. DownloadsInFile' BY DEF IInv, DownloadsInFile
<1> QED BY <1>1, <1>2, <1>3, <1>4, <1>5, <1>6, NextTypeParts, Zenon DEF IInv

LEMMA DisconnectedIInv ==
  ASSUME IInv, NEW c \in Conns, Disconnected(c)
  PROVE  IInv'
<1> USE DEF Disconnected
<1>1. FlagTypes' BY TypeParts, Zenon DEF IInv, FlagTypes
<1>2. SetTypes' BY TypeParts DEF IInv, SetTypes
<1>3. DownloadTypes' BY TypeParts, Zenon DEF IInv, DownloadTypes
<1>4. SegmentTypes' BY TypeParts DEF IInv, SegmentTypes
<1>5. DoneSeparated' BY DEF IInv, DoneSeparated, Consolidated
<1>6. DownloadsInFile' BY DEF IInv, DownloadsInFile
<1> QED BY <1>1, <1>2, <1>3, <1>4, <1>5, <1>6, NextTypeParts, Zenon DEF IInv

LEMMA ReadBlockSizeIInv ==
  ASSUME IInv, ReadBlockSize
  PROVE  IInv'
<1> USE DEF ReadBlockSize
<1>1. FlagTypes' BY TypeParts, Zenon DEF IInv, FlagTypes
<1>2. SetTypes' BY TypeParts DEF IInv, SetTypes, GetBlockSize
<1>3. DownloadTypes' BY TypeParts, Zenon DEF IInv, DownloadTypes
<1>4. SegmentTypes' BY TypeParts DEF IInv, SegmentTypes
<1>5. DoneSeparated' BY DEF IInv, DoneSeparated, Consolidated
<1>6. DownloadsInFile' BY DEF IInv, DownloadsInFile
<1> QED BY <1>1, <1>2, <1>3, <1>4, <1>5, <1>6, NextTypeParts, Zenon DEF IInv

LEMMA PauseIInv ==
  ASSUME IInv, Pause
  PROVE  IInv'
<1> USE DEF Pause
<1>1. FlagTypes' BY TypeParts, Zenon DEF IInv, FlagTypes
<1>2. SetTypes' BY TypeParts DEF IInv, SetTypes
<1>3. DownloadTypes' BY TypeParts, Zenon DEF IInv, DownloadTypes
<1>4. SegmentTypes' BY TypeParts DEF IInv, SegmentTypes
<1>5. DoneSeparated' BY DEF IInv, DoneSeparated, Consolidated
<1>6. DownloadsInFile' BY DEF IInv, DownloadsInFile
<1> QED BY <1>1, <1>2, <1>3, <1>4, <1>5, <1>6, NextTypeParts, Zenon DEF IInv

LEMMA ResumeIInv ==
  ASSUME IInv, Resume
  PROVE  IInv'
<1> USE DEF Resume
<1>1. FlagTypes' BY TypeParts, Zenon DEF IInv, FlagTypes
<1>2. SetTypes' BY TypeParts DEF IInv, SetTypes
<1>3. DownloadTypes' BY TypeParts, Zenon DEF IInv, DownloadTypes
<1>4. SegmentTypes' BY TypeParts DEF IInv, SegmentTypes
<1>5. DoneSeparated' BY DEF IInv, DoneSeparated, Consolidated
<1>6. DownloadsInFile' BY DEF IInv, DownloadsInFile
<1> QED BY <1>1, <1>2, <1>3, <1>4, <1>5, <1>6, NextTypeParts, Zenon DEF IInv

LEMMA LoseTempFileIInv ==
  ASSUME IInv, LoseTempFile
  PROVE  IInv'
<1> USE DEF LoseTempFile
<1>1. FlagTypes' BY TypeParts, Zenon DEF IInv, FlagTypes
<1>2. SetTypes' BY TypeParts DEF IInv, SetTypes
<1>3. DownloadTypes' BY TypeParts DEF IInv, DownloadTypes, Download
<1>4. SegmentTypes' BY TypeParts DEF IInv, SegmentTypes
<1>5. DoneSeparated' BY DEF IInv, DoneSeparated, Consolidated
<1>6. DownloadsInFile' BY TypeParts DEF IInv, DownloadsInFile, DownloadTypes, Download
<1> QED BY <1>1, <1>2, <1>3, <1>4, <1>5, <1>6, NextTypeParts, Zenon DEF IInv

LEMMA EndDataIInv ==
  ASSUME IInv, NEW c \in Conns, EndData(c)
  PROVE  IInv'
<1> USE DEF EndData
<1>s. dl[c].seg \in Segment /\ dl[c].seg.start >= 0 /\ dl[c].seg.size >= 0 /\ EndOf(dl[c].seg) <= Size
  <2>1. InFile(dl[c].seg) BY DEF IInv, DownloadsInFile
  <2>2. dl[c].pos \in Nat BY TypeParts DEF IInv, DownloadTypes, Download
  <2> QED BY <2>1, <2>2 DEF InFile
<1>1. FlagTypes' BY TypeParts, Zenon DEF IInv, FlagTypes
<1>2. SetTypes' BY TypeParts DEF IInv, SetTypes
<1>3. DownloadTypes'
  <2>1. NoDownload \in Download BY SegEnds DEF NoDownload, Download
  <2> QED BY <2>1, TypeParts DEF IInv, DownloadTypes, NoDownload
<1>4. SegmentTypes'
  <2>1. done \subseteq Segment BY TypeParts DEF IInv, SegmentTypes
  <2>2. CASE downloaded BY <2>2, TypeParts DEF IInv, SegmentTypes
  <2>3. CASE ~(downloaded)
    <3>1. AddFinishedSegment(dl[c].seg) BY <2>3
    <3> QED BY <2>1, <1>s, <3>1, AddFinishedSegmentKeeps DEF IInv, SegmentTypes
  <2> QED BY <2>2, <2>3
<1>5. DoneSeparated'
  <2>1. done \subseteq Segment BY TypeParts DEF IInv, SegmentTypes
  <2>2. CASE downloaded BY <2>2 DEF IInv, DoneSeparated, Consolidated
  <2>3. CASE ~downloaded
    <3>1. AddFinishedSegment(dl[c].seg) BY <2>3
    <3> QED BY <2>1, <1>s, <3>1, AddFinishedSegmentKeeps DEF IInv
  <2> QED BY <2>2, <2>3
<1>6. DownloadsInFile' BY TypeParts DEF IInv, DownloadsInFile, NoDownload, DownloadTypes
<1> QED BY <1>1, <1>2, <1>3, <1>4, <1>5, <1>6, NextTypeParts, Zenon DEF IInv

LEMMA FailedIInv ==
  ASSUME IInv, NEW c \in Conns, Failed(c), sources' \subseteq Conns, noTree' \subseteq Conns
  PROVE  IInv'
<1> USE DEF Failed
<1> DEFINE got == AlignDown(dl[c].pos, dl[c].block)
           kept == [start |-> dl[c].seg.start, size |-> got]
<1>b. dl[c].block \in BlockSizes /\ dl[c].pos \in Nat
  BY TypeParts DEF IInv, DownloadTypes, Download, BlockSizes
<1>s. got > 0 =>
        kept \in Segment /\ kept.start >= 0 /\ kept.size >= 0 /\ EndOf(kept) <= Size
  <2> SUFFICES ASSUME got > 0
               PROVE  kept \in Segment /\ kept.start >= 0 /\ kept.size >= 0 /\ EndOf(kept) <= Size
    OBVIOUS
  <2>1. dl[c].pos \in Nat /\ (dl[c].pos = 0 \/ dl[c].pos <= dl[c].seg.size)
    BY TypeParts DEF IInv, DownloadTypes, Download
  <2>2. got \in Nat /\ got <= dl[c].pos BY <1>b, BlockArithmetic
  <2>3. dl[c].pos # 0 BY <2>1, <2>2
  <2>4. InFile(dl[c].seg) BY <2>3 DEF IInv, DownloadsInFile
  <2> QED BY <2>1, <2>2, <2>3, <2>4, SegmentsAssumption DEF InFile, Segment, EndOf
<1>1. FlagTypes' BY TypeParts, Zenon DEF IInv, FlagTypes
<1>2. SetTypes' BY TypeParts DEF IInv, SetTypes
<1>3. DownloadTypes'
  <2>1. NoDownload \in Download BY SegEnds DEF NoDownload, Download
  <2> QED BY <2>1, TypeParts DEF IInv, DownloadTypes, NoDownload, Download
<1>4. SegmentTypes'
  <2>1. done \subseteq Segment BY TypeParts DEF IInv, SegmentTypes
  <2>2. CASE downloaded \/ ~(got > 0) BY <2>2, TypeParts DEF IInv, SegmentTypes
  <2>3. CASE ~downloaded /\ got > 0
    <3>1. AddFinishedSegment(kept) BY <2>3
    <3> QED BY <2>1, <2>3, <1>s, <3>1, AddFinishedSegmentKeeps DEF IInv, SegmentTypes
  <2> QED BY <2>2, <2>3
<1>5. DoneSeparated'
  <2>1. done \subseteq Segment BY TypeParts DEF IInv, SegmentTypes
  <2>2. CASE downloaded \/ ~(got > 0) BY <2>2 DEF IInv, DoneSeparated, Consolidated
  <2>3. CASE ~downloaded /\ got > 0
    <3>1. AddFinishedSegment(kept) BY <2>3
    <3> QED BY <2>1, <2>3, <1>s, <3>1, AddFinishedSegmentKeeps DEF IInv
  <2> QED BY <2>2, <2>3
<1>6. DownloadsInFile' BY TypeParts DEF IInv, DownloadsInFile, NoDownload, DownloadTypes, Download
<1> QED BY <1>1, <1>2, <1>3, <1>4, <1>5, <1>6, NextTypeParts, Zenon DEF IInv

LEMMA FailDownloadIInv ==
  ASSUME IInv, NEW c \in Conns, FailDownload(c) \/ OpenFails(c)
  PROVE  IInv'
<1>1. Failed(c) /\ UNCHANGED << sources, noTree >> BY DEF FailDownload, OpenFails
<1> QED BY <1>1, FailedIInv, TypeParts DEF IInv, SetTypes

LEMMA FileNotAvailableIInv ==
  ASSUME IInv, NEW c \in Conns, FileNotAvailable(c)
  PROVE  IInv'
<1>1. sources \subseteq Conns /\ noTree \subseteq Conns BY TypeParts DEF IInv, SetTypes
<1>2. Failed(c) BY DEF FileNotAvailable
<1>3. noTree' \subseteq noTree \union {c} /\ sources' \subseteq sources
  <2>1. noTree' = noTree \/ noTree' = noTree \union {c} BY Zenon DEF FileNotAvailable
  <2>2. sources' = sources \/ sources' = sources \ {c} BY Zenon DEF FileNotAvailable
  <2> QED BY <2>1, <2>2
<1> QED BY <1>1, <1>2, <1>3, FailedIInv

\* What getDownload makes of the downloads: a tree download for c, or a file
\* download and perhaps its original marked.
TreeDownload == [NoDownload EXCEPT !.type = "TREE", !.seg = Seg(0, -1)]

FileDownload(r, block) ==
    [NoDownload EXCEPT !.type = "FILE", !.seg = r.seg, !.block = block, !.overlapped = r.overlapped]

WithDownload(c, r, block, orig) ==
    [d \in Conns |-> IF d = c THEN FileDownload(r, block)
                     ELSE IF d = orig THEN [dl[d] EXCEPT !.overlapped = TRUE]
                     ELSE dl[d]]

\* Its two kinds of file download, from NextSegments with the tree and without it.
LEMMA CreateDownloadCases ==
  ASSUME attached \subseteq Conns, NEW c \in Conns, NEW results, NEW block,
         CreateDownload(c, results, block)
  PROVE  \E r \in results, orig \in Conns \union {NoConn} :
            /\ orig \in attached => r.overlapped /\ orig \in Originals(r.seg)
            /\ dl' = WithDownload(c, r, block, orig)
<1>1. PICK r \in results :
         \E orig \in IF r.overlapped /\ Originals(r.seg) # {} THEN Originals(r.seg) ELSE {NoConn} :
            dl' = WithDownload(c, r, block, orig)
  BY Zenon DEF CreateDownload, WithDownload, FileDownload
<1>2. Originals(r.seg) \subseteq Conns BY DEF Originals
<1>3. CASE r.overlapped /\ Originals(r.seg) # {} BY <1>1, <1>2, <1>3, Zenon
<1>4. CASE ~(r.overlapped /\ Originals(r.seg) # {})
  <2>1. NoConn \notin attached BY SegmentsAssumption
  <2>2. dl' = WithDownload(c, r, block, NoConn) BY <1>1, <1>4, Zenon
  <2> QED BY <1>1, <2>1, <2>2, Zenon
<1> QED BY <1>3, <1>4

LEMMA GetDownloadCases ==
  ASSUME TypeOK, NEW c \in Conns, GetDownload(c)
  PROVE  \/ ~tree /\ c \notin Treeless \union noTree /\ dl' = [dl EXCEPT ![c] = TreeDownload]
         \/ \E w \in WantedSizes : \E r \in NextSegments(Remaining, c, w, TRUE, BlockSize) :
            \E orig \in Conns \union {NoConn} :
              /\ tree
              /\ orig \in attached => r.overlapped /\ orig \in Originals(r.seg)
              /\ dl' = WithDownload(c, r, BlockSize, orig)
         \/ \E r \in NextSegments(Remaining, c, 0, FALSE, Size) : \E orig \in Conns \union {NoConn} :
              /\ ~tree
              /\ orig \in attached => r.overlapped /\ orig \in Originals(r.seg)
              /\ dl' = WithDownload(c, r, Size, orig)
<1>1. PICK w \in WantedSizes : InitSegment(c, Remaining, w) BY Zenon DEF GetDownload
<1>2. attached \subseteq Conns BY DEF TypeOK
<1>3. CASE ~tree /\ c \notin Treeless \union noTree
  BY <1>1, <1>3, Zenon DEF InitSegment, TreeDownload
<1>4. CASE tree
  <2>1. CreateDownload(c, NextSegments(Remaining, c, w, TRUE, BlockSize), BlockSize)
    BY <1>1, <1>4, Zenon DEF InitSegment
  <2>2. PICK r \in NextSegments(Remaining, c, w, TRUE, BlockSize), orig \in Conns \union {NoConn} :
           /\ orig \in attached => r.overlapped /\ orig \in Originals(r.seg)
           /\ dl' = WithDownload(c, r, BlockSize, orig)
    BY <1>2, <2>1, CreateDownloadCases, Zenon
  <2> QED BY <1>4, <2>2, Zenon
<1>5. CASE ~tree /\ c \in Treeless \union noTree
  <2>1. CreateDownload(c, NextSegments(Remaining, c, 0, FALSE, Size), Size)
    BY <1>1, <1>5, Zenon DEF InitSegment
  <2>2. PICK r \in NextSegments(Remaining, c, 0, FALSE, Size), orig \in Conns \union {NoConn} :
           /\ orig \in attached => r.overlapped /\ orig \in Originals(r.seg)
           /\ dl' = WithDownload(c, r, Size, orig)
    BY <1>2, <2>1, CreateDownloadCases, Zenon
  <2> QED BY <1>5, <2>2, Zenon
<1> QED BY <1>3, <1>4, <1>5

LEMMA GetDownloadIInv ==
  ASSUME IInv, NEW c \in Conns, GetDownload(c)
  PROVE  IInv'
<1>b. Remaining \in SUBSET Segment /\ Consolidated(Remaining)
  <2>1. done \subseteq Segment /\ Consolidated(done) BY TypeParts DEF IInv, SegmentTypes, DoneSeparated
  <2>2. Consolidated({}) BY DEF Consolidated
  <2> QED BY <2>1, <2>2 DEF Remaining
<1>c. attached \subseteq Conns /\ dl \in [Conns -> Download] /\ DownloadsInFile
  BY TypeParts DEF IInv, SetTypes, DownloadTypes
<1>d. \/ dl' = [dl EXCEPT ![c] = TreeDownload]
      \/ \E r, orig : \E block \in BlockSizes :
            /\ InFileOrNone(r.seg) /\ r.overlapped \in BOOLEAN
            /\ dl' = WithDownload(c, r, block, orig)
  <2>1. ASSUME NEW w \in Nat, NEW over \in BOOLEAN, NEW block \in BlockSizes,
               NEW r \in NextSegments(Remaining, c, w, over, block)
        PROVE  InFileOrNone(r.seg) /\ r.overlapped \in BOOLEAN
    <3>1. (InFile(r.seg) /\ r.overlapped \in BOOLEAN) \/ r = NoMoreSegments
      BY <1>b, <1>c, NextSegmentsInFile
    <3>2. NoMoreSegments.overlapped = FALSE BY DEF NoMoreSegments
    <3> QED BY <3>1, <3>2 DEF InFileOrNone
  <2>2. WantedSizes \subseteq Nat /\ 0 \in Nat /\ BlockSize \in BlockSizes /\ Size \in BlockSizes
    BY SegmentsAssumption DEF BlockSizes
  <2>3. TypeOK BY DEF IInv
  <2>4. CASE dl' = [dl EXCEPT ![c] = TreeDownload] BY <2>4
  <2>5. CASE \E w \in WantedSizes : \E r \in NextSegments(Remaining, c, w, TRUE, BlockSize) :
             \E orig \in Conns \union {NoConn} : dl' = WithDownload(c, r, BlockSize, orig)
    <3>0. PICK w \in WantedSizes : \E r \in NextSegments(Remaining, c, w, TRUE, BlockSize),
               orig \in Conns \union {NoConn} : dl' = WithDownload(c, r, BlockSize, orig)
      BY <2>5
    <3>1. PICK r \in NextSegments(Remaining, c, w, TRUE, BlockSize),
               orig \in Conns \union {NoConn} : dl' = WithDownload(c, r, BlockSize, orig)
      BY <3>0
    <3>2. InFileOrNone(r.seg) /\ r.overlapped \in BOOLEAN BY <2>1, <2>2
    <3> QED BY <2>2, <3>1, <3>2, Zenon
  <2>6. CASE \E r \in NextSegments(Remaining, c, 0, FALSE, Size) : \E orig \in Conns \union {NoConn} :
                dl' = WithDownload(c, r, Size, orig)
    <3>1. PICK r \in NextSegments(Remaining, c, 0, FALSE, Size),
               orig \in Conns \union {NoConn} : dl' = WithDownload(c, r, Size, orig)
      BY <2>6
    <3>2. InFileOrNone(r.seg) /\ r.overlapped \in BOOLEAN BY <2>1, <2>2
    <3> QED BY <2>2, <3>1, <3>2, Zenon
  <2> QED BY <2>3, <2>4, <2>5, <2>6, GetDownloadCases, Zenon
<1>e. NoDownload \in Download /\ Seg(0, -1) \in Segment BY SegEnds DEF NoDownload, Download
<1>1. FlagTypes' BY TypeParts, Zenon DEF IInv, FlagTypes, GetDownload
<1>2. SetTypes'
  <2>1. blockSize' \in {-1, BlockSize, Size}
    <3>1. blockSize' \in {BlockSize, blockSize, GetBlockSize} BY Zenon DEF GetDownload, InitSegment
    <3>2. blockSize \in {-1, BlockSize, Size} BY TypeParts DEF IInv, SetTypes
    <3> QED BY <3>1, <3>2 DEF GetBlockSize
  <2> QED BY <2>1, TypeParts DEF IInv, SetTypes, GetDownload
<1>f. ASSUME dl' = [dl EXCEPT ![c] = TreeDownload]
      PROVE  DownloadTypes' /\ DownloadsInFile'
  <2>1. TreeDownload \in Download BY <1>e DEF TreeDownload, NoDownload, Download
  <2>2. dl' \in [Conns -> Download] BY <1>c, <1>f, <2>1
  <2>3. TreeDownload.pos = 0 /\ TreeDownload.type = "TREE" /\ ~TreeDownload.running
    BY DEF TreeDownload, NoDownload
  <2>4. DownloadTypes' BY <1>c, <1>f, <2>2, <2>3, TypeParts DEF IInv, DownloadTypes
  <2>5. DownloadsInFile' BY <1>c, <1>f, <2>3 DEF DownloadsInFile, InFile
  <2> QED BY <2>4, <2>5
<1>g. ASSUME NEW r, NEW orig, NEW block \in BlockSizes, InFileOrNone(r.seg), r.overlapped \in BOOLEAN,
             dl' = WithDownload(c, r, block, orig)
      PROVE  DownloadTypes' /\ DownloadsInFile'
  <2>0. r.seg \in Segment BY <1>g DEF InFileOrNone, InFile, NoMoreSegments, Segment
  <2>1. FileDownload(r, block) \in Download
    BY <1>e, <1>g, <2>0 DEF FileDownload, NoDownload, Download, BlockSizes
  <2>2. \A d \in Conns : [dl[d] EXCEPT !.overlapped = TRUE] \in Download BY <1>c DEF Download
  <2>3. dl' \in [Conns -> Download] BY <1>c, <1>g, <2>1, <2>2 DEF WithDownload
  <2>4. \A d \in Conns \ {c} : /\ dl'[d].pos = dl[d].pos /\ dl'[d].seg = dl[d].seg
                                /\ dl'[d].type = dl[d].type /\ dl'[d].running = dl[d].running
    BY <1>c, <1>g DEF Download, WithDownload
  <2>5. dl'[c].pos = 0 /\ dl'[c].type = "FILE" /\ dl'[c].seg = r.seg /\ ~dl'[c].running
    BY <1>g DEF WithDownload, FileDownload, NoDownload
  <2>6. DownloadTypes' BY <2>3, <2>4, <2>5, TypeParts DEF IInv, DownloadTypes
  <2>7. DownloadsInFile' BY <1>c, <1>g, <2>4, <2>5 DEF DownloadsInFile, InFile, InFileOrNone
  <2> QED BY <2>6, <2>7
<1>3. DownloadTypes' /\ DownloadsInFile' BY <1>d, <1>f, <1>g, Zenon
<1>4. SegmentTypes'
  <2>1. done' = Remaining BY DEF GetDownload
  <2>2. finishedSegments' \in -CountBound .. CountBound BY Zenon DEF GetDownload
  <2>3. finishedSegments' \in Int BY <2>2
  <2> QED BY <1>b, <2>1, <2>3 DEF SegmentTypes
<1>5. DoneSeparated'
  <2>1. done' = Remaining BY DEF GetDownload
  <2>2. Consolidated(done') BY <1>b, <2>1
  <2> QED BY <2>2 DEF DoneSeparated, Consolidated
<1> QED BY <1>1, <1>2, <1>3, <1>4, <1>5, NextTypeParts, Zenon DEF IInv

LEMMA StutterIInv ==
  ASSUME IInv, UNCHANGED vars
  PROVE  IInv'
<1> USE DEF vars
<1>1. TypeOK' BY Zenon DEF IInv, TypeOK
<1>2. DoneSeparated' BY DEF IInv, DoneSeparated, Consolidated
<1>3. DownloadsInFile' BY DEF IInv, DownloadsInFile
<1> QED BY <1>1, <1>2, <1>3 DEF IInv

LEMMA NextIInv == IInv /\ [Next]_vars => IInv'
<1> SUFFICES ASSUME IInv, [Next]_vars PROVE IInv' OBVIOUS
<1>1. CASE \E c \in Conns : StartDownload(c) BY <1>1, StartDownloadIInv
<1>2. CASE \E c \in Conns : NoNeededPart(c) BY <1>2, NoNeededPartIInv
<1>3. CASE \E c \in Conns : GetDownload(c) BY <1>3, GetDownloadIInv
<1>4. CASE \E c \in Conns : GetDownloadRemovedSource(c) BY <1>4, RemovedSourceIInv
<1>5. CASE \E c \in Conns : StartData(c) BY <1>5, StartDataIInv
<1>6. CASE \E c \in Conns : Data(c) BY <1>6, DataIInv
<1>7. CASE \E c \in Conns : EndTree(c) BY <1>7, EndTreeIInv
<1>8. CASE \E c \in Conns : EndData(c) BY <1>8, EndDataIInv
<1>9. CASE \E c \in Conns : FailDownload(c) \/ OpenFails(c) BY <1>9, FailDownloadIInv
<1>10. CASE \E c \in Conns : FileNotAvailable(c) BY <1>10, FileNotAvailableIInv
<1>11. CASE \E c \in Conns : RemoveFileSource(c) BY <1>11, RemoveFileSourceIInv
<1>12. CASE \E c \in Conns : Disconnected(c) BY <1>12, DisconnectedIInv
<1>13. CASE ReadBlockSize \/ Pause \/ Resume BY <1>13, ReadBlockSizeIInv, PauseIInv, ResumeIInv
<1>14. CASE LoseTempFile BY <1>14, LoseTempFileIInv
<1>15. CASE UNCHANGED vars BY <1>15, StutterIInv
<1> QED BY <1>1, <1>2, <1>3, <1>4, <1>5, <1>6, <1>7, <1>8, <1>9, <1>10, <1>11, <1>12, <1>13, <1>14, <1>15
        DEF Next

-----------------------------------------------------------------------------
\* In every file, whatever the block size, the sources and the settings, the
\* state of the queue item has its types, and no download accepts more bytes
\* than its segment has.
THEOREM TypeCorrect == Spec => []TypeOK
<1>1. IInv => TypeOK BY DEF IInv
<1> QED BY <1>1, InitIInv, NextIInv, PTL DEF Spec

\* QueueItem::done never holds two segments that touch each other, nor one that
\* leaves the file, also when overlapping downloads of the same chunk end in any
\* order: one merging pass of addFinishedSegment is enough.
THEOREM SegmentsSeparated == Spec => []DoneSeparated
<1>1. IInv => DoneSeparated BY DEF IInv
<1> QED BY <1>1, InitIInv, NextIInv, PTL DEF Spec
=============================================================================
