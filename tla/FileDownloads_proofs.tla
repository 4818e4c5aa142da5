------------------------ MODULE FileDownloads_proofs ------------------------
(***************************************************************************)
(* What the running downloads of a file may share (FileSegments): nothing  *)
(* with the download of its tree, when slow chunks are not overlapped, and *)
(* only the tail of a chunk with one another; for every file, block size,  *)
(* set of sources and settings.                                            *)
(***************************************************************************)
EXTENDS FileSegments_proofs

-----------------------------------------------------------------------------
(* Only getDownload gives a connection a download; every other step leaves *)
(* the downloads as they are or ends one.                                  *)

FewerDownloadsLeft ==
    /\ attached' \subseteq attached
    /\ \A d \in Conns : \/ /\ dl'[d].type = dl[d].type /\ dl'[d].seg = dl[d].seg
                           /\ dl'[d].block = dl[d].block
                        \/ dl'[d].type = "NONE"

LEMMA StepsEndDownloads ==
  ASSUME IInv, [Next]_vars, \A c \in Conns : ~GetDownload(c)
  PROVE  FewerDownloadsLeft
<1>t. dl \in [Conns -> Download] BY TypeParts DEF IInv, DownloadTypes
<1>n. NoDownload.type = "NONE" BY DEF NoDownload
<1>1. ASSUME NEW c \in Conns, StartDownload(c) \/ NoNeededPart(c) \/ GetDownloadRemovedSource(c)
      PROVE  FewerDownloadsLeft
  BY <1>1 DEF StartDownload, NoNeededPart, GetDownloadRemovedSource, FewerDownloadsLeft
<1>2. ASSUME NEW c \in Conns, StartData(c) \/ Data(c) PROVE FewerDownloadsLeft
  BY <1>2, <1>t DEF StartData, Data, FewerDownloadsLeft, Download
<1>3. ASSUME NEW c \in Conns, EndTree(c) \/ EndData(c) PROVE FewerDownloadsLeft
  <2> HIDE DEF NoDownload
  <2>1. attached' \subseteq attached BY <1>3 DEF EndTree, EndData
  <2>2. dl' = [dl EXCEPT ![c] = NoDownload] BY <1>3, Zenon DEF EndTree, EndData
  <2> QED BY <2>1, <2>2, <1>t, <1>n DEF FewerDownloadsLeft
<1>4. ASSUME NEW c \in Conns, Failed(c) PROVE FewerDownloadsLeft
  <2>1. attached' \subseteq attached BY <1>4 DEF Failed
  <2>2. \E b \in BOOLEAN : dl' = [d \in Conns |-> IF d = c THEN NoDownload
                                                  ELSE [dl[d] EXCEPT !.live = @ /\ b]]
    <3>1. PICK b : /\ b = ~(dl[c].type = "FILE" /\ ~downloaded /\ DownloadedBytes(done) = 0)
                   /\ dl' = [d \in Conns |-> IF d = c THEN NoDownload
                                             ELSE [dl[d] EXCEPT !.live = @ /\ b]]
      BY <1>4, Zenon DEF Failed
    <3> QED BY <3>1, Zenon
  <2>3. \A d \in Conns \ {c} : /\ dl'[d].type = dl[d].type /\ dl'[d].seg = dl[d].seg
                                /\ dl'[d].block = dl[d].block
    BY <2>2, <1>t DEF Download
  <2>4. dl'[c].type = "NONE" BY <2>2, <1>n
  <2> QED BY <2>1, <2>3, <2>4 DEF FewerDownloadsLeft
<1>5. ASSUME NEW c \in Conns, RemoveFileSource(c) \/ Disconnected(c) PROVE FewerDownloadsLeft
  BY <1>5 DEF RemoveFileSource, Disconnected, FewerDownloadsLeft
<1>8. ASSUME ReadBlockSize \/ Pause \/ Resume PROVE FewerDownloadsLeft
  BY <1>8 DEF ReadBlockSize, Pause, Resume, FewerDownloadsLeft
<1>6. ASSUME LoseTempFile PROVE FewerDownloadsLeft
  BY <1>6, <1>t DEF LoseTempFile, FewerDownloadsLeft, Download
<1>7. ASSUME UNCHANGED vars PROVE FewerDownloadsLeft
  BY <1>7 DEF vars, FewerDownloadsLeft
<1>9. Next \/ UNCHANGED vars BY DEF vars
<1> QED
  BY <1>1, <1>2, <1>3, <1>4, <1>5, <1>6, <1>7, <1>8, <1>9
  DEF Next, FailDownload, OpenFails, FileNotAvailable

-----------------------------------------------------------------------------
(* getDownload gives its connection the tree, or a segment that            *)
(* getNextSegment found.                                                   *)

TakesTree(c) ==
    /\ ~tree
    /\ dl'[c].type = "TREE" /\ dl'[c].seg = Seg(0, -1)
    /\ \A d \in Conns \ {c} : dl'[d].type = dl[d].type /\ dl'[d].seg = dl[d].seg

TakesSegment(c, r) ==
    /\ dl'[c].type = "FILE" /\ dl'[c].seg = r.seg
    /\ \A d \in Conns \ {c} : dl'[d].type = dl[d].type /\ dl'[d].seg = dl[d].seg

LEMMA GetDownloadTakes ==
  ASSUME IInv, NEW c \in Conns, GetDownload(c)
  PROVE  \/ TakesTree(c)
         \/ \E w \in Nat, over \in BOOLEAN, block \in BlockSizes :
              \E r \in NextSegments(Remaining, c, w, over, block) : TakesSegment(c, r)
<1>t. dl \in [Conns -> Download] BY TypeParts DEF IInv, DownloadTypes
<1>k. WantedSizes \subseteq Nat /\ 0 \in Nat /\ BlockSize \in BlockSizes /\ Size \in BlockSizes /\ TypeOK
  BY SegmentsAssumption DEF BlockSizes, IInv
<1>s. ASSUME NEW r, NEW block, NEW orig, dl' = WithDownload(c, r, block, orig)
      PROVE  TakesSegment(c, r)
  <2>1. dl'[c].type = "FILE" /\ dl'[c].seg = r.seg
    BY <1>s DEF WithDownload, FileDownload, NoDownload
  <2>2. \A d \in Conns \ {c} : dl'[d].type = dl[d].type /\ dl'[d].seg = dl[d].seg
    BY <1>s, <1>t DEF Download, WithDownload
  <2> QED BY <2>1, <2>2 DEF TakesSegment
<1>1. CASE ~tree /\ dl' = [dl EXCEPT ![c] = TreeDownload]
  <2>2. dl'[c].type = "TREE" /\ dl'[c].seg = Seg(0, -1) BY <1>1, <1>t DEF NoDownload, TreeDownload
  <2>3. \A d \in Conns \ {c} : dl'[d] = dl[d] BY <1>1, <1>t
  <2> QED BY <1>1, <2>2, <2>3 DEF TakesTree
<1>2. CASE \E w \in WantedSizes : \E r \in NextSegments(Remaining, c, w, TRUE, BlockSize) :
           \E orig \in Conns \union {NoConn} : dl' = WithDownload(c, r, BlockSize, orig)
  <2>1. PICK w \in WantedSizes : \E r \in NextSegments(Remaining, c, w, TRUE, BlockSize) :
           \E orig \in Conns \union {NoConn} : dl' = WithDownload(c, r, BlockSize, orig)
    BY <1>2
  <2>2. \E r \in NextSegments(Remaining, c, w, TRUE, BlockSize) : TakesSegment(c, r)
    BY <2>1, <1>s, Zenon
  <2> QED BY <1>k, <2>2, Zenon
<1>3. CASE \E r \in NextSegments(Remaining, c, 0, FALSE, Size) : \E orig \in Conns \union {NoConn} :
              dl' = WithDownload(c, r, Size, orig)
  <2>1. \E r \in NextSegments(Remaining, c, 0, FALSE, Size) : TakesSegment(c, r)
    BY <1>3, <1>s, Zenon
  <2> QED BY <1>k, <2>1, Zenon
<1> QED BY <1>1, <1>2, <1>3, <1>k, GetDownloadCases, Zenon

-----------------------------------------------------------------------------
(* The tree is downloaded alone.  TreeAlone is decided in the first half   *)
(* of getDownload and made true in the second: the holder of slotAssignCS  *)
(* must still find no download of the tree, and none at all as long as     *)
(* there is no tree.  While there is none the block size is that of the    *)
(* file, so that getNextSegment has nothing to hand out beside a running   *)
(* download, be it of the tree or of a source that is not asked for it.    *)

NoTreeOneBlock == ~tree => blockSize \in {-1, Size}

SlotTree ==
    (~OverlapSlowSources /\ slotAssign # NoConn) =>
        /\ \A c \in attached : dl[c].type # "TREE"
        /\ ~tree => attached = {}

TInv == NoTreeOneBlock /\ SlotTree /\ TreeAlone

LEMMA InitTInv == Init => TInv
BY DEF Init, TInv, NoTreeOneBlock, SlotTree, TreeAlone, NoDownload

\* Without the tree only one connection is given something to download.
LEMMA NoTreeNoSegment ==
  ASSUME ~tree, ~OverlapSlowSources, NoTreeOneBlock, attached # {}, NEW c \in Conns, HasSegment(c)
  PROVE  FALSE
<1>1. PICK r \in NextSegments(done, c, 0, TRUE, GetBlockSize) : r.seg.size # 0 BY DEF HasSegment
<1>2. GetBlockSize = Size BY DEF GetBlockSize, NoTreeOneBlock
<1>3. Size >= Size BY SegmentsAssumption
<1>4. r \in Unsegmented(done, c, TRUE, Size) BY <1>1, <1>2, <1>3 DEF NextSegments
<1>5. r \in Overlaps(c, TRUE, Size) BY <1>4 DEF Unsegmented
<1>6. r = NoBlock BY <1>5 DEF Overlaps
<1> QED BY <1>1, <1>6, SegEnds DEF NoBlock

LEMMA GetDownloadTInv ==
  ASSUME IInv, TInv, NEW c \in Conns, GetDownload(c)
  PROVE  TInv'
<1>1. attached' = attached \union {c} /\ slotAssign' = NoConn /\ slotAssign = c /\ tree' = tree
  BY DEF GetDownload
<1>2. slotAssign # NoConn BY <1>1, SegmentsAssumption
<1>a. attached \subseteq Conns BY TypeParts DEF IInv, SetTypes
<1>b. NoTreeOneBlock'
  <2> SUFFICES ASSUME ~tree PROVE blockSize' \in {-1, Size} BY <1>1 DEF NoTreeOneBlock
  <2>1. blockSize' \in {blockSize, GetBlockSize} BY Zenon DEF GetDownload, InitSegment
  <2> QED BY <2>1 DEF GetBlockSize, TInv, NoTreeOneBlock
<1>3. CASE TakesTree(c)
  <2>1. ~OverlapSlowSources => attached' = {c} BY <1>1, <1>2, <1>3 DEF TInv, SlotTree, TakesTree
  <2> QED BY <1>1, <1>3, <1>b, <2>1 DEF TInv, SlotTree, TreeAlone, TakesTree
<1>4. ASSUME NEW r, TakesSegment(c, r) PROVE TInv'
  BY <1>1, <1>2, <1>4, <1>a, <1>b DEF TInv, SlotTree, TreeAlone, TakesSegment
<1> QED BY <1>3, <1>4, GetDownloadTakes

LEMMA StartDownloadTInv ==
  ASSUME IInv, TInv, NEW c \in Conns, StartDownload(c)
  PROVE  TInv'
<1>1. HasSegment(c) BY DEF StartDownload
<1>2. UNCHANGED << attached, dl, tree >> BY DEF StartDownload
<1>3. ~OverlapSlowSources => \A d \in attached : dl[d].type # "TREE"
  BY <1>1, Zenon DEF HasSegment, TInv, TreeAlone
<1>4. ~OverlapSlowSources /\ ~tree => attached = {} BY <1>1, NoTreeNoSegment DEF TInv
<1>5. NoTreeOneBlock' BY DEF StartDownload, GetBlockSize, TInv, NoTreeOneBlock
<1>6. SlotTree' BY <1>2, <1>3, <1>4 DEF SlotTree
<1>7. TreeAlone' BY <1>2 DEF TInv, TreeAlone
<1> QED BY <1>5, <1>6, <1>7 DEF TInv

\* Every other step leaves the tree known, and ends downloads only.
LEMMA OtherTInv ==
  ASSUME IInv, TInv, [Next]_vars, \A c \in Conns : ~GetDownload(c), \A c \in Conns : ~StartDownload(c)
  PROVE  TInv'
<1>1. FewerDownloadsLeft BY StepsEndDownloads
<1>2. tree => tree'
  BY DEF Next, vars, NoNeededPart, GetDownloadRemovedSource, StartData, Data, EndTree, EndData,
         FailDownload, OpenFails, FileNotAvailable, Failed, RemoveFileSource, Disconnected,
         ReadBlockSize, Pause, Resume, LoseTempFile
<1>3. slotAssign' = slotAssign \/ slotAssign' = NoConn
  BY DEF Next, vars, NoNeededPart, GetDownloadRemovedSource, StartData, Data, EndTree, EndData,
         FailDownload, OpenFails, FileNotAvailable, Failed, RemoveFileSource, Disconnected,
         ReadBlockSize, Pause, Resume, LoseTempFile
<1>4. blockSize' = blockSize \/ blockSize' = GetBlockSize
  BY DEF Next, vars, NoNeededPart, GetDownloadRemovedSource, StartData, Data, EndTree, EndData,
         FailDownload, OpenFails, FileNotAvailable, Failed, RemoveFileSource, Disconnected,
         ReadBlockSize, Pause, Resume, LoseTempFile
<1>a. attached \subseteq Conns BY TypeParts DEF IInv, SetTypes
<1>5. NoTreeOneBlock' BY <1>2, <1>4 DEF NoTreeOneBlock, TInv, GetBlockSize
<1>6. SlotTree' BY <1>1, <1>2, <1>3, <1>a DEF SlotTree, TInv, FewerDownloadsLeft
<1>7. TreeAlone' BY <1>1, <1>a DEF TreeAlone, TInv, FewerDownloadsLeft
<1> QED BY <1>5, <1>6, <1>7 DEF TInv

LEMMA NextTInv == IInv /\ TInv /\ [Next]_vars => TInv'
BY GetDownloadTInv, StartDownloadTInv, OtherTInv

\* Without the overlapping of slow chunks nothing of the file is downloaded beside
\* its hash tree, neither a second tree nor the file from a source that is not
\* asked for the tree: although HasSegment and GetDownload are two critical
\* sections, and a tree may arrive, fail or be refused between them.
THEOREM TreeDownloadedAlone == Spec => []TreeAlone
<1>1. TInv => TreeAlone BY DEF TInv
<1> QED BY <1>1, InitIInv, NextIInv, InitTInv, NextTInv, PTL DEF Spec

-----------------------------------------------------------------------------
(* Running downloads share bytes only as an overlapping chunk and the one  *)
(* it overlaps do.  A part of a free block has no byte of a running        *)
(* download, and the tail of a running one ends where that one ends, so    *)
(* that it meets no third download which the overlapped one does not meet. *)

\* No running download has a byte of the segment.
Apart(s) == \A d \in attached : ~Intersect(s, dl[d].seg)

LEMMA LargestBlocksApart ==
  ASSUME NEW fin, NEW target, NEW start, NEW b \in LargestBlocks(fin, start, target)
  PROVE  Apart(b)
BY DEF LargestBlocks, LargestSizes, FreeSizes, FreeBlock, Apart

LEMMA NeededPartsApart ==
  ASSUME attached \subseteq Conns, dl \in [Conns -> Download],
         NEW fin, NEW c \in Conns, NEW target \in Int, NEW s \in NeededParts(fin, c, target)
  PROVE  Apart(s)
<1> DEFINE Low(m, n)  == IF m < n THEN m ELSE n
           High(m, n) == IF m > n THEN m ELSE n
           Free == UNION {LargestBlocks(fin, x, target) : x \in Visited(fin, target)}
           Has == {Seg(Low(Size, p[1] * BlockSize), Low(Size, p[2] * BlockSize)) : p \in Partial[c]}
           Part(b, h) == Seg(High(b.start, h.start),
                             Low(Low(EndOf(b), EndOf(h)), High(b.start, h.start) + target))
<1>1. PICK b \in Free, h \in Has : s = Part(b, h) BY DEF NeededParts
<1>2. InFile(b) BY LargestBlocksInFile, VisitedStarts
<1>3. h \in Segment
  <2>1. PICK p \in Partial[c] : h = Seg(Low(Size, p[1] * BlockSize), Low(Size, p[2] * BlockSize)) OBVIOUS
  <2>2. p[1] \in Nat /\ p[2] \in Nat /\ BlockSize \in Nat /\ Size \in Nat BY SegmentsAssumption
  <2>3. p[1] * BlockSize \in Int /\ p[2] * BlockSize \in Int BY <2>2
  <2>4. Low(Size, p[1] * BlockSize) \in Int /\ Low(Size, p[2] * BlockSize) \in Int BY <2>2, <2>3
  <2> QED BY <2>1, <2>4, SegEnds
<1>4. Apart(b) BY LargestBlocksApart
<1> HIDE DEF Free, Has
<1> DEFINE from == High(b.start, h.start)
           to == Low(Low(EndOf(b), EndOf(h)), from + target)
<1>5. from \in Int /\ to \in Int /\ from >= b.start /\ to <= EndOf(b)
  BY <1>2, <1>3, SegmentType DEF InFile
<1>6. s = Seg(from, to) BY <1>1
<1> HIDE DEF from, to
<1>7. s.start = from /\ EndOf(s) = to BY <1>5, <1>6, SegEnds
<1>8. ASSUME NEW d \in attached PROVE ~Intersect(s, dl[d].seg)
  <2>1. ~Intersect(b, dl[d].seg) BY <1>4 DEF Apart
  <2>2. dl[d].seg \in Segment BY DEF Download
  <2> QED BY <1>2, <1>5, <1>7, <2>1, <2>2, SegmentType DEF Intersect, InFile
<1> QED BY <1>8 DEF Apart

\* What getNextSegment may hand out.
LEMMA NextSegmentsChoice ==
  ASSUME attached \subseteq Conns, dl \in [Conns -> Download],
         NEW fin \in SUBSET Segment, Consolidated(fin), NEW c \in Conns, NEW wanted \in Nat,
         NEW over \in BOOLEAN, NEW block, NEW r \in NextSegments(fin, c, wanted, over, block)
  PROVE  \/ attached = {}
         \/ Apart(r.seg)
         \/ r = NoMoreSegments
         \/ r \in Overlaps(c, over, block)
<1> DEFINE target == TargetSize(fin, wanted)
           free == IF Partial[c] = {} THEN FirstFree(fin, target) ELSE NeededParts(fin, c, target)
           Plain(segments) == {[seg |-> s, overlapped |-> FALSE] : s \in segments}
<1>1. target \in Int BY TargetSizeInt
<1>2. \A s \in free : Apart(s)
  <2>1. \A s \in FirstFree(fin, target) : Apart(s) BY LargestBlocksApart DEF FirstFree
  <2>2. \A s \in NeededParts(fin, c, target) : Apart(s) BY <1>1, NeededPartsApart
  <2> QED BY <2>1, <2>2
<1> HIDE DEF free, target
<1>4. attached = {} \/ r = NoMoreSegments \/ r \in Overlaps(c, over, block) \/ r \in Plain(free)
  BY Zenon DEF NextSegments, Unsegmented, free, target
<1>5. CASE r \in Plain(free)
  <2>1. PICK s \in free : r = [seg |-> s, overlapped |-> FALSE] BY <1>5
  <2>2. r.seg = s BY <2>1
  <2> QED BY <1>2, <2>2
<1> QED BY <1>4, <1>5

\* Segments that share a byte are both inside the file.
LEMMA IntersectInFile ==
  ASSUME NEW s, NEW t, InFileOrNone(s), InFileOrNone(t), Intersect(s, t)
  PROVE  InFile(s) /\ InFile(t)
BY DEF InFileOrNone, InFile, NoMoreSegments, Segment, EndOf, Intersect

LEMMA GetDownloadNested ==
  ASSUME IInv, RunningNested, NEW c \in Conns, GetDownload(c)
  PROVE  RunningNested'
<1>b. Remaining \in SUBSET Segment /\ Consolidated(Remaining)
  <2>1. done \subseteq Segment /\ Consolidated(done) BY TypeParts DEF IInv, SegmentTypes, DoneSeparated
  <2>2. Consolidated({}) BY DEF Consolidated
  <2> QED BY <2>1, <2>2 DEF Remaining
<1>c. attached \subseteq Conns /\ dl \in [Conns -> Download] /\ DownloadsInFile
  BY TypeParts DEF IInv, SetTypes, DownloadTypes
<1>1. attached' = attached \union {c} BY DEF GetDownload
<1>2. CASE TakesTree(c) BY <1>1, <1>2, <1>c DEF TakesTree, RunningNested
<1>3. ASSUME NEW w \in Nat, NEW over \in BOOLEAN, NEW block \in BlockSizes,
             NEW r \in NextSegments(Remaining, c, w, over, block), TakesSegment(c, r)
      PROVE  RunningNested'
  <2>1. \A d \in Conns \ {c} : dl'[d].type = dl[d].type /\ dl'[d].seg = dl[d].seg
    BY <1>3 DEF TakesSegment
  <2>2. dl'[c].seg = r.seg BY <1>3 DEF TakesSegment
  <2>3. InFileOrNone(r.seg)
    <3>1. InFile(r.seg) \/ r = NoMoreSegments BY <1>b, <1>c, NextSegmentsInFile
    <3> QED BY <3>1, Zenon DEF InFileOrNone
  <2>4. \A d \in attached : dl[d].type = "FILE" => InFileOrNone(dl[d].seg)
    BY <1>c DEF DownloadsInFile
  <2>5. ASSUME NEW e \in attached \ {c}, dl[e].type = "FILE", Intersect(r.seg, dl[e].seg)
        PROVE  OverlapSlowSources /\ EndOf(r.seg) = EndOf(dl[e].seg)
    <3>0. InFile(r.seg) /\ InFile(dl[e].seg) BY <2>3, <2>4, <2>5, IntersectInFile
    <3>1. r \in Overlaps(c, over, block)
      <4>1. r # NoMoreSegments BY <3>0 DEF NoMoreSegments, InFile
      <4> QED BY <1>b, <1>c, <2>5, <4>1, NextSegmentsChoice DEF Apart
    <3>2. r # NoBlock
      <4> SUFFICES ASSUME r = NoBlock PROVE FALSE OBVIOUS
      <4>0. r.seg = Seg(0, 0) BY DEF NoBlock
      <4>1. r.seg.start = 0 /\ EndOf(r.seg) = 0 BY <4>0, SegEnds
      <4>2. dl[e].seg.start >= 0 BY <3>0 DEF InFile
      <4> QED BY <3>0, <4>1, <4>2, <2>5, SegmentType DEF Intersect, InFile
    <3>3. PICK d \in attached :
            /\ OverlapSlowSources /\ dl[d].type = "FILE" /\ dl[d].running
            /\ r = [seg |-> Seg(dl[d].seg.start + AlignDown(dl[d].pos, block), EndOf(dl[d].seg)),
                    overlapped |-> TRUE]
      BY <3>1, <3>2 DEF Overlaps
    <3>4. dl[d].pos \in Nat /\ AlignDown(dl[d].pos, block) \in Nat
      BY <1>c, BlockArithmetic DEF Download
    <3>5. dl[d].seg \in Segment BY <1>c, <3>3 DEF DownloadsInFile, InFile
    <3>6. dl[d].seg.start + AlignDown(dl[d].pos, block) \in Int /\ EndOf(dl[d].seg) \in Int
      BY <3>4, <3>5, SegmentType
    <3>7. r.seg.start = dl[d].seg.start + AlignDown(dl[d].pos, block) /\ EndOf(r.seg) = EndOf(dl[d].seg)
      BY <3>3, <3>6, SegEnds
    <3>8. CASE d = e BY <3>3, <3>7, <3>8
    <3>9. CASE d # e
      <4>1. Intersect(dl[d].seg, dl[e].seg)
        BY <2>5, <3>0, <3>4, <3>5, <3>7, SegmentType DEF Intersect, InFile
      <4>2. OverlapSlowSources /\ EndOf(dl[d].seg) = EndOf(dl[e].seg)
        BY <4>1, <3>3, <3>9, <2>5 DEF RunningNested
      <4> QED BY <4>2, <3>7
    <3> QED BY <3>8, <3>9
  <2> SUFFICES ASSUME NEW x \in attached', NEW y \in attached', x # y, dl'[x].type = "FILE",
                      dl'[y].type = "FILE", Intersect(dl'[x].seg, dl'[y].seg)
               PROVE  OverlapSlowSources /\ EndOf(dl'[x].seg) = EndOf(dl'[y].seg)
    BY Zenon DEF RunningNested, Intersect, EndOf
  <2>6. CASE x # c /\ y # c BY <2>6, <2>1, <1>1, <1>c DEF RunningNested
  <2>7. CASE x = c
    <3>1. y \in attached \ {c} BY <2>7, <1>1
    <3> QED BY <3>1, <2>7, <2>1, <2>2, <2>5, <1>c
  <2>8. CASE y = c
    <3>1. x \in attached \ {c} BY <2>8, <1>1
    <3>2. Intersect(dl'[y].seg, dl'[x].seg) BY DEF Intersect
    <3> QED BY <3>1, <3>2, <2>8, <2>1, <2>2, <2>5, <1>c
  <2> QED BY <2>6, <2>7, <2>8
<1> QED BY <1>2, <1>3, GetDownloadTakes

LEMMA NextNested == IInv /\ RunningNested /\ [Next]_vars => RunningNested'
<1> SUFFICES ASSUME IInv, RunningNested, [Next]_vars PROVE RunningNested' OBVIOUS
<1>1. CASE \E c \in Conns : GetDownload(c) BY <1>1, GetDownloadNested
<1>2. CASE \A c \in Conns : ~GetDownload(c)
  <2>1. FewerDownloadsLeft BY <1>2, StepsEndDownloads
  <2>2. attached \subseteq Conns BY TypeParts DEF IInv, SetTypes
  <2> QED BY <2>1, <2>2 DEF FewerDownloadsLeft, RunningNested
<1> QED BY <1>1, <1>2

\* Two downloads of a file are handed the same bytes only when slow sources may
\* be overlapped, and then the one got the tail of the other's chunk: the
\* segments are found and taken in one critical section, but the connections
\* were admitted in an earlier one.
THEOREM DownloadsNested == Spec => []RunningNested
<1>1. Init => RunningNested BY DEF Init, RunningNested
<1> QED BY <1>1, InitIInv, NextIInv, NextNested, PTL DEF Spec
=============================================================================
