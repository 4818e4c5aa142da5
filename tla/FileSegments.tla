--------------------------- MODULE FileSegments ---------------------------
(***************************************************************************)
(* Segmented download of one queued bundle file: QueueItem keeps the       *)
(* finished byte ranges (done) and the running downloads, QueueManager     *)
(* assigns segments to connections (getDownload) and takes the results     *)
(* back (putDownloadHooked), Download opens the temporary file.            *)
(*                                                                         *)
(* Positions are in small units; BlockSize is the block size of the file's *)
(* hash tree in the same units.  A connection has at most one download.    *)
(* Speeds and remaining times are abstracted: whatever depends on them is  *)
(* a free choice.  temp and disk stand for the temporary file, also after  *)
(* it has been renamed to the complete one.                                *)
(***************************************************************************)
EXTENDS Integers, FiniteSets

CONSTANTS
    Conns,                 \* connections to sources of the file
    Size,                  \* size of the file
    BlockSize,             \* block size of its hash tree
    MaxSegments,           \* QueueItem::maxSegments
    WantedSizes,           \* chunk sizes a connection may ask for (getChunkSize)
    MultiChunk,            \* SETTING(MULTI_CHUNK)
    OverlapSlowSources,    \* SETTING(OVERLAP_SLOW_SOURCES)
    Partial,               \* the ranges <<first, end>> of blocks a partial source has, not empty as
                           \* getPartialInfo sends them; {} for a full source
    TreeKnown,             \* the hash tree is in the hash database from the start
    Treeless,              \* connections that are not asked for the tree: peers without TTHL, or all
                           \* for a file not larger than the smallest block size
    TreeRefusers,          \* peers that may answer that they do not have the tree
    SmallFile,             \* the file is smaller than MAX_SIZE_WO_TREE
    PauseAllowed,          \* the user may pause and resume the file or its bundle
    RemovableSources,      \* sources the user, or the slow source check, may remove
    TempLossAllowed,       \* the user may delete the temporary file once
    NoConn

ASSUME SegmentsAssumption ==
    /\ IsFiniteSet(Conns)
    /\ Size \in Nat \ {0}
    /\ BlockSize \in Nat \ {0}
    /\ MaxSegments \in Nat \ {0}
    /\ WantedSizes \subseteq Nat
    /\ MultiChunk \in BOOLEAN
    /\ OverlapSlowSources \in BOOLEAN
    /\ TreeKnown \in BOOLEAN
    /\ Treeless \subseteq Conns
    /\ TreeRefusers \subseteq Conns
    /\ SmallFile \in BOOLEAN
    /\ PauseAllowed \in BOOLEAN
    /\ RemovableSources \subseteq Conns
    /\ TempLossAllowed \in BOOLEAN
    /\ NoConn \notin Conns
    /\ Partial \in [Conns -> SUBSET (Nat \X Nat)]
    /\ \A c \in Conns : \A p \in Partial[c] : p[1] < p[2]

VARIABLES
    done,            \* QueueItem::done, the finished segments
    attached,        \* connections whose download is in QueueItem::downloads
    dl,              \* the Download object of each connection
    slotAssign,      \* holder of slotAssignCS between its two critical sections
    sources,         \* QueueItem::sources
    noTree,          \* sources with FLAG_NO_TREE
    blockSize,       \* QueueItem::blockSize, -1 before it is asked for
    paused,          \* QueueItem::isPausedPrio
    disconnecting,   \* connections with a disconnect task in their socket's queue
    downloaded,      \* status >= STATUS_DOWNLOADED
    tree,            \* HashManager::getTree succeeds
    finishedSegments,\* Bundle::finishedSegments
    temp,            \* the temporary file exists
    disk,            \* positions whose bytes are in the existing temporary file
    lossLeft         \* the user may still delete the temporary file

vars == << done, attached, dl, slotAssign, sources, noTree, blockSize, paused,
           disconnecting, downloaded, tree, finishedSegments, temp, disk, lossLeft >>

-----------------------------------------------------------------------------
(* Segments *)

Segment == [start : Int, size : Int]

EndOf(s) == s.start + s.size

Seg(from, to) == [start |-> from, size |-> to - from]

Intersect(a, b) == a.start < EndOf(b) /\ b.start < EndOf(a)

Covers(a, b) == a.start <= b.start /\ EndOf(a) >= EndOf(b)

Precedes(a, b) == a.start < b.start \/ (a.start = b.start /\ a.size < b.size)

Positions(s) == s.start .. EndOf(s) - 1

PositionsOf(segments) == UNION {Positions(s) : s \in segments}

DonePositions == PositionsOf(done)

\* Inside the file, and no two touch.
Consolidated(segments) ==
    /\ \A s \in segments : s.start >= 0 /\ s.size >= 0 /\ EndOf(s) <= Size
    /\ \A s, t \in segments : s = t \/ EndOf(s) < t.start \/ EndOf(t) < s.start

SegmentsDone == done = {Seg(0, Size)}

\* The sizes of segments that do not touch each other add up to the number of
\* their positions.
SizeOf(segments) == Cardinality(PositionsOf(segments))

\* block is the block size of the tree the download has: that of the file's
\* tree, or the size of the file when its root is used as the tree.
NoDownload == [type |-> "NONE", seg |-> Seg(0, 0), block |-> BlockSize, overlapped |-> FALSE,
               running |-> FALSE, pos |-> 0, live |-> FALSE]

Download == [type : {"NONE", "TREE", "FILE"}, seg : Segment, block : {BlockSize, Size},
             overlapped : BOOLEAN, running : BOOLEAN, pos : Nat, live : BOOLEAN]

\* QueueItem::getDownloadedBytes counts the running downloads as well, each
\* with the positions it has received.
DownloadedBytes(segments) ==
    SizeOf(segments) + Cardinality({x \in attached \X (1 .. Size) : x[2] <= dl[x[1]].pos})

RoundUp(n, block) == ((n + block - 1) \div block) * block

\* Util::roundDown rounds to the nearest multiple.
RoundDown(n, block) == ((n + block \div 2) \div block) * block

AlignDown(n, block) == n - (n % block)

-----------------------------------------------------------------------------
(* QueueItem::addFinishedSegment: the segment is inserted in the ordered   *)
(* set and one pass merges each element with the one before it when they   *)
(* touch.  The elements already there do not touch each other, so at most  *)
(* one predecessor and one successor take part.  A merged segment ends     *)
(* where its later member ends.                                            *)

\* Mutant: segments that only touch are not merged.
MutPredecessors(a) == {p \in done : Precedes(p, a) /\ EndOf(p) > a.start}

Predecessors(a) == {p \in done : Precedes(p, a) /\ EndOf(p) >= a.start}

Successors(a) ==
    {s \in done : /\ Precedes(a, s)
                  /\ EndOf(a) >= s.start
                  /\ \A t \in done : Precedes(a, t) => ~Precedes(t, s)}

\* Mutant: the end of the new segment is kept when a successor is swallowed.
MutMerged(a) ==
    Seg(IF Predecessors(a) = {} THEN a.start ELSE (CHOOSE p \in Predecessors(a) : TRUE).start,
        EndOf(a))

Merged(a) ==
    Seg(IF Predecessors(a) = {} THEN a.start ELSE (CHOOSE p \in Predecessors(a) : TRUE).start,
        IF Successors(a) = {} THEN EndOf(a) ELSE EndOf(CHOOSE s \in Successors(a) : TRUE))

DoneAfter(a) ==
    IF a \in done
    THEN done
    ELSE (done \ (Predecessors(a) \union Successors(a))) \union {Merged(a)}

\* Mutant: the size of the merged segment is reported as it is.
MutNewBytes(a) ==
    IF a \notin done /\ Predecessors(a) \union Successors(a) # {} THEN Merged(a).size ELSE a.size

\* The bytes reported to the bundle: those of the first merge of the pass,
\* less what its other member had counted before.
NewBytes(a) ==
    IF a \notin done /\ Predecessors(a) # {}
    THEN LET p == CHOOSE p \in Predecessors(a) : TRUE
         IN  EndOf(a) - p.start - p.size
    ELSE IF a \notin done /\ Successors(a) # {}
    THEN LET s == CHOOSE s \in Successors(a) : TRUE
         IN  EndOf(s) - a.start - s.size
    ELSE a.size

\* Bound of the model: a segment inserted twice is counted twice, without end.
CountBound == 2 * Size

AddFinishedSegment(a) ==
    /\ finishedSegments + NewBytes(a) \in -CountBound .. CountBound
    /\ done' = DoneAfter(a)
    /\ finishedSegments' = finishedSegments + NewBytes(a)

-----------------------------------------------------------------------------
(* QueueItem::getNextSegment *)

NoBlock == [seg |-> Seg(0, 0), overlapped |-> FALSE]

NoMoreSegments == [seg |-> [start |-> -1, size |-> 0], overlapped |-> FALSE]

\* checkOverlaps: the tail of a running chunk that nobody overlaps yet.  Which
\* chunks are slow enough is a matter of speeds, so any of them or none.
Overlaps(c, allowOverlap, block) ==
    {NoBlock} \union
    { [seg |-> Seg(dl[d].seg.start + AlignDown(dl[d].pos, block), EndOf(dl[d].seg)), overlapped |-> TRUE] :
        d \in {d \in attached : /\ allowOverlap /\ OverlapSlowSources /\ Partial[c] = {}
                                /\ dl[d].type = "FILE" /\ dl[d].running
                                /\ ~dl[d].overlapped
                                /\ dl[d].pos < dl[d].seg.size} }

\* The chunk size wanted shrinks towards the end of the file, to a quarter at most.
TargetSize(fin, wanted) ==
    LET b == DownloadedBytes(fin)
        scaled == (wanted * (Size * Size - b * b)) \div (Size * Size)
        target == IF scaled > wanted \div 4 THEN scaled ELSE wanted \div 4
    IN  IF target > BlockSize THEN RoundDown(target, BlockSize) ELSE BlockSize

BlockAt(start, size) == Seg(start, IF start + size < Size THEN start + size ELSE Size)

\* Mutant: blocks that other connections are downloading are not skipped.
MutFreeBlock(fin, start, size) ==
    \A s \in fin : ~Intersect(BlockAt(start, size), s)

\* A block may be handed out when no running download intersects it and no
\* finished segment does; a block of the smallest size only has to be not
\* finished completely.
FreeBlock(fin, start, size) ==
    LET block == BlockAt(start, size)
    IN  /\ \A d \in attached : ~Intersect(block, dl[d].seg)
        /\ IF size <= BlockSize
           THEN \A s \in fin : ~Covers(s, block)
           ELSE \A s \in fin : ~Intersect(block, s)

\* Mutant: the incomplete block at the end of the file is never looked at.
MutBlockStarts == {k * BlockSize : k \in 0 .. (Size \div BlockSize) - 1}

BlockStarts == {k * BlockSize : k \in 0 .. ((Size - 1) \div BlockSize)}

FreeSizes(fin, start, target) ==
    {n \in 1 .. target : n % BlockSize = 0 /\ FreeBlock(fin, start, n)}

\* The largest free size, as a set: empty when not even one block is free.
LargestSizes(fin, start, target) ==
    {n \in FreeSizes(fin, start, target) : \A m \in FreeSizes(fin, start, target) : m <= n}

LargestBlocks(fin, start, target) == {BlockAt(start, n) : n \in LargestSizes(fin, start, target)}

\* The search shortens the block from the target size until it is free, and
\* moves on by one block when not even the smallest is.
Step(fin, start, target) ==
    IF LargestSizes(fin, start, target) = {} THEN BlockSize
    ELSE CHOOSE n \in LargestSizes(fin, start, target) : TRUE

\* The starts it visits when it does not stop at the first free block: the
\* beginning of the file, and the next one of each.
Visited(fin, target) ==
    LET next(s) == s + Step(fin, s, target)
    IN  {s \in BlockStarts : \A S \in SUBSET BlockStarts :
            (0 \in S /\ \A r \in S : next(r) < Size => next(r) \in S) => s \in S}

\* A full source takes the first free block.
FirstFree(fin, target) ==
    UNION {LargestBlocks(fin, s, target) :
              s \in {s \in BlockStarts : \A r \in BlockStarts : r < s => FreeSizes(fin, r, target) = {}}}

\* A partial source takes any part of a free block that it has, at most as
\* long as the target size.
NeededParts(fin, c, target) ==
    LET Low(m, n)  == IF m < n THEN m ELSE n
        High(m, n) == IF m > n THEN m ELSE n
        Free == UNION {LargestBlocks(fin, s, target) : s \in Visited(fin, target)}
        Has  == {Seg(Low(Size, p[1] * BlockSize), Low(Size, p[2] * BlockSize)) : p \in Partial[c]}
        Part(b, h) == Seg(High(b.start, h.start),
                          Low(Low(EndOf(b), EndOf(h)), High(b.start, h.start) + target))
    IN  {Part(x[1], x[2]) : x \in {y \in Free \X Has : Intersect(y[1], y[2])}}

\* Without segmented downloading: from the end of the first finished segment
\* to the second one, or the part before the first one.
WholeGap(fin, block) ==
    LET first  == CHOOSE s \in fin : \A t \in fin : s = t \/ Precedes(s, t)
        second == CHOOSE s \in fin \ {first} : \A t \in fin \ {first} : s = t \/ Precedes(s, t)
        from == IF fin = {} \/ first.start > 0 THEN 0 ELSE RoundDown(EndOf(first), block)
        to   == IF fin = {} THEN Size
                ELSE IF first.start > 0 THEN RoundUp(first.start, block)
                ELSE IF fin = {first} THEN Size ELSE RoundUp(second.start, block)
    IN  Seg(from, IF to < Size THEN to ELSE Size)

\* Mutant: the gap is handed out beside a running download.
MutUnsegmented(fin, c, allowOverlap, block) ==
    {[seg |-> WholeGap(fin, block), overlapped |-> FALSE]}

Unsegmented(fin, c, allowOverlap, block) ==
    IF attached = {}
    THEN {[seg |-> WholeGap(fin, block), overlapped |-> FALSE]}
    ELSE Overlaps(c, allowOverlap, block)

\* The possible results of getNextSegment for the source of connection c when
\* the finished segments are fin.  The block size is that of the tree, or the
\* size of the file.
NextSegments(fin, c, wanted, allowOverlap, block) ==
    LET target == TargetSize(fin, wanted)
        free == IF Partial[c] = {} THEN FirstFree(fin, target) ELSE NeededParts(fin, c, target)
    IN  IF ~MultiChunk \/ block >= Size
        THEN Unsegmented(fin, c, allowOverlap, block)
        ELSE IF paused \/ Cardinality(attached) >= MaxSegments
        THEN {NoMoreSegments}
        ELSE IF free # {}
        THEN {[seg |-> s, overlapped |-> FALSE] : s \in free}
        ELSE Overlaps(c, allowOverlap, block)

\* QueueItem::getBlockSize.  What it returns is kept, until a segment is handed
\* out with the tree at hand.
GetBlockSize ==
    IF blockSize # -1 THEN blockSize ELSE IF tree THEN BlockSize ELSE Size

\* Mutant: whether a segment is free is found out by getDownload only.
MutHasSegment(c) ==
    /\ c \in sources /\ ~downloaded /\ ~paused /\ ~SegmentsDone
    /\ \A d \in attached : dl[d].type # "TREE"

\* QueueItem::hasSegment; the user queue asks with the overlap allowed when
\* nothing was found without it.  Nothing is started beside a tree download,
\* when that is the first of the list; which one is the first is left open.
HasSegment(c) ==
    /\ c \in sources /\ ~downloaded /\ ~paused /\ ~SegmentsDone
    /\ \/ attached = {}
       \/ /\ \E first \in attached : dl[first].type # "TREE"
          /\ \E r \in NextSegments(done, c, 0, TRUE, GetBlockSize) : r.seg.size # 0

-----------------------------------------------------------------------------
Init ==
    /\ done = {} /\ attached = {}
    /\ dl = [c \in Conns |-> NoDownload]
    /\ slotAssign = NoConn
    /\ sources = Conns
    /\ noTree = {} /\ blockSize = -1 /\ paused = FALSE
    /\ disconnecting = {}
    /\ downloaded = FALSE
    /\ tree = TreeKnown
    /\ finishedSegments = 0
    /\ temp = FALSE /\ disk = {}
    /\ lossLeft = TempLossAllowed

\* QueueManager::getDownload, first half: with slotAssignCS held, startDownload
\* finds out under the read lock that the connection can have this file.
StartDownload(c) ==
    /\ dl[c] = NoDownload /\ slotAssign = NoConn
    /\ HasSegment(c)
    /\ slotAssign' = c
    /\ blockSize' = IF attached = {} THEN blockSize ELSE GetBlockSize
    /\ UNCHANGED << done, attached, dl, sources, noTree, paused, disconnecting, downloaded,
                    tree, finishedSegments, temp, disk, lossLeft >>

\* The handlers of partial file sharing ask for the block size too, and so does
\* hasSegment for a connection that gets nothing.
ReadBlockSize ==
    /\ blockSize = -1
    /\ blockSize' = GetBlockSize
    /\ UNCHANGED << done, attached, dl, slotAssign, sources, noTree, paused, disconnecting,
                    downloaded, tree, finishedSegments, temp, disk, lossLeft >>

\* A partial source that has nothing we need is removed.
NoNeededPart(c) ==
    /\ slotAssign = c /\ c \in sources /\ Partial[c] # {}
    /\ \E w \in WantedSizes : \E r \in NextSegments(done, c, w, FALSE, GetBlockSize) :
           r.seg.start # -1 /\ r.seg.size = 0
    /\ sources' = sources \ {c}
    /\ slotAssign' = NoConn
    /\ blockSize' = GetBlockSize
    /\ UNCHANGED << done, attached, dl, noTree, paused, disconnecting, downloaded, tree,
                    finishedSegments, temp, disk, lossLeft >>

\* The original of an overlapping segment: the first download that contains
\* it, which is the largest one.
Originals(seg) ==
    LET Containing == {d \in attached : dl[d].type = "FILE" /\ Covers(dl[d].seg, seg)}
    IN  {d \in Containing : \A e \in Containing : dl[e].seg.size <= dl[d].seg.size}

\* Finished segments of a temporary file that is gone are forgotten (resetDownloaded).
Remaining == IF DownloadedBytes(done) > 0 /\ ~temp THEN {} ELSE done

\* A Download for one of the segments; an overlapping one marks its original.
CreateDownload(c, results, block) ==
    \E r \in results :
    \E orig \in IF r.overlapped /\ Originals(r.seg) # {} THEN Originals(r.seg) ELSE {NoConn} :
        dl' = [d \in Conns |->
                 IF d = c THEN [NoDownload EXCEPT !.type = "FILE", !.seg = r.seg, !.block = block,
                                                  !.overlapped = r.overlapped]
                 ELSE IF d = orig THEN [dl[d] EXCEPT !.overlapped = TRUE]
                 ELSE dl[d]]

\* Download::initSegment: the next segment when the tree is known, else the tree
\* if the peer may have it, else all that is left, verified by the root alone.
\* The last asks with no chunk size and no speed, so it overlaps nobody.
InitSegment(c, fin, wanted) ==
    LET asked == IF Partial[c] = {} THEN blockSize ELSE GetBlockSize
    IN  \/ /\ tree
           /\ CreateDownload(c, NextSegments(fin, c, wanted, TRUE, BlockSize), BlockSize)
           /\ blockSize' = BlockSize
        \/ /\ ~tree /\ c \notin Treeless \union noTree
           /\ dl' = [dl EXCEPT ![c] = [NoDownload EXCEPT !.type = "TREE", !.seg = Seg(0, -1)]]
           /\ blockSize' = asked
        \/ /\ ~tree /\ c \in Treeless \union noTree
           /\ CreateDownload(c, NextSegments(fin, c, 0, FALSE, Size), Size)
           /\ blockSize' = asked

\* The second half under the write lock: a Download is created for the tree of
\* the file or for its next segment.
GetDownload(c) ==
    LET fin == Remaining
    IN  /\ slotAssign = c /\ c \in sources
        /\ \E w \in WantedSizes :
              /\ Partial[c] # {} => \A r \in NextSegments(done, c, w, FALSE, GetBlockSize) :
                                        r.seg.start = -1 \/ r.seg.size # 0
              /\ InitSegment(c, fin, w)
        /\ done' = fin
        /\ finishedSegments' = finishedSegments - (SizeOf(done) - SizeOf(fin))
        /\ finishedSegments' \in -CountBound .. CountBound
        /\ attached' = attached \union {c}
        /\ slotAssign' = NoConn
        /\ UNCHANGED << sources, noTree, paused, disconnecting, downloaded, tree, temp, disk,
                        lossLeft >>

\* The user's source was removed between the halves: getSource() returns the
\* end of the list and the code goes on with it.  Only the loss of the request
\* is modelled.
GetDownloadRemovedSource(c) ==
    /\ slotAssign = c /\ c \notin sources
    /\ slotAssign' = NoConn
    /\ UNCHANGED << done, attached, dl, sources, noTree, blockSize, paused,
                    disconnecting, downloaded, tree, finishedSegments, temp, disk, lossLeft >>

\* Mutant: a missing temporary file is created again in any case.
MutTempUsable == TRUE

\* What has been downloaded is in the temporary file (hasDownloadedBytes, open).
TempUsable == DownloadedBytes(done) > 0 => temp

\* DownloadManager::startData and Download::open for a file segment: a chunk
\* that overlaps a slow one disconnects it (disconnectOverlappedThrow), and the
\* temporary file is created unless it should have been there.
StartData(c) ==
    LET orig == {d \in Originals(dl[c].seg) : d # c}
    IN  /\ dl[c].type = "FILE" /\ ~dl[c].running /\ dl[c].seg.start >= 0
        /\ IF dl[c].overlapped
           THEN \E d \in orig : disconnecting' = disconnecting \union {d}
           ELSE UNCHANGED disconnecting
        /\ TempUsable
        /\ temp' = TRUE
        /\ dl' = [dl EXCEPT ![c].running = TRUE, ![c].live = TRUE, ![c].overlapped = FALSE]
        /\ UNCHANGED << done, attached, slotAssign, sources, noTree, blockSize, paused,
                        downloaded, tree, finishedSegments, disk, lossLeft >>

\* Mutant: bytes behind the end of the segment are accepted.
MutData(c) ==
    /\ dl[c].type = "FILE" /\ dl[c].running /\ dl[c].pos <= dl[c].seg.size
    /\ dl' = [dl EXCEPT ![c].pos = @ + 1]
    /\ disk' = IF dl[c].live THEN disk \union {dl[c].seg.start + dl[c].pos} ELSE disk
    /\ UNCHANGED << done, attached, slotAssign, sources, noTree, blockSize, paused,
                    disconnecting, downloaded, tree, finishedSegments, temp, lossLeft >>

\* DownloadManager::on(Data): verified bytes are written.
Data(c) ==
    /\ dl[c].type = "FILE" /\ dl[c].running /\ dl[c].pos < dl[c].seg.size
    /\ dl' = [dl EXCEPT ![c].pos = @ + 1]
    /\ disk' = IF dl[c].live THEN disk \union {dl[c].seg.start + dl[c].pos} ELSE disk
    /\ UNCHANGED << done, attached, slotAssign, sources, noTree, blockSize, paused,
                    disconnecting, downloaded, tree, finishedSegments, temp, lossLeft >>

\* Mutant: the finished tree download stays in the list of the item.
MutEndTree(c) ==
    /\ dl[c].type = "TREE"
    /\ dl' = [dl EXCEPT ![c] = NoDownload]
    /\ tree' = TRUE
    /\ UNCHANGED << attached, done, slotAssign, sources, noTree, blockSize, paused,
                    disconnecting, downloaded, finishedSegments, temp, disk, lossLeft >>

\* endData, putDownloadHooked and onTreeDownloadCompleted
EndTree(c) ==
    /\ dl[c].type = "TREE"
    /\ dl' = [dl EXCEPT ![c] = NoDownload]
    /\ attached' = attached \ {c}
    /\ tree' = TRUE
    /\ UNCHANGED << done, slotAssign, sources, noTree, blockSize, paused,
                    disconnecting, downloaded, finishedSegments, temp, disk, lossLeft >>

\* endData, putDownloadHooked and onFileDownloadCompleted.  Completing the file
\* takes every download of its sources off the list; a download that ends after
\* that is ignored.
EndData(c) ==
    /\ dl[c].type = "FILE" /\ dl[c].running /\ dl[c].pos = dl[c].seg.size
    /\ dl' = [dl EXCEPT ![c] = NoDownload]
    /\ IF downloaded
       THEN UNCHANGED << done, finishedSegments, attached, disconnecting, downloaded >>
       ELSE /\ AddFinishedSegment(dl[c].seg)
            /\ IF done' = {Seg(0, Size)}
               THEN /\ downloaded' = TRUE
                    /\ disconnecting' = disconnecting \union (attached \ {c})
                    /\ attached' = attached \ sources
               ELSE /\ attached' = attached \ {c}
                    /\ UNCHANGED << disconnecting, downloaded >>
    /\ UNCHANGED << slotAssign, sources, noTree, blockSize, paused, tree, temp, disk, lossLeft >>

\* DownloadManager::failDownload and QueueManager::onDownloadFailed: whole
\* blocks received are kept; when nothing of the file has been received, by
\* anyone, its temporary file is deleted.
Failed(c) ==
    LET got == AlignDown(dl[c].pos, dl[c].block)
        drop == dl[c].type = "FILE" /\ ~downloaded /\ DownloadedBytes(done) = 0
    IN  /\ IF ~downloaded /\ got > 0
           THEN AddFinishedSegment([start |-> dl[c].seg.start, size |-> got])
           ELSE UNCHANGED << done, finishedSegments >>
        /\ attached' = IF downloaded THEN attached ELSE attached \ {c}
        /\ temp' = (temp /\ ~drop)
        /\ disk' = IF drop THEN {} ELSE disk
        /\ dl' = [d \in Conns |-> IF d = c THEN NoDownload
                                  ELSE [dl[d] EXCEPT !.live = @ /\ ~drop]]
        /\ disconnecting' = disconnecting \ {c}
        /\ UNCHANGED << slotAssign, blockSize, paused, downloaded, tree, lossLeft >>

\* The connection or the peer fails.  The last bytes of a segment and its end
\* are handled in one go, so a complete segment does not fail.
FailDownload(c) ==
    /\ dl[c].type # "NONE"
    /\ dl[c].running => dl[c].pos < dl[c].seg.size
    /\ Failed(c)
    /\ UNCHANGED << sources, noTree >>

\* Download::open throws: the chunk to overlap is finished or about to be, or
\* the temporary file with the finished segments is missing, which it also is
\* once the complete file has been renamed.
OpenFails(c) ==
    /\ dl[c].type = "FILE" /\ ~dl[c].running /\ dl[c].seg.start >= 0
    /\ dl[c].overlapped \/ downloaded \/ ~TempUsable
    /\ Failed(c)
    /\ UNCHANGED << sources, noTree >>

\* DownloadManager::fileNotAvailable: the peer does not have the tree, or refuses
\* a request for nothing (UploadRequest::validate).  It stays a source without a
\* tree when the file is small, and is removed otherwise.
FileNotAvailable(c) ==
    LET noTreeAnswer == dl[c].type = "TREE" /\ c \in TreeRefusers
    IN  /\ \/ noTreeAnswer
           \/ dl[c].type = "FILE" /\ ~dl[c].running /\ (dl[c].seg.start < 0 \/ dl[c].seg.size = 0)
        /\ noTree' = IF noTreeAnswer /\ c \in sources /\ ~downloaded THEN noTree \union {c} ELSE noTree
        /\ sources' = IF downloaded \/ (noTreeAnswer /\ SmallFile) THEN sources ELSE sources \ {c}
        /\ Failed(c)

\* QueueManager::removeFileSource, by the user, for a slow source or before
\* the failure of a download whose data does not match the tree.
RemoveFileSource(c) ==
    /\ c \in sources \intersect RemovableSources /\ ~downloaded
    /\ sources' = sources \ {c}
    /\ disconnecting' = IF dl[c].type # "NONE" THEN disconnecting \union {c} ELSE disconnecting
    /\ UNCHANGED << done, attached, dl, slotAssign, noTree, blockSize, paused,
                    downloaded, tree, finishedSegments, temp, disk, lossLeft >>

\* QueueManager::setBundlePriority and setQIPriority.  A forced pause disconnects
\* what is downloading the file.
Pause ==
    /\ PauseAllowed /\ ~downloaded
    /\ paused' = TRUE
    /\ \/ ~paused /\ UNCHANGED disconnecting
       \/ disconnecting' = disconnecting \union {c \in Conns : dl[c].type # "NONE"}
    /\ UNCHANGED << done, attached, dl, slotAssign, sources, noTree, blockSize, downloaded,
                    tree, finishedSegments, temp, disk, lossLeft >>

Resume ==
    /\ paused /\ ~downloaded
    /\ paused' = FALSE
    /\ UNCHANGED << done, attached, dl, slotAssign, sources, noTree, blockSize,
                    disconnecting, downloaded, tree, finishedSegments, temp, disk, lossLeft >>

\* The socket of a connection without a download handles its disconnect task.
Disconnected(c) ==
    /\ c \in disconnecting /\ dl[c].type = "NONE" /\ slotAssign # c
    /\ disconnecting' = disconnecting \ {c}
    /\ UNCHANGED << done, attached, dl, slotAssign, sources, noTree, blockSize,
                    paused, downloaded, tree, finishedSegments, temp, disk, lossLeft >>

\* Somebody deletes the temporary file.
LoseTempFile ==
    /\ lossLeft /\ temp /\ ~downloaded
    /\ lossLeft' = FALSE
    /\ temp' = FALSE /\ disk' = {}
    /\ dl' = [d \in Conns |-> [dl[d] EXCEPT !.live = FALSE]]
    /\ UNCHANGED << done, attached, slotAssign, sources, noTree, blockSize, paused,
                    disconnecting, downloaded, tree, finishedSegments >>

Next ==
    \/ \E c \in Conns : StartDownload(c)
    \/ \E c \in Conns : NoNeededPart(c)
    \/ \E c \in Conns : GetDownload(c)
    \/ \E c \in Conns : GetDownloadRemovedSource(c)
    \/ \E c \in Conns : StartData(c)
    \/ \E c \in Conns : Data(c)
    \/ \E c \in Conns : EndTree(c)
    \/ \E c \in Conns : EndData(c)
    \/ \E c \in Conns : FailDownload(c)
    \/ \E c \in Conns : OpenFails(c)
    \/ \E c \in Conns : FileNotAvailable(c)
    \/ \E c \in Conns : RemoveFileSource(c)
    \/ \E c \in Conns : Disconnected(c)
    \/ ReadBlockSize
    \/ Pause
    \/ Resume
    \/ LoseTempFile

Spec == Init /\ [][Next]_vars

\* Sockets and peers: a connection that may ask for work does, work assigned is
\* carried on, a disconnect task is handled.  Nothing makes a download fail.
Fairness ==
    /\ \A c \in Conns : /\ SF_vars(StartDownload(c))
                        /\ WF_vars(GetDownload(c) \/ GetDownloadRemovedSource(c) \/ NoNeededPart(c))
                        /\ WF_vars(StartData(c) \/ OpenFails(c) \/ FileNotAvailable(c) \/ Data(c)
                                      \/ EndData(c) \/ EndTree(c))
                        /\ WF_vars(c \in disconnecting /\ FailDownload(c))

FairSpec == Spec /\ Fairness

-----------------------------------------------------------------------------
\* Types, and no download goes beyond its segment (checked by DownloadManager
\* on(Data) through the bytes a download accepts).
TypeOK ==
    /\ done \subseteq Segment
    /\ attached \subseteq Conns
    /\ dl \in [Conns -> Download]
    /\ \A c \in Conns : dl[c].pos = 0 \/ dl[c].pos <= dl[c].seg.size
    /\ slotAssign \in Conns \union {NoConn}
    /\ sources \subseteq Conns /\ noTree \subseteq Conns
    /\ blockSize \in {-1, BlockSize, Size} /\ paused \in BOOLEAN
    /\ disconnecting \subseteq Conns
    /\ downloaded \in BOOLEAN /\ tree \in BOOLEAN
    /\ finishedSegments \in Int
    /\ temp \in BOOLEAN /\ disk \subseteq Int /\ lossLeft \in BOOLEAN

\* The finished segments stay consolidated: inside the file, no two touching.
\* The single merging pass of QueueItem::addFinishedSegment and segmentsDone,
\* which looks for one segment of the size of the file, rely on it.
DoneSeparated == Consolidated(done)

\* Two downloads of the file never work on the same bytes, except where one
\* overlaps the tail of the other: getNextSegment hands out free blocks only,
\* although downloads are created in a later critical section than hasSegment.
RunningNested ==
    \A c, d \in attached :
        (c # d /\ dl[c].type = "FILE" /\ dl[d].type = "FILE" /\ Intersect(dl[c].seg, dl[d].seg)) =>
            OverlapSlowSources /\ EndOf(dl[c].seg) = EndOf(dl[d].seg)

\* While the hash tree is downloaded nothing else of the file is, neither a
\* second tree nor the file from a source that has no tree: the data is verified
\* against that tree.  Only without the overlapping of slow chunks: a file that
\* is downloaded from a source without the tree (initSegment) is a running chunk,
\* and a faster source to overlap it is asked for the tree beside it.
TreeAlone ==
    ~OverlapSlowSources =>
        \A c \in attached : dl[c].type = "TREE" => attached = {c}

\* A source of the whole file is never asked for nothing, which its peer refuses
\* and for which fileNotAvailable removes the source: what hasSegment has found is
\* still there in the second critical section of getDownload, whatever chunks end,
\* fail or bring the tree between the two.  Only without the overlapping of slow
\* chunks and when nobody pauses the file in that gap.
NoEmptyRequest ==
    (~OverlapSlowSources /\ ~PauseAllowed) =>
        \A c \in attached : (dl[c].type = "FILE" /\ Partial[c] = {}) => dl[c].seg.size > 0

\* The assertion of Bundle::addFinishedSegment: what the bundle has counted
\* through addFinishedSegment and removeFinishedSegment is what its file has
\* finished.
BundleCountExact == finishedSegments = SizeOf(done)

\* QueueItem::downloads names no Download object that putDownloadHooked has
\* deleted.  For sources nobody removes (RemovableSources = {}): completing the
\* file takes the downloads of its sources off the list, and not that of a source
\* that was removed while it downloads.
NoDanglingDownload == \A c \in attached : dl[c].type # "NONE"

\* Everything counted as finished is in the temporary file, if there is one:
\* a file put together by renameDownloadedFile has no holes.
DoneOnDisk == temp => DonePositions \subseteq disk

\* A file that is not paused, without running downloads and with a full source,
\* can always go on: getNextSegment finds a non-empty segment with unfinished
\* bytes in it, with and without the tree, and the file is not complete without
\* having been taken off the queue.
NoStall ==
    (~downloaded /\ ~paused /\ attached = {}) =>
        /\ ~SegmentsDone
        /\ \A c \in sources : \A w \in WantedSizes :
              Partial[c] = {} => \A r \in NextSegments(Remaining, c, w, TRUE,
                                                      IF tree THEN BlockSize ELSE Size) :
                                    /\ r.seg.size > 0
                                    /\ ~(Positions(r.seg) \subseteq PositionsOf(Remaining))

\* The queue item does what a file of the queue promises: putDownloadHooked only
\* adds what a download brought, the item is marked as downloaded only with all
\* of its bytes (segmentsDone) and then keeps them, and getDownload forgets
\* finished segments only together.
Promise == INSTANCE BundleFile WITH have <- DonePositions, complete <- downloaded, stored <- temp,
                                    FileSize <- Size

ImplementsBundleFile == Promise!Spec

\* A file with a full source completes once downloads stop failing: the search
\* of getNextSegment, hasSegment, the merging of addFinishedSegment and the
\* removal of partial sources without needed parts leave no state from which
\* the connections keep asking in vain, whether the tree comes or is refused.
\* Nobody pauses the file (PauseAllowed = FALSE).
Completes ==
    <>[][\A c \in Conns : ~FailDownload(c)]_vars => <>downloaded
=============================================================================
