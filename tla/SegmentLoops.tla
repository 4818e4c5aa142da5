---------------------------- MODULE SegmentLoops ----------------------------
(***************************************************************************)
(* The two loops of QueueItem that FileSegments states in closed form, one *)
(* iteration per step: the consolidation of addFinishedSegment and the     *)
(* search of getNextSegment.  Each starts from any state of a queue item,  *)
(* and ends with what the closed form says.                                *)
(***************************************************************************)
EXTENDS FileSegments

VARIABLES
    loop,      \* "merge", "merged", "search" or "found"
    new,       \* the segment added
    segments,  \* QueueItem::done while it is consolidated
    i,         \* the iterator, or None at the end
    bytes,     \* what the bundle was told, {} before
    source,    \* the connection that asks for a segment
    wanted,    \* with this chunk size
    start,     \* variables of getNextSegment
    curSize,
    parts,     \* neededParts
    result

loopVars == << loop, new, segments, i, bytes, source, wanted, start, curSize, parts, result >>

None == [start |-> -2, size |-> 0]

AllSegments == {Seg(x, y) : x \in 0 .. Size, y \in 0 .. Size}

NonEmpty == {s \in AllSegments : s.size > 0}

\* The consolidated segments of a set of positions.
Runs(P) == {s \in NonEmpty : Positions(s) \subseteq P /\ s.start - 1 \notin P /\ EndOf(s) \notin P}

Aligned(s) == s.start % BlockSize = 0 /\ (EndOf(s) % BlockSize = 0 \/ EndOf(s) = Size)

After(S, s) == LET Later == {t \in S : Precedes(s, t)}
               IN  IF Later = {} THEN None
                   ELSE CHOOSE t \in Later : \A u \in Later : u = t \/ Precedes(t, u)

Before(S, s) == CHOOSE t \in S : Precedes(t, s) /\ \A u \in S : Precedes(u, s) => u = t \/ Precedes(u, t)

First(S) == CHOOSE t \in S : \A u \in S : u = t \/ Precedes(t, u)

\* Some finished segments, and downloads that run, at the start of theirs, on
\* blocks of the file.
ItemInit ==
    /\ done \in {Runs(P) : P \in SUBSET (0 .. Size - 1)}
    /\ attached \in SUBSET Conns
    /\ dl \in [Conns -> {NoDownload} \union
                  {[NoDownload EXCEPT !.type = "FILE", !.seg = s] : s \in {s \in NonEmpty : Aligned(s)}}]
    /\ \A c \in Conns : c \in attached <=> dl[c].type = "FILE"
    /\ slotAssign = NoConn /\ sources = Conns /\ disconnecting = {}
    /\ noTree = {} /\ blockSize = BlockSize /\ paused = FALSE
    /\ downloaded = FALSE /\ tree = TRUE /\ finishedSegments = 0
    /\ temp = TRUE /\ disk = {} /\ lossLeft = FALSE

Target == TargetSize(done, wanted)

MergeInit ==
    /\ loop = "merge"
    /\ attached = {}
    /\ new \in NonEmpty
    /\ segments = done \union {new}
    /\ i = After(segments, First(segments))
    /\ bytes = {}
    /\ source = NoConn /\ wanted = 0 /\ start = 0 /\ curSize = 0 /\ parts = {} /\ result = None

SearchInit ==
    /\ loop = "search"
    /\ MultiChunk /\ BlockSize < Size
    /\ done # {Seg(0, Size)} /\ \A s \in done : Aligned(s)
    /\ source \in Conns \ attached
    /\ wanted \in WantedSizes
    /\ Cardinality(attached) < MaxSegments
    /\ start = 0 /\ curSize = Target /\ parts = {} /\ result = None
    /\ new = None /\ segments = {} /\ i = None /\ bytes = {}

LoopInit == ItemInit /\ (MergeInit \/ SearchInit)

-----------------------------------------------------------------------------
\* Mutant: the merged segment ends where the earlier one ended.
MutMergeStepEnd ==
    LET prev == Before(segments, i)
    IN  /\ loop = "merge" /\ i # None
        /\ IF EndOf(prev) >= i.start
           THEN /\ segments' = segments \ {i}
                /\ bytes' = IF bytes = {} THEN {i.size} ELSE bytes
           ELSE UNCHANGED << segments, bytes >>
        /\ i' = After(segments, i)
        /\ UNCHANGED << vars, loop, new, source, wanted, start, curSize, parts, result >>

\* Mutant: the size of the earlier segment is always the one counted before.
MutMergeStep ==
    LET prev == Before(segments, i)
        big == Seg(prev.start, EndOf(i))
    IN  /\ loop = "merge" /\ i # None
        /\ IF EndOf(prev) >= i.start
           THEN /\ segments' = (segments \ {prev, i}) \union {big}
                /\ bytes' = IF bytes = {} THEN {big.size - prev.size} ELSE bytes
           ELSE UNCHANGED << segments, bytes >>
        /\ i' = After(segments, i)
        /\ UNCHANGED << vars, loop, new, source, wanted, start, curSize, parts, result >>

\* One round of the consolidation: the element at the iterator is merged with
\* the one before it when they touch.
MergeStep ==
    LET prev == Before(segments, i)
        big == Seg(prev.start, EndOf(i))
    IN  /\ loop = "merge" /\ i # None
        /\ IF EndOf(prev) >= i.start
           THEN /\ segments' = (segments \ {prev, i}) \union {big}
                /\ bytes' = IF bytes = {}
                            THEN {big.size - (IF prev = new THEN i.size ELSE prev.size)}
                            ELSE bytes
           ELSE UNCHANGED << segments, bytes >>
        /\ i' = After(segments, i)
        /\ UNCHANGED << vars, loop, new, source, wanted, start, curSize, parts, result >>

MergeEnd ==
    /\ loop = "merge" /\ i = None
    /\ loop' = "merged"
    /\ bytes' = IF bytes = {} THEN {new.size} ELSE bytes
    /\ UNCHANGED << vars, new, segments, i, source, wanted, start, curSize, parts, result >>

-----------------------------------------------------------------------------
Block == BlockAt(start, curSize)

\* Mutant: a running download only stands in the way of the blocks it contains.
MutBlockTaken ==
    \/ IF curSize <= BlockSize
       THEN \E s \in done : s.start <= start /\ EndOf(s) >= EndOf(Block)
       ELSE \E s \in done : Intersect(Block, s)
    \/ \E d \in attached : Covers(dl[d].seg, Block)

\* A block is done when a finished segment consumes it fully; larger blocks
\* must not touch the bytes of any.
BlockTaken ==
    \/ IF curSize <= BlockSize
       THEN \E s \in done : s.start <= start /\ EndOf(s) >= EndOf(Block)
       ELSE \E s \in done : Intersect(Block, s)
    \/ \E d \in attached : Intersect(Block, dl[d].seg)

\* The parts of a free block that a partial source has (posArray).
PartsOfBlock ==
    LET Low(m, n)  == IF m < n THEN m ELSE n
        High(m, n) == IF m > n THEN m ELSE n
        Has == {[from |-> Low(Size, p[1] * BlockSize), to |-> Low(Size, p[2] * BlockSize)] : p \in Partial[source]}
    IN  { Seg(High(start, h.from), Low(EndOf(Block), h.to)) :
            h \in {h \in Has : \/ h.from <= start /\ start < h.to
                               \/ start <= h.from /\ h.from < EndOf(Block)} }

\* Mutant: a block that is taken is skipped at its full size.
MutMoveOn == start' = EndOf(Block) /\ curSize' = Target

\* Mutant: the search does not move on from a taken block of the smallest size.
MutMoveOnStuck ==
    /\ curSize' = IF BlockTaken /\ curSize > BlockSize THEN curSize - BlockSize ELSE Target
    /\ start' = IF BlockTaken THEN start ELSE EndOf(Block)

MoveOn ==
    /\ IF BlockTaken /\ curSize > BlockSize
       THEN curSize' = curSize - BlockSize /\ UNCHANGED start
       ELSE start' = EndOf(Block) /\ curSize' = Target

\* One round of the search: a full source stops at the first free block, a
\* partial one collects.
SearchStep ==
    /\ loop = "search" /\ start < Size
    /\ IF ~BlockTaken /\ Partial[source] = {}
       THEN /\ loop' = "found" /\ result' = Block
            /\ UNCHANGED << start, curSize, parts >>
       ELSE /\ parts' = IF BlockTaken THEN parts ELSE parts \union PartsOfBlock
            /\ MoveOn
            /\ UNCHANGED << loop, result >>
    /\ UNCHANGED << vars, new, segments, i, bytes, source, wanted >>

\* The end of the file: any of the parts, not longer than the target size.
SearchEnd ==
    /\ loop = "search" /\ start >= Size
    /\ loop' = "found"
    /\ IF parts = {}
       THEN result' = NoBlock.seg
       ELSE \E p \in parts : result' = [p EXCEPT !.size = IF @ < Target THEN @ ELSE Target]
    /\ UNCHANGED << vars, new, segments, i, bytes, source, wanted, start, curSize, parts >>

LoopNext == MergeStep \/ MergeEnd \/ SearchStep \/ SearchEnd

LoopSpec == LoopInit /\ [][LoopNext]_<<vars, loopVars>> /\ WF_<<vars, loopVars>>(LoopNext)

-----------------------------------------------------------------------------
\* addFinishedSegment leaves the segments DoneAfter gives and tells the bundle
\* the bytes NewBytes gives.
MergeAsStated == loop = "merged" => segments = DoneAfter(new) /\ bytes = {NewBytes(new)}

\* A segment outside the finished ones adds exactly its bytes, and after it no
\* two segments touch: what BundleCountExact rests on.
MergeOfNewBytes ==
    (loop = "merged" /\ \A s \in done : ~Intersect(s, new)) =>
        /\ Consolidated(segments)
        /\ bytes = {new.size}
        /\ PositionsOf(segments) = DonePositions \union Positions(new)

\* getNextSegment returns one of the segments NextSegments gives, without the
\* overlap of slow chunks.
SearchAsStated ==
    loop = "found" =>
        [seg |-> result, overlapped |-> FALSE] \in NextSegments(done, source, wanted, FALSE, BlockSize)

\* A source that has a block nobody has or downloads is given something.
SearchFindsBlock ==
    (loop = "found" /\ result.size = 0) =>
        \A s \in BlockStarts :
            LET block == BlockAt(s, BlockSize)
            IN  \/ \E f \in done : Intersect(block, f)
                \/ \E d \in attached : Intersect(block, dl[d].seg)
                \/ /\ Partial[source] # {}
                   /\ \A p \in Partial[source] : ~(p[1] * BlockSize <= s /\ s < p[2] * BlockSize)

\* Both loops come to their end.
LoopsEnd == <>(loop \in {"merged", "found"})
=============================================================================
