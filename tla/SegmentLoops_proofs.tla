------------------------- MODULE SegmentLoops_proofs -------------------------
(***************************************************************************)
(* Theorems about the loops of QueueItem.cpp: for every size of the file,  *)
(* every block size and every set of finished segments, the iterations of  *)
(* addFinishedSegment end with the closed form DoneAfter, those of         *)
(* getNextSegment with a member of NextSegments.  The file lemmas and the  *)
(* closed forms' own theorems come from FilePromise_proofs.                *)
(***************************************************************************)
EXTENDS SegmentLoops, FilePromise_proofs

-----------------------------------------------------------------------------
(* The order of a set of segments (Segment::operator<). *)

\* Segments of the file that are not empty.
Chunk(s) == s \in Segment /\ s.start >= 0 /\ s.size > 0 /\ EndOf(s) <= Size

LEMMA ChunkFacts ==
  ASSUME NEW s, Chunk(s)
  PROVE  /\ s.start \in Nat /\ s.size \in Nat /\ EndOf(s) \in Nat /\ s.start < EndOf(s)
         /\ EndOf(s) <= Size /\ EndOf(s) = s.start + s.size /\ s.size \in 1 .. Size /\ s.start \in 0 .. Size
BY SegmentsAssumption DEF Chunk, Segment, EndOf

LEMMA SameSegment ==
  ASSUME NEW s \in Segment, NEW t \in Segment, s.start = t.start, s.size = t.size
  PROVE  s = t
BY DEF Segment

LEMMA SegmentOrder ==
  ASSUME NEW s, Chunk(s), NEW t, Chunk(t)
  PROVE  /\ s = t \/ Precedes(s, t) \/ Precedes(t, s)
         /\ Precedes(s, t) => ~Precedes(t, s) /\ s # t /\ s.start <= t.start
         /\ \A u : Chunk(u) /\ Precedes(s, t) /\ Precedes(t, u) => Precedes(s, u)
BY ChunkFacts, SameSegment DEF Chunk, Precedes

\* The least of some segments, and the greatest.
LEMMA LeastSegment ==
  ASSUME NEW S, S # {}, \A s \in S : Chunk(s)
  PROVE  \E t \in S : \A u \in S : u = t \/ Precedes(t, u)
<1> DEFINE Starts == {s.start : s \in S}
<1>1. Starts \in SUBSET Nat /\ Starts # {} BY ChunkFacts
<1> HIDE DEF Starts
<1>2. PICK m \in Starts : \A x \in Starts : m <= x BY <1>1, LeastElement
<1> DEFINE Sizes == {s.size : s \in {s \in S : s.start = m}}
<1>3. Sizes \in SUBSET Nat /\ Sizes # {} BY <1>2, ChunkFacts DEF Starts
<1> HIDE DEF Sizes
<1>4. PICK n \in Sizes : \A x \in Sizes : n <= x BY <1>3, LeastElement
<1>5. PICK t \in S : t.start = m /\ t.size = n BY <1>4 DEF Sizes
<1>6. ASSUME NEW u \in S PROVE u = t \/ Precedes(t, u)
  <2>1. m <= u.start BY <1>2 DEF Starts
  <2>2. u.start = m => n <= u.size BY <1>4 DEF Sizes
  <2>3. u.start = m /\ n = u.size => u = t BY <1>5, SameSegment DEF Chunk
  <2> QED BY <1>5, <2>1, <2>2, <2>3, ChunkFacts DEF Precedes
<1> QED BY <1>6

LEMMA GreatestSegment ==
  ASSUME NEW S, S # {}, \A s \in S : Chunk(s)
  PROVE  \E t \in S : \A u \in S : u = t \/ Precedes(u, t)
<1>0. Size \in Nat \ {0} BY SegmentsAssumption
<1> DEFINE Starts == {s.start + 1 : s \in S}
<1>1. Starts \in SUBSET (1 .. Size) /\ Starts # {} BY <1>0, ChunkFacts
<1> HIDE DEF Starts
<1>2. PICK m \in Starts : \A x \in Starts : x <= m BY <1>0, <1>1, GreatestElement
<1> DEFINE Sizes == {s.size : s \in {s \in S : s.start + 1 = m}}
<1>3. Sizes \in SUBSET (1 .. Size) /\ Sizes # {} BY <1>2, ChunkFacts DEF Starts
<1> HIDE DEF Sizes
<1>4. PICK n \in Sizes : \A x \in Sizes : x <= n BY <1>0, <1>3, GreatestElement
<1>5. PICK t \in S : t.start + 1 = m /\ t.size = n BY <1>4 DEF Sizes
<1>6. ASSUME NEW u \in S PROVE u = t \/ Precedes(u, t)
  <2>1. u.start + 1 <= m BY <1>2 DEF Starts
  <2>2. u.start + 1 = m => u.size <= n BY <1>4 DEF Sizes
  <2>3. u.start = t.start /\ n = u.size => u = t BY <1>5, SameSegment DEF Chunk
  <2> QED BY <1>5, <2>1, <2>2, <2>3, ChunkFacts DEF Precedes
<1> QED BY <1>6

\* The iterator moves to the next element of the set, or to its end.
LEMMA NextOne ==
  ASSUME NEW S, \A s \in S : Chunk(s), NEW s
  PROVE  \/ After(S, s) = None /\ \A t \in S : ~Precedes(s, t)
         \/ /\ After(S, s) \in S /\ Precedes(s, After(S, s))
            /\ \A t \in S : Precedes(s, t) => t = After(S, s) \/ Precedes(After(S, s), t)
<1> DEFINE Later == {t \in S : Precedes(s, t)}
<1>1. CASE Later = {} BY <1>1 DEF After
<1>2. CASE Later # {}
  <2>1. \E t \in Later : \A u \in Later : u = t \/ Precedes(t, u) BY <1>2, LeastSegment
  <2>2. After(S, s) = CHOOSE t \in Later : \A u \in Later : u = t \/ Precedes(t, u) BY <1>2 DEF After
  <2> QED BY <2>1, <2>2
<1> QED BY <1>1, <1>2

LEMMA NotNone ==
  ASSUME NEW s, Chunk(s)
  PROVE  s # None
BY ChunkFacts DEF None

LEMMA PreviousOne ==
  ASSUME NEW S, \A s \in S : Chunk(s), NEW s, Chunk(s), NEW r \in S, Precedes(r, s)
  PROVE  /\ Before(S, s) \in S /\ Precedes(Before(S, s), s)
         /\ \A u \in S : Precedes(u, s) => u = Before(S, s) \/ Precedes(u, Before(S, s))
<1> DEFINE Earlier == {t \in S : Precedes(t, s)}
<1>1. \E t \in Earlier : \A u \in Earlier : u = t \/ Precedes(u, t) BY GreatestSegment
<1>2. \E t \in S : Precedes(t, s) /\ \A u \in S : Precedes(u, s) => u = t \/ Precedes(u, t) BY <1>1
<1> QED BY <1>2 DEF Before

LEMMA FirstOne ==
  ASSUME NEW S, S # {}, \A s \in S : Chunk(s)
  PROVE  First(S) \in S /\ \A u \in S : u = First(S) \/ Precedes(First(S), u)
BY LeastSegment DEF First

-----------------------------------------------------------------------------
(* The consolidation of addFinishedSegment. *)

\* What the pass starts from: finished segments that do not touch each other,
\* and any new one.
MergeData == Consolidated(done) /\ (\A s \in done : Chunk(s)) /\ Chunk(new)

\* The new segment with its predecessor, when it touches one.
Front == Seg(IF Predecessors(new) = {} THEN new.start ELSE (CHOOSE p \in Predecessors(new) : TRUE).start,
             EndOf(new))

FrontMerged == (done \ Predecessors(new)) \union {Front}

\* The iterator has not passed the new segment.
AtFront ==
    /\ i # None /\ ~Precedes(new, i)
    /\ segments = done \union {new} /\ bytes = {}

\* It is at the first of the later ones.
AtBack ==
    /\ i \in done /\ Precedes(new, i)
    /\ \A t \in done : Precedes(new, t) => t = i \/ Precedes(i, t)
    /\ segments = FrontMerged
    /\ bytes = IF Predecessors(new) = {} THEN {} ELSE {NewBytes(new)}

\* It has passed that one too.
PassedBack ==
    /\ i # None => i \in done /\ \E t \in done : Precedes(new, t) /\ Precedes(t, i)
    /\ segments = DoneAfter(new)
    /\ bytes = IF Predecessors(new) \union Successors(new) = {} THEN {} ELSE {NewBytes(new)}

MergeInv ==
    /\ MergeData
    /\ i = None \/ (i \in segments /\ i \in done \union {new} /\ \E u \in segments : Precedes(u, i))
    /\ \/ new \in done /\ segments = done /\ bytes = {}
       \/ new \notin done /\ (AtFront \/ AtBack \/ PassedBack)

LEMMA DoneFacts ==
  ASSUME MergeData
  PROVE  /\ done \subseteq Segment
         /\ \A s \in done \union {new} : Chunk(s)
         /\ \A s, t \in done : s = t \/ EndOf(s) < t.start \/ EndOf(t) < s.start
         /\ \A s, t \in done : Precedes(s, t) => EndOf(s) < t.start
<1>1. /\ done \subseteq Segment
      /\ \A s \in done \union {new} : Chunk(s)
      /\ \A s, t \in done : s = t \/ EndOf(s) < t.start \/ EndOf(t) < s.start
  BY DEF MergeData, Consolidated, Chunk
<1>2. ASSUME NEW s \in done, NEW t \in done, Precedes(s, t) PROVE EndOf(s) < t.start
  <2>1. s # t BY <1>1, <1>2, SegmentOrder
  <2> QED BY <1>1, <1>2, <2>1, ChunkFacts DEF Precedes
<1> QED BY <1>1, <1>2

LEMMA Neighbours ==
  ASSUME MergeData
  PROVE  /\ \/ Predecessors(new) = {}
            \/ \E p \in done : /\ Predecessors(new) = {p} /\ (CHOOSE q \in Predecessors(new) : TRUE) = p
                               /\ Precedes(p, new) /\ EndOf(p) >= new.start
         /\ \/ Successors(new) = {}
            \/ \E s \in done : /\ Successors(new) = {s} /\ (CHOOSE q \in Successors(new) : TRUE) = s
                               /\ Precedes(new, s) /\ EndOf(new) >= s.start
<1>1. done \subseteq Segment /\ Consolidated(done) /\ new \in Segment BY DoneFacts DEF MergeData, Chunk
<1>2. Predecessors(new) # {} =>
        \E p \in done : /\ Predecessors(new) = {p} /\ (CHOOSE q \in Predecessors(new) : TRUE) = p
                        /\ Precedes(p, new) /\ EndOf(p) >= new.start
  <2> HAVE Predecessors(new) # {}
  <2>1. PICK p \in Predecessors(new) : Predecessors(new) = {p} BY <1>1, OnePredecessor
  <2>2. (CHOOSE q \in Predecessors(new) : TRUE) = p BY <2>1
  <2> QED BY <2>1, <2>2 DEF Predecessors
<1>3. Successors(new) # {} =>
        \E s \in done : /\ Successors(new) = {s} /\ (CHOOSE q \in Successors(new) : TRUE) = s
                        /\ Precedes(new, s) /\ EndOf(new) >= s.start
  <2> HAVE Successors(new) # {}
  <2>1. PICK s \in Successors(new) : Successors(new) = {s} BY <1>1, OneSuccessor
  <2>2. (CHOOSE q \in Successors(new) : TRUE) = s BY <2>1
  <2> QED BY <2>1, <2>2 DEF Successors
<1> QED BY <1>2, <1>3

LEMMA FrontFacts ==
  ASSUME MergeData
  PROVE  /\ Chunk(Front) /\ Front.start <= new.start /\ EndOf(Front) = EndOf(new)
         /\ Predecessors(new) = {} => Front = new
         /\ \A p \in done : Predecessors(new) = {p} => Front = Seg(p.start, EndOf(new)) /\ Front.start = p.start
         /\ new \notin done => Front \notin done \ Predecessors(new)
<1>1. CASE Predecessors(new) = {}
  <2>1. Front = Seg(new.start, EndOf(new)) BY <1>1 DEF Front
  <2>2. Front = new
    <3>1. Chunk(new) BY DEF MergeData
    <3>2. Seg(new.start, EndOf(new)) \in Segment /\ Seg(new.start, EndOf(new)).start = new.start
          /\ Seg(new.start, EndOf(new)).size = new.size
      <4>1. new.start \in Int /\ EndOf(new) \in Int /\ EndOf(new) - new.start = new.size
        BY <3>1, ChunkFacts
      <4> QED BY <4>1, SegEnds
    <3> QED BY <2>1, <3>1, <3>2, SameSegment DEF Chunk
  <2>3. Chunk(new) /\ new.start \in Nat BY ChunkFacts DEF MergeData
  <2> QED BY <1>1, <2>2, <2>3
<1>2. CASE Predecessors(new) # {}
  <2>1. PICK p \in done : /\ Predecessors(new) = {p} /\ (CHOOSE q \in Predecessors(new) : TRUE) = p
                          /\ Precedes(p, new) /\ EndOf(p) >= new.start
    BY <1>2, Neighbours
  <2>2. Front = Seg(p.start, EndOf(new)) BY <1>2, <2>1 DEF Front
  <2>3. /\ p.start \in Nat /\ new.start \in Nat /\ EndOf(new) \in Nat /\ p.start <= new.start
        /\ new.start < EndOf(new) /\ EndOf(new) <= Size
    BY <2>1, DoneFacts, ChunkFacts, SegmentOrder
  <2>4. Front.start = p.start /\ EndOf(Front) = EndOf(new) /\ Chunk(Front)
    <3>1. /\ Front \in Segment /\ Front.start = p.start /\ EndOf(Front) = EndOf(new)
          /\ Front.size = EndOf(new) - p.start
      <4>1. p.start \in Int /\ EndOf(new) \in Int BY <2>3
      <4> QED BY <2>2, <4>1, SegEnds
    <3> QED BY <2>3, <3>1 DEF Chunk
  <2>5. ASSUME Front \in done PROVE Front = p
    BY <2>1, <2>4, <2>5, DoneFacts, ChunkFacts
  <2> QED BY <2>1, <2>2, <2>3, <2>4, <2>5
<1> QED BY <1>1, <1>2

\* Nothing of what the pass works for changes while it runs.
LEMMA MergeDataKept ==
  ASSUME done' = done, new' = new
  PROVE  /\ MergeData <=> MergeData'
         /\ Predecessors(new)' = Predecessors(new) /\ Successors(new)' = Successors(new)
         /\ FrontMerged' = FrontMerged /\ DoneAfter(new)' = DoneAfter(new) /\ NewBytes(new)' = NewBytes(new)
<1>1. Predecessors(new)' = Predecessors(new) BY DEF Predecessors
<1>2. Successors(new)' = Successors(new) BY DEF Successors
<1>3. Merged(new)' = Merged(new) BY <1>1, <1>2 DEF Merged
<1>4. FrontMerged' = FrontMerged BY <1>1 DEF FrontMerged, Front
<1>5. DoneAfter(new)' = DoneAfter(new) BY <1>1, <1>2, <1>3 DEF DoneAfter
<1>6. NewBytes(new)' = NewBytes(new) BY <1>1, <1>2 DEF NewBytes
<1>7. MergeData <=> MergeData' BY DEF MergeData, Consolidated, Chunk, Segment
<1> QED BY <1>1, <1>2, <1>4, <1>5, <1>6, <1>7

LEMMA NonEmptyChunk ==
  ASSUME NEW s \in NonEmpty
  PROVE  Chunk(s)
<1>1. PICK x \in 0 .. Size, y \in 0 .. Size : s = Seg(x, y) BY DEF NonEmpty, AllSegments
<1>2. x \in Int /\ y \in Int /\ x >= 0 /\ y <= Size BY <1>1, SegmentsAssumption
<1>3. s.size > 0 BY DEF NonEmpty
<1> QED BY <1>1, <1>2, <1>3, SegEnds DEF Chunk

LEMMA RunsApart ==
  ASSUME NEW P
  PROVE  Consolidated(Runs(P)) /\ \A s \in Runs(P) : Chunk(s)
<1>2. \A s \in Runs(P) : Chunk(s) BY NonEmptyChunk DEF Runs
<1>3. ASSUME NEW s \in Runs(P), NEW t \in Runs(P), s.start <= t.start, s # t
      PROVE  EndOf(s) < t.start
  <2>1. /\ s.start \in Nat /\ EndOf(s) \in Nat /\ t.start \in Nat /\ EndOf(t) \in Nat
        /\ s.start < EndOf(s) /\ t.start < EndOf(t)
        /\ EndOf(s) = s.start + s.size /\ EndOf(t) = t.start + t.size
        /\ s.size \in Nat /\ t.size \in Nat
    BY <1>2, ChunkFacts
  <2>2. \A x \in s.start .. EndOf(s) - 1 : x \in P BY DEF Runs, Positions
  <2>3. \A x \in t.start .. EndOf(t) - 1 : x \in P BY DEF Runs, Positions
  <2>4. t.start - 1 \notin P /\ EndOf(s) \notin P /\ EndOf(t) \notin P BY DEF Runs
  <2>5. CASE s.start = t.start
    <3>1. s.size # t.size BY <1>2, <1>3, <2>5, SameSegment DEF Chunk
    <3>2. CASE EndOf(s) < EndOf(t)
      <4>1. EndOf(s) \in t.start .. EndOf(t) - 1 BY <2>1, <2>5, <3>2
      <4> QED BY <4>1, <2>3, <2>4
    <3>3. CASE EndOf(t) < EndOf(s)
      <4>1. EndOf(t) \in s.start .. EndOf(s) - 1 BY <2>1, <2>5, <3>3
      <4> QED BY <4>1, <2>2, <2>4
    <3> QED BY <2>1, <2>5, <3>1, <3>2, <3>3
  <2>6. CASE s.start < t.start
    <3> SUFFICES ASSUME t.start <= EndOf(s) PROVE FALSE BY <2>1
    <3>1. t.start - 1 \in s.start .. EndOf(s) - 1 BY <2>1, <2>6
    <3> QED BY <3>1, <2>2, <2>4
  <2> QED BY <1>3, <2>1, <2>5, <2>6
<1>4. ASSUME NEW s \in Runs(P), NEW t \in Runs(P)
      PROVE  s = t \/ EndOf(s) < t.start \/ EndOf(t) < s.start
  <2>1. s.start \in Nat /\ t.start \in Nat BY <1>2, ChunkFacts
  <2> QED BY <1>3, <2>1
<1>5. \A s \in Runs(P) : s.start >= 0 /\ s.size >= 0 /\ EndOf(s) <= Size BY <1>2, ChunkFacts
<1> QED BY <1>2, <1>4, <1>5 DEF Consolidated

LEMMA InitData ==
  ASSUME ItemInit
  PROVE  /\ Consolidated(done) /\ \A s \in done : Chunk(s)
         /\ done \subseteq Segment /\ attached \subseteq Conns /\ dl \in [Conns -> Download]
         /\ \A s \in NonEmpty : Chunk(s)
<1>1. PICK P : done = Runs(P) BY DEF ItemInit
<1>2. Consolidated(done) /\ \A s \in done : Chunk(s) BY <1>1, RunsApart
<1>3. \A s \in NonEmpty : Chunk(s) BY NonEmptyChunk
<1>4. dl \in [Conns -> Download]
  <2>1. NoDownload \in Download BY SegEnds DEF NoDownload, Download
  <2>2. \A s \in NonEmpty : [NoDownload EXCEPT !.type = "FILE", !.seg = s] \in Download
    BY <1>3, <2>1 DEF NoDownload, Download, Chunk
  <2> DEFINE Chosen == {NoDownload} \union {[NoDownload EXCEPT !.type = "FILE", !.seg = s] :
                                                s \in {s \in NonEmpty : Aligned(s)}}
  <2>3. dl \in [Conns -> Chosen] BY DEF ItemInit
  <2>4. Chosen \subseteq Download BY <2>1, <2>2
  <2> HIDE DEF Chosen
  <2> QED BY <2>3, <2>4
<1> QED BY <1>2, <1>3, <1>4 DEF ItemInit, Chunk

LEMMA MergedChunk ==
  ASSUME MergeData
  PROVE  /\ Chunk(Merged(new)) /\ Merged(new).start = Front.start
         /\ Successors(new) = {} => Merged(new) = Front
         /\ \A s \in done : Successors(new) = {s} => Merged(new) = Seg(Front.start, EndOf(s))
<1> DEFINE from == IF Predecessors(new) = {} THEN new.start ELSE (CHOOSE p \in Predecessors(new) : TRUE).start
           to == IF Successors(new) = {} THEN EndOf(new) ELSE EndOf(CHOOSE s \in Successors(new) : TRUE)
<1>1. Merged(new) = Seg(from, to) /\ Front = Seg(from, EndOf(new)) BY DEF Merged, Front
<1>2. from \in Nat /\ from <= new.start
  <2>1. Chunk(new) BY DEF MergeData
  <2>2. CASE Predecessors(new) = {} BY <2>1, <2>2, ChunkFacts
  <2>3. CASE Predecessors(new) # {}
    <3>1. PICK p \in done : /\ Predecessors(new) = {p} /\ (CHOOSE q \in Predecessors(new) : TRUE) = p
                            /\ Precedes(p, new) /\ EndOf(p) >= new.start
      BY <2>3, Neighbours
    <3> QED BY <2>3, <3>1, DoneFacts, ChunkFacts, SegmentOrder
  <2> QED BY <2>2, <2>3
<1>3. to \in Nat /\ to <= Size /\ new.start < to
  <2>1. Chunk(new) BY DEF MergeData
  <2>2. CASE Successors(new) = {} BY <2>1, <2>2, ChunkFacts
  <2>3. CASE Successors(new) # {}
    <3>1. PICK s \in done : /\ Successors(new) = {s} /\ (CHOOSE q \in Successors(new) : TRUE) = s
                            /\ Precedes(new, s) /\ EndOf(new) >= s.start
      BY <2>3, Neighbours
    <3> QED BY <2>3, <3>1, DoneFacts, ChunkFacts, SegmentOrder
  <2> QED BY <2>2, <2>3
<1>4. new.start \in Nat /\ EndOf(new) \in Nat BY ChunkFacts DEF MergeData
<1>5. Front.start = from
  <2>1. from \in Int /\ EndOf(new) \in Int BY <1>2, <1>4
  <2> HIDE DEF from
  <2> QED BY <1>1, <2>1, SegEnds
<1>6. \A s \in done : Successors(new) = {s} => to = EndOf(s) OBVIOUS
<1>7. Successors(new) = {} => to = EndOf(new) OBVIOUS
<1> HIDE DEF from, to
<1>8. from \in Int /\ to \in Int BY <1>2, <1>3
<1>9. /\ Merged(new) \in Segment /\ Merged(new).start = from /\ EndOf(Merged(new)) = to
      /\ Merged(new).size = to - from
  BY <1>1, <1>8, SegEnds
<1> QED BY <1>1, <1>2, <1>3, <1>4, <1>5, <1>6, <1>7, <1>9 DEF Chunk

LEMMA SegmentsChunks ==
  ASSUME MergeInv
  PROVE  \A s \in segments : Chunk(s)
BY DoneFacts, FrontFacts, MergedChunk
   DEF MergeInv, AtFront, AtBack, PassedBack, FrontMerged, DoneAfter

LEMMA MergeStarts ==
  ASSUME ItemInit, MergeInit
  PROVE  MergeInv
<1>1. MergeData BY InitData DEF MergeInit, MergeData
<1>2. segments = done \union {new} /\ bytes = {} /\ i = After(segments, First(segments)) BY DEF MergeInit
<1>3. \A s \in segments : Chunk(s) BY <1>1, <1>2, DoneFacts
<1>4. First(segments) \in segments /\ \A u \in segments : u = First(segments) \/ Precedes(First(segments), u)
  BY <1>2, <1>3, FirstOne
<1>5. \/ i = None /\ \A t \in segments : ~Precedes(First(segments), t)
      \/ /\ i \in segments /\ Precedes(First(segments), i)
         /\ \A t \in segments : Precedes(First(segments), t) => t = i \/ Precedes(i, t)
  BY <1>2, <1>3, NextOne
<1>6. i = None \/ (i \in segments /\ i \in done \union {new} /\ \E u \in segments : Precedes(u, i))
  BY <1>2, <1>4, <1>5
<1>7. CASE new \in done BY <1>1, <1>2, <1>6, <1>7 DEF MergeInv
<1>8. CASE new \notin done /\ i # None /\ ~Precedes(new, i)
  BY <1>1, <1>2, <1>6, <1>8 DEF MergeInv, AtFront
<1>9. CASE new \notin done /\ First(segments) = new
  <2>1. Predecessors(new) = {}
    <3> SUFFICES ASSUME NEW p \in Predecessors(new) PROVE FALSE OBVIOUS
    <3>1. p \in segments /\ Precedes(p, new) BY <1>2 DEF Predecessors
    <3> QED BY <1>1, <1>2, <1>3, <1>4, <1>9, <3>1, SegmentOrder
  <2>2. segments = FrontMerged BY <1>1, <1>2, <2>1, FrontFacts DEF FrontMerged
  <2>3. CASE i = None
    <3>1. Successors(new) = {} BY <1>2, <1>5, <1>9, <2>3, <1>3, NotNone DEF Successors
    <3>2. DoneAfter(new) = FrontMerged BY <1>1, <1>9, <3>1, MergedChunk DEF DoneAfter, FrontMerged
    <3> QED BY <1>1, <1>2, <1>6, <1>9, <2>1, <2>2, <2>3, <3>1, <3>2 DEF MergeInv, PassedBack
  <2>4. CASE i # None
    <3>1. i \in done /\ Precedes(new, i)
      BY <1>2, <1>3, <1>5, <1>9, <2>4, SegmentOrder
    <3>2. AtBack BY <1>2, <1>5, <1>9, <2>1, <2>2, <2>4, <3>1 DEF AtBack
    <3> QED BY <1>1, <1>6, <1>9, <3>2 DEF MergeInv
  <2> QED BY <2>3, <2>4
<1>10. CASE new \notin done /\ First(segments) # new
  <2>1. Precedes(First(segments), new) BY <1>2, <1>4, <1>10
  <2>2. i # None /\ (new = i \/ Precedes(i, new)) BY <1>2, <1>3, <1>5, <2>1, NotNone
  <2>3. ~Precedes(new, i) BY <1>2, <1>3, <1>5, <2>2, SegmentOrder
  <2> QED BY <1>8, <1>10, <2>2, <2>3
<1> QED BY <1>7, <1>9, <1>10

\* What one round does, for the element before the one at the iterator.
LEMMA MergeRound ==
  ASSUME MergeInv, MergeStep
  PROVE  \E prev \in segments :
            /\ i \in segments /\ i \in done \union {new} /\ Chunk(i) /\ Chunk(prev) /\ Precedes(prev, i)
            /\ \A u \in segments : Precedes(u, i) => u = prev \/ Precedes(u, prev)
            /\ EndOf(prev) >= i.start =>
                  /\ segments' = (segments \ {prev, i}) \union {Seg(prev.start, EndOf(i))}
                  /\ bytes' = IF bytes = {}
                              THEN {EndOf(i) - prev.start - (IF prev = new THEN i.size ELSE prev.size)}
                              ELSE bytes
            /\ EndOf(prev) < i.start => segments' = segments /\ bytes' = bytes
            /\ i' = After(segments, i) /\ done' = done /\ new' = new /\ loop' = loop
<1>1. i # None /\ i \in segments /\ i \in done \union {new} BY DEF MergeInv, MergeStep
<1>2. \A s \in segments : Chunk(s) BY SegmentsChunks
<1>3. PICK u \in segments : Precedes(u, i) BY <1>1 DEF MergeInv
<1> DEFINE prev == Before(segments, i)
<1>4. /\ prev \in segments /\ Precedes(prev, i)
      /\ \A t \in segments : Precedes(t, i) => t = prev \/ Precedes(t, prev)
  BY <1>1, <1>2, <1>3, PreviousOne
<1>5. Seg(prev.start, EndOf(i)).size = EndOf(i) - prev.start BY DEF Seg
<1>6. EndOf(prev) \in Nat /\ i.start \in Nat BY <1>1, <1>2, <1>4, ChunkFacts
<1>7. /\ EndOf(prev) >= i.start =>
           /\ segments' = (segments \ {prev, i}) \union {Seg(prev.start, EndOf(i))}
           /\ bytes' = IF bytes = {}
                       THEN {EndOf(i) - prev.start - (IF prev = new THEN i.size ELSE prev.size)}
                       ELSE bytes
      /\ ~(EndOf(prev) >= i.start) => segments' = segments /\ bytes' = bytes
  BY <1>5, Zenon DEF MergeStep
<1>8. i' = After(segments, i) /\ done' = done /\ new' = new /\ loop' = loop
  BY DEF MergeStep, vars
<1> HIDE DEF prev
<1> QED BY <1>1, <1>2, <1>4, <1>6, <1>7, <1>8

\* The element after the one at the iterator has one before it.
LEMMA NextHasOneBefore ==
  ASSUME MergeInv, MergeStep, segments' = segments
  PROVE  i' = None \/ (i' \in segments /\ \E u \in segments : Precedes(u, i'))
BY MergeRound, SegmentsChunks, NextOne

\* No two of the finished segments touch, so the ones before the new one stay.
LEMMA MergeKnownStep ==
  ASSUME MergeInv, MergeStep, new \in done
  PROVE  MergeInv'
<1>1. MergeData /\ segments = done /\ bytes = {} BY DEF MergeInv
<1>2. PICK prev \in segments :
            /\ i \in done /\ Chunk(i) /\ Chunk(prev) /\ Precedes(prev, i)
            /\ EndOf(prev) < i.start => segments' = segments /\ bytes' = bytes
            /\ i' = After(segments, i) /\ done' = done /\ new' = new
  BY <1>1, MergeRound
<1>3. EndOf(prev) < i.start BY <1>1, <1>2, DoneFacts
<1>4. i' = None \/ (i' \in segments /\ \E u \in segments : Precedes(u, i'))
  BY <1>2, <1>3, NextHasOneBefore
<1> QED BY <1>1, <1>2, <1>3, <1>4, MergeDataKept DEF MergeInv

LEMMA AtFrontStep ==
  ASSUME MergeInv, MergeStep, new \notin done, AtFront, i # new
  PROVE  MergeInv'
<1>1. MergeData /\ segments = done \union {new} /\ bytes = {} /\ ~Precedes(new, i) /\ Chunk(new)
  BY DEF MergeInv, AtFront, MergeData
<1>2. PICK prev \in segments :
            /\ i \in done \union {new} /\ Chunk(i) /\ Chunk(prev) /\ Precedes(prev, i)
            /\ EndOf(prev) < i.start => segments' = segments /\ bytes' = bytes
            /\ i' = After(segments, i) /\ done' = done /\ new' = new
  BY MergeRound
<1>3. i \in done /\ prev \in done BY <1>1, <1>2
<1>4. EndOf(prev) < i.start BY <1>1, <1>2, <1>3, DoneFacts
<1>5. i' = None \/ (i' \in segments /\ \E u \in segments : Precedes(u, i'))
  BY <1>2, <1>4, NextHasOneBefore
<1>6. Precedes(i, new) BY <1>1, <1>2, SegmentOrder
<1>7. i' # None /\ (new = i' \/ Precedes(i', new))
  <2>1. \A s \in segments : Chunk(s) BY SegmentsChunks
  <2> QED BY <1>1, <1>2, <1>6, <2>1, NextOne, NotNone
<1>8. ~Precedes(new, i')
  <2>1. Chunk(i') BY <1>5, <1>7, SegmentsChunks
  <2> QED BY <1>1, <1>7, <2>1, SegmentOrder
<1>9. AtFront' BY <1>1, <1>2, <1>4, <1>7, <1>8 DEF AtFront, Precedes
<1> QED BY <1>1, <1>2, <1>4, <1>5, <1>9, MergeDataKept DEF MergeInv

\* At the new segment, its predecessor is merged with it.
LEMMA AtNewStep ==
  ASSUME MergeInv, MergeStep, new \notin done, AtFront, i = new
  PROVE  MergeInv'
<1>1. MergeData /\ segments = done \union {new} /\ bytes = {} /\ Chunk(new)
  BY DEF MergeInv, AtFront, MergeData
<1>2. PICK prev \in segments :
            /\ Chunk(prev) /\ Precedes(prev, i)
            /\ \A u \in segments : Precedes(u, i) => u = prev \/ Precedes(u, prev)
            /\ EndOf(prev) >= i.start =>
                  /\ segments' = (segments \ {prev, i}) \union {Seg(prev.start, EndOf(i))}
                  /\ bytes' = IF bytes = {}
                              THEN {EndOf(i) - prev.start - (IF prev = new THEN i.size ELSE prev.size)}
                              ELSE bytes
            /\ EndOf(prev) < i.start => segments' = segments /\ bytes' = bytes
            /\ i' = After(segments, i) /\ done' = done /\ new' = new
  BY MergeRound
<1>3. prev \in done /\ prev # new BY <1>1, <1>2, SegmentOrder
<1>4. EndOf(prev) \in Nat /\ new.start \in Nat BY <1>1, <1>2, ChunkFacts
<1>5. ASSUME EndOf(prev) >= new.start
      PROVE  segments' = FrontMerged /\ bytes' = IF Predecessors(new) = {} THEN {} ELSE {NewBytes(new)}
  <2>1. prev \in Predecessors(new) BY <1>2, <1>3, <1>5 DEF Predecessors
  <2>2. Predecessors(new) = {prev} BY <1>1, <2>1, Neighbours
  <2>3. (CHOOSE p \in Predecessors(new) : TRUE) = prev BY <2>2
  <2>4. Front = Seg(prev.start, EndOf(new)) BY <1>1, <1>3, <2>2, FrontFacts
  <2>5. segments' = FrontMerged BY <1>1, <1>2, <1>5, <2>2, <2>4 DEF FrontMerged, AtFront
  <2>6. NewBytes(new) = EndOf(new) - prev.start - prev.size BY <2>2, <2>3 DEF NewBytes, AtFront
  <2>7. bytes' = {NewBytes(new)} BY <1>1, <1>2, <1>3, <1>5, <2>6 DEF AtFront
  <2> QED BY <2>2, <2>5, <2>7
<1>6. ASSUME EndOf(prev) < new.start
      PROVE  segments' = FrontMerged /\ bytes' = IF Predecessors(new) = {} THEN {} ELSE {NewBytes(new)}
  <2>1. Predecessors(new) = {}
    <3> SUFFICES ASSUME NEW p \in Predecessors(new) PROVE FALSE OBVIOUS
    <3>1. p \in done /\ Precedes(p, new) /\ EndOf(p) >= new.start BY DEF Predecessors
    <3>2. p # prev BY <1>4, <1>6, <3>1
    <3>3. Precedes(p, prev) BY <1>1, <1>2, <3>1, <3>2
    <3>4. EndOf(p) < prev.start BY <1>1, <1>3, <3>1, <3>3, DoneFacts
    <3>5. EndOf(p) \in Nat /\ prev.start \in Nat /\ prev.start <= new.start
      BY <1>1, <1>2, <3>1, DoneFacts, ChunkFacts, SegmentOrder
    <3> QED BY <1>4, <3>1, <3>4, <3>5
  <2>2. segments' = FrontMerged BY <1>1, <1>2, <1>6, <2>1, FrontFacts DEF FrontMerged
  <2> QED BY <1>1, <1>2, <1>6, <2>1, <2>2
<1>7. segments' = FrontMerged /\ bytes' = IF Predecessors(new) = {} THEN {} ELSE {NewBytes(new)}
  BY <1>4, <1>5, <1>6
<1>8. \A s \in done \union {new} : Chunk(s) BY <1>1, DoneFacts
<1>9. \/ i' = None /\ \A t \in segments : ~Precedes(new, t)
      \/ /\ i' \in segments /\ Precedes(new, i')
         /\ \A t \in segments : Precedes(new, t) => t = i' \/ Precedes(i', t)
  BY <1>1, <1>2, <1>8, NextOne
<1>10. CASE i' = None
  <2>1. Successors(new) = {} BY <1>1, <1>8, <1>9, <1>10, NotNone DEF Successors
  <2>2. DoneAfter(new) = FrontMerged BY <1>1, <2>1, MergedChunk DEF DoneAfter, FrontMerged, AtFront
  <2> QED BY <1>1, <1>2, <1>7, <1>10, <2>1, <2>2, MergeDataKept DEF MergeInv, PassedBack
<1>11. CASE i' # None
  <2>1. /\ i' \in done /\ Precedes(new, i')
        /\ \A t \in done : Precedes(new, t) => t = i' \/ Precedes(i', t)
    BY <1>1, <1>8, <1>9, <1>11, SegmentOrder
  <2>2. i' \notin Predecessors(new) BY <1>1, <1>8, <2>1, SegmentOrder DEF Predecessors
  <2>3. i' \in FrontMerged BY <2>1, <2>2 DEF FrontMerged
  <2>4. Precedes(Front, i')
    <3>1. CASE Predecessors(new) = {} BY <1>1, <2>1, <3>1, FrontFacts
    <3>2. CASE Predecessors(new) # {}
      <4>1. PICK p \in done : Predecessors(new) = {p} /\ Precedes(p, new) BY <1>1, <3>2, Neighbours
      <4>2. Precedes(p, i') BY <1>1, <1>8, <2>1, <4>1, SegmentOrder
      <4>3. EndOf(p) < i'.start BY <1>1, <2>1, <4>1, <4>2, DoneFacts
      <4>4. Front.start = p.start BY <1>1, <4>1, FrontFacts
      <4> QED BY <1>8, <2>1, <4>3, <4>4, ChunkFacts DEF Precedes
    <3> QED BY <3>1, <3>2
  <2>5. AtBack' BY <1>2, <1>7, <2>1, MergeDataKept DEF AtBack, Precedes
  <2>6. Front \in segments' BY <1>7 DEF FrontMerged
  <2>7. i' \in segments' /\ \E u \in segments' : Precedes(u, i') BY <1>7, <2>3, <2>4, <2>6
  <2> QED BY <1>1, <1>2, <2>1, <2>5, <2>7, MergeDataKept DEF MergeInv, Precedes
<1> QED BY <1>10, <1>11

\* At the first of the later segments, the merged front is the one before it.
LEMMA AtBackStep ==
  ASSUME MergeInv, MergeStep, new \notin done, AtBack
  PROVE  MergeInv'
<1>1. /\ MergeData /\ segments = FrontMerged /\ Chunk(new) /\ i \in done /\ Precedes(new, i)
      /\ \A t \in done : Precedes(new, t) => t = i \/ Precedes(i, t)
      /\ bytes = IF Predecessors(new) = {} THEN {} ELSE {NewBytes(new)}
  BY DEF MergeInv, AtBack, MergeData
<1>2. PICK prev \in segments :
            /\ Chunk(i) /\ Chunk(prev) /\ Precedes(prev, i) /\ i \in segments
            /\ \A u \in segments : Precedes(u, i) => u = prev \/ Precedes(u, prev)
            /\ EndOf(prev) >= i.start =>
                  /\ segments' = (segments \ {prev, i}) \union {Seg(prev.start, EndOf(i))}
                  /\ bytes' = IF bytes = {}
                              THEN {EndOf(i) - prev.start - (IF prev = new THEN i.size ELSE prev.size)}
                              ELSE bytes
            /\ EndOf(prev) < i.start => segments' = segments /\ bytes' = bytes
            /\ i' = After(segments, i) /\ done' = done /\ new' = new
  BY MergeRound
<1>3. \A s \in done \union {new} : Chunk(s) BY <1>1, DoneFacts
<1>4. Chunk(Front) /\ EndOf(Front) = EndOf(new) /\ Front.start <= new.start /\ Front \in segments
  BY <1>1, FrontFacts DEF FrontMerged
<1>5. Precedes(Front, i)
  <2>1. CASE Predecessors(new) = {} BY <1>1, <2>1, FrontFacts
  <2>2. CASE Predecessors(new) # {}
    <3>1. PICK p \in done : Predecessors(new) = {p} /\ Precedes(p, new) BY <1>1, <2>2, Neighbours
    <3>2. Precedes(p, i) BY <1>1, <1>3, <3>1, SegmentOrder
    <3>3. EndOf(p) < i.start BY <1>1, <3>1, <3>2, DoneFacts
    <3>4. Front.start = p.start BY <1>1, <3>1, FrontFacts
    <3> QED BY <1>1, <1>3, <3>1, <3>3, <3>4, ChunkFacts DEF Precedes
  <2> QED BY <2>1, <2>2
<1>6. prev = Front
  <2> SUFFICES ASSUME prev # Front PROVE FALSE OBVIOUS
  <2>1. Precedes(Front, prev) BY <1>2, <1>4, <1>5
  <2>2. prev \in done /\ prev \notin Predecessors(new) BY <1>1, <1>2 DEF FrontMerged
  <2>3. Precedes(prev, new) BY <1>1, <1>2, <1>3, <2>2, SegmentOrder
  <2>4. EndOf(prev) < new.start BY <1>3, <2>2, <2>3, ChunkFacts DEF Predecessors
  <2>5. CASE Predecessors(new) = {}
    <3>1. Precedes(new, prev) BY <1>1, <2>1, <2>5, FrontFacts
    <3> QED BY <1>2, <1>3, <2>3, <3>1, SegmentOrder
  <2>6. CASE Predecessors(new) # {}
    <3>1. PICK p \in done : Predecessors(new) = {p} /\ EndOf(p) >= new.start /\ Front.start = p.start
      BY <1>1, <2>6, Neighbours, FrontFacts
    <3>2. EndOf(p) < prev.start \/ EndOf(prev) < p.start BY <1>1, <2>2, <3>1, DoneFacts
    <3>3. p.start <= prev.start BY <1>2, <1>4, <2>1, <3>1, SegmentOrder
    <3>4. /\ EndOf(p) \in Nat /\ EndOf(prev) \in Nat /\ prev.start < EndOf(prev) /\ new.start \in Nat
          /\ p.start \in Nat /\ prev.start \in Nat
      BY <1>2, <1>3, <3>1, ChunkFacts
    <3> QED BY <2>4, <3>1, <3>2, <3>3, <3>4
  <2> QED BY <2>5, <2>6
<1>7. EndOf(new) \in Nat /\ i.start \in Nat BY <1>1, <1>2, ChunkFacts
<1> DEFINE All == Predecessors(new) \union Successors(new)
<1> DEFINE Result == /\ segments' = DoneAfter(new)
                     /\ bytes' = IF All = {} THEN {} ELSE {NewBytes(new)}
<1>8. ASSUME EndOf(new) >= i.start PROVE Result
  <2>1. i \in Successors(new) BY <1>1, <1>3, <1>8, SegmentOrder DEF Successors
  <2>2. Successors(new) = {i} BY <1>1, <2>1, Neighbours
  <2>3. (CHOOSE s \in Successors(new) : TRUE) = i BY <2>2
  <2>4. Merged(new) = Seg(Front.start, EndOf(i)) BY <1>1, <2>2, MergedChunk
  <2>5. segments' = ((FrontMerged \ {Front}) \ {i}) \union {Merged(new)} BY <1>1, <1>2, <1>4, <1>6, <1>8, <2>4
  <2>6. FrontMerged \ {Front} = done \ Predecessors(new) BY <1>1, FrontFacts DEF FrontMerged
  <2>7. segments' = DoneAfter(new) BY <2>2, <2>5, <2>6 DEF DoneAfter
  <2>8. bytes' = {NewBytes(new)}
    <3>1. CASE Predecessors(new) = {}
      <4>1. Front = new BY <1>1, <3>1, FrontFacts
      <4>2. NewBytes(new) = EndOf(i) - new.start - i.size BY <2>2, <2>3, <3>1 DEF NewBytes
      <4> QED BY <1>1, <1>2, <1>4, <1>6, <1>8, <3>1, <4>1, <4>2
    <3>2. CASE Predecessors(new) # {} BY <1>1, <1>2, <1>4, <1>6, <1>8, <3>2
    <3> QED BY <3>1, <3>2
  <2> QED BY <2>2, <2>7, <2>8
<1>9. ASSUME EndOf(new) < i.start PROVE Result
  <2>1. Successors(new) = {}
    <3> SUFFICES ASSUME NEW s \in Successors(new) PROVE FALSE OBVIOUS
    <3>1. s \in done /\ Precedes(new, s) /\ EndOf(new) >= s.start BY DEF Successors
    <3>2. s = i \/ Precedes(i, s) BY <1>1, <3>1
    <3>3. i.start <= s.start BY <1>2, <1>3, <3>1, <3>2, SegmentOrder, ChunkFacts
    <3>4. s.start \in Nat BY <1>3, <3>1, ChunkFacts
    <3> QED BY <1>7, <1>9, <3>1, <3>3, <3>4
  <2>2. DoneAfter(new) = FrontMerged BY <1>1, <2>1, MergedChunk DEF DoneAfter, FrontMerged
  <2> QED BY <1>1, <1>2, <1>4, <1>6, <1>9, <2>1, <2>2
<1>10. Result BY <1>7, <1>8, <1>9
<1>11. \/ i' = None /\ \A t \in segments : ~Precedes(i, t)
       \/ /\ i' \in segments /\ Precedes(i, i')
          /\ \A t \in segments : Precedes(i, t) => t = i' \/ Precedes(i', t)
  <2>1. \A s \in segments : Chunk(s) BY SegmentsChunks
  <2> QED BY <1>2, <2>1, NextOne
<1>12. ASSUME i' # None PROVE i' \in done /\ i' \in segments' /\ \E u \in segments' : Precedes(u, i')
  <2>1. i' \in segments /\ Precedes(i, i') BY <1>11, <1>12
  <2>2. i' # Front BY <1>2, <1>4, <1>5, <2>1, SegmentOrder
  <2>3. i' \in done /\ i' \notin Predecessors(new) BY <1>1, <2>1, <2>2 DEF FrontMerged
  <2>4. EndOf(i) < i'.start BY <1>1, <2>1, <2>3, DoneFacts
  <2>5. i' \notin Successors(new)
    <3> SUFFICES ASSUME i' \in Successors(new) PROVE FALSE OBVIOUS
    <3> QED BY <1>1, <2>1 DEF Successors
  <2>6. i' \in DoneAfter(new) BY <2>3, <2>5 DEF DoneAfter
  <2>7. Merged(new) \in DoneAfter(new) BY DEF DoneAfter
  <2>8. Precedes(Merged(new), i')
    <3>1. Merged(new).start = Front.start /\ Chunk(Merged(new)) BY <1>1, MergedChunk
    <3>2. Front.start <= i.start BY <1>2, <1>4, <1>5, SegmentOrder
    <3>3. i.start < EndOf(i) /\ i.start \in Nat /\ EndOf(i) \in Nat /\ i'.start \in Nat /\ Front.start \in Nat
      BY <1>2, <1>3, <1>4, <2>3, ChunkFacts
    <3>4. Merged(new).start < i'.start BY <2>4, <3>1, <3>2, <3>3
    <3> QED BY <3>4 DEF Precedes
  <2> QED BY <1>10, <2>3, <2>6, <2>7, <2>8
<1>13. i' # None => \E t \in done : Precedes(new, t) /\ Precedes(t, i')
  BY <1>1, <1>2, <1>11, <1>12
<1>14. PassedBack'
  <2>1. i' # None => i' \in done /\ \E t \in done : Precedes(new, t) /\ Precedes(t, i') BY <1>12, <1>13
  <2> HIDE DEF All, Result
  <2>2. segments' = DoneAfter(new) /\ bytes' = IF All = {} THEN {} ELSE {NewBytes(new)}
    BY <1>10 DEF Result
  <2> QED BY <1>2, <2>1, <2>2, MergeDataKept DEF PassedBack, Precedes, All
<1> QED BY <1>1, <1>2, <1>12, <1>14, MergeDataKept DEF MergeInv, Precedes

\* Behind it nothing touches any more.
LEMMA PassedBackStep ==
  ASSUME MergeInv, MergeStep, new \notin done, PassedBack
  PROVE  MergeInv'
<1>1. MergeData /\ segments = DoneAfter(new) /\ i \in done
      /\ \E t \in done : Precedes(new, t) /\ Precedes(t, i)
  BY DEF MergeInv, PassedBack, MergeStep
<1>2. PICK prev \in segments :
            /\ Chunk(i) /\ Chunk(prev) /\ Precedes(prev, i) /\ i \in segments
            /\ EndOf(prev) < i.start => segments' = segments /\ bytes' = bytes
            /\ i' = After(segments, i) /\ done' = done /\ new' = new
  BY MergeRound
<1>3. Consolidated(DoneAfter(new))
  <2>1. new \in Segment /\ new.start >= 0 /\ new.size >= 0 /\ EndOf(new) <= Size
    BY <1>1, ChunkFacts DEF MergeData, Chunk
  <2> QED BY <1>1, <2>1, DoneFacts, MergeConsolidates, SegmentsAssumption DEF MergeData
<1>4. EndOf(prev) < i.start
  <2>1. prev # i BY <1>2, SegmentOrder
  <2>2. EndOf(prev) < i.start \/ EndOf(i) < prev.start BY <1>1, <1>2, <1>3, <2>1 DEF Consolidated
  <2>3. prev.start <= i.start BY <1>2, SegmentOrder
  <2> QED BY <1>2, <2>2, <2>3, ChunkFacts
<1>5. i' = None \/ (i' \in segments /\ \E u \in segments : Precedes(u, i'))
  BY <1>2, <1>4, NextHasOneBefore
<1>6. PICK t \in done : Precedes(new, t) /\ Precedes(t, i) BY <1>1
<1>7. \A s \in done \union {new} : Chunk(s) BY <1>1, DoneFacts
<1>8. ASSUME i' # None PROVE i' \in done /\ Precedes(t, i')
  <2>1. i' \in segments /\ Precedes(i, i')
    <3>1. \A s \in segments : Chunk(s) BY SegmentsChunks
    <3> QED BY <1>2, <1>8, <3>1, NextOne
  <2>2. i' \in done
    <3> SUFFICES ASSUME i' = Merged(new) PROVE FALSE BY <1>1, <2>1 DEF DoneAfter
    <3>1. Merged(new).start <= new.start /\ Chunk(Merged(new)) BY <1>1, MergedChunk, FrontFacts
    <3>2. new.start <= t.start /\ EndOf(t) < i.start /\ i.start <= i'.start
      <4>1. new.start <= t.start BY <1>6, <1>7, SegmentOrder
      <4>2. EndOf(t) < i.start BY <1>1, <1>6, DoneFacts
      <4>3. i.start <= i'.start BY <1>2, <2>1, <3>1, SegmentOrder
      <4> QED BY <4>1, <4>2, <4>3
    <3> QED BY <1>2, <1>6, <1>7, <3>1, <3>2, ChunkFacts
  <2>3. Precedes(t, i') BY <1>2, <1>6, <1>7, <2>1, <2>2, SegmentOrder
  <2> QED BY <2>2, <2>3
<1>9. PassedBack' BY <1>1, <1>2, <1>4, <1>6, <1>8, MergeDataKept DEF PassedBack, Precedes
<1> QED BY <1>1, <1>2, <1>4, <1>5, <1>8, <1>9, MergeDataKept DEF MergeInv, Precedes

LEMMA MergeStepInv ==
  ASSUME MergeInv, MergeStep
  PROVE  MergeInv'
BY MergeKnownStep, AtFrontStep, AtNewStep, AtBackStep, PassedBackStep DEF MergeInv

LEMMA MergeEnds ==
  ASSUME MergeInv, i = None
  PROVE  segments = DoneAfter(new) /\ (IF bytes = {} THEN {new.size} ELSE bytes) = {NewBytes(new)}
<1>1. CASE new \in done BY <1>1 DEF MergeInv, AtFront, AtBack, PassedBack, DoneAfter, NewBytes
<1>2. CASE new \notin done
  <2>1. PassedBack
    <3>1. MergeData => None \notin done BY DoneFacts, NotNone
    <3> QED BY <1>2, <3>1 DEF MergeInv, AtFront, AtBack
  <2>2. Predecessors(new) \union Successors(new) = {} => NewBytes(new) = new.size BY DEF NewBytes
  <2> QED BY <2>1, <2>2 DEF PassedBack
<1> QED BY <1>1, <1>2

\* A segment outside the finished ones only touches its neighbours.
LEMMA MergeOfNew ==
  ASSUME MergeData, \A s \in done : ~Intersect(s, new)
  PROVE  /\ Consolidated(DoneAfter(new)) /\ NewBytes(new) = new.size
         /\ PositionsOf(DoneAfter(new)) = DonePositions \union Positions(new)
<1>1. Chunk(new) /\ new \in Segment BY DEF MergeData, Chunk
<1>2. \A s \in done \union {new} : Chunk(s) BY DoneFacts
<1>3. new \notin done BY <1>1, ChunkFacts DEF Intersect
<1>4. ASSUME NEW p \in done, Precedes(p, new), EndOf(p) >= new.start PROVE EndOf(p) = new.start
  <2>1. ~Intersect(p, new) OBVIOUS
  <2>2. p.start <= new.start BY <1>2, <1>4, SegmentOrder
  <2> QED BY <1>1, <1>2, <1>4, <2>1, <2>2, ChunkFacts DEF Intersect
<1>5. ASSUME NEW s \in done, Precedes(new, s), EndOf(new) >= s.start PROVE s.start = EndOf(new)
  <2>1. ~Intersect(s, new) OBVIOUS
  <2>2. new.start <= s.start BY <1>2, <1>5, SegmentOrder
  <2> QED BY <1>1, <1>2, <1>5, <2>1, <2>2, ChunkFacts DEF Intersect
<1>6. Consolidated(DoneAfter(new))
  <2>1. new.start >= 0 /\ new.size >= 0 /\ EndOf(new) <= Size BY <1>1, ChunkFacts
  <2> QED BY <1>1, <2>1, DoneFacts, MergeConsolidates, SegmentsAssumption DEF MergeData
<1>7. NewBytes(new) = new.size
  <2>1. CASE Predecessors(new) # {}
    <3>1. PICK p \in done : /\ Predecessors(new) = {p} /\ (CHOOSE q \in Predecessors(new) : TRUE) = p
                            /\ Precedes(p, new) /\ EndOf(p) >= new.start
      BY <2>1, Neighbours
    <3>2. NewBytes(new) = EndOf(new) - p.start - p.size BY <1>3, <3>1 DEF NewBytes
    <3>3. EndOf(p) = new.start BY <1>4, <3>1
    <3> QED BY <1>1, <1>2, <3>1, <3>2, <3>3, ChunkFacts
  <2>2. CASE Predecessors(new) = {} /\ Successors(new) # {}
    <3>1. PICK s \in done : /\ Successors(new) = {s} /\ (CHOOSE q \in Successors(new) : TRUE) = s
                            /\ Precedes(new, s) /\ EndOf(new) >= s.start
      BY <2>2, Neighbours
    <3>2. NewBytes(new) = EndOf(s) - new.start - s.size BY <1>3, <2>2, <3>1 DEF NewBytes
    <3>3. s.start = EndOf(new) BY <1>5, <3>1
    <3> QED BY <1>1, <1>2, <3>1, <3>2, <3>3, ChunkFacts
  <2>3. CASE Predecessors(new) = {} /\ Successors(new) = {} BY <2>3 DEF NewBytes
  <2> QED BY <2>1, <2>2, <2>3
<1>8. Merged(new).start <= new.start /\ EndOf(new) <= EndOf(Merged(new)) /\ Merged(new) \in DoneAfter(new)
  <2>1. Merged(new).start <= new.start BY MergedChunk, FrontFacts
  <2>2. CASE Successors(new) = {}
    <3>1. EndOf(Merged(new)) = EndOf(new) BY <2>2, MergedChunk, FrontFacts
    <3> QED BY <1>1, <1>3, <2>1, <3>1, ChunkFacts DEF DoneAfter
  <2>3. CASE Successors(new) # {}
    <3>1. PICK s \in done : Successors(new) = {s} /\ Precedes(new, s) /\ EndOf(new) >= s.start
      BY <2>3, Neighbours
    <3>2. Merged(new) = Seg(Front.start, EndOf(s)) BY <3>1, MergedChunk
    <3>3. Front.start \in Int /\ EndOf(s) \in Int BY <1>2, <3>1, FrontFacts, ChunkFacts
    <3>4. EndOf(Merged(new)) = EndOf(s) BY <3>2, <3>3, SegEnds
    <3>5. s.start = EndOf(new) BY <1>5, <3>1
    <3> QED BY <1>1, <1>2, <1>3, <2>1, <3>1, <3>4, <3>5, ChunkFacts DEF DoneAfter
  <2> QED BY <2>2, <2>3
<1>9. ASSUME NEW s \in done PROVE \E t \in DoneAfter(new) : t.start <= s.start /\ EndOf(s) <= EndOf(t)
  <2>1. CASE s \in Predecessors(new)
    <3>1. Predecessors(new) = {s} /\ EndOf(s) >= new.start /\ Precedes(s, new) BY <2>1, Neighbours
    <3>2. EndOf(s) = new.start /\ Merged(new).start = s.start BY <1>4, <3>1, FrontFacts, MergedChunk
    <3>3. new.start < EndOf(new) BY <1>1, ChunkFacts
    <3>4. Chunk(Merged(new)) BY MergedChunk
    <3> QED BY <1>1, <1>2, <1>8, <3>2, <3>3, <3>4, ChunkFacts
  <2>2. CASE s \in Successors(new)
    <3>1. Successors(new) = {s} /\ EndOf(new) >= s.start /\ Precedes(new, s) BY <2>2, Neighbours
    <3>2. Merged(new) = Seg(Front.start, EndOf(s)) BY <3>1, MergedChunk
    <3>3. Front.start \in Int /\ EndOf(s) \in Int BY <1>2, FrontFacts, ChunkFacts
    <3>4. EndOf(Merged(new)) = EndOf(s) BY <3>2, <3>3, SegEnds
    <3>5. new.start <= s.start BY <1>2, <3>1, SegmentOrder
    <3>6. Chunk(Merged(new)) BY MergedChunk
    <3> QED BY <1>1, <1>2, <1>8, <3>4, <3>5, <3>6, ChunkFacts
  <2>3. CASE s \notin Predecessors(new) \union Successors(new)
    <3>1. s \in DoneAfter(new) BY <2>3 DEF DoneAfter
    <3> QED BY <1>2, <3>1, ChunkFacts
  <2> QED BY <2>1, <2>2, <2>3
<1>10. \A t \in DoneAfter(new) : Chunk(t) BY <1>2, MergedChunk DEF DoneAfter
<1>11. ASSUME NEW s \in done \union {new} PROVE Positions(s) \subseteq PositionsOf(DoneAfter(new))
  <2>1. PICK t \in DoneAfter(new) : t.start <= s.start /\ EndOf(s) <= EndOf(t) BY <1>8, <1>9
  <2>2. Positions(s) \subseteq Positions(t) BY <1>2, <1>10, <2>1, ChunkFacts DEF Positions
  <2> QED BY <2>2 DEF PositionsOf
<1>12. DonePositions \union Positions(new) \subseteq PositionsOf(DoneAfter(new))
  BY <1>11 DEF DonePositions, PositionsOf
<1>13. PositionsOf(DoneAfter(new)) \subseteq DonePositions \union Positions(new)
  BY <1>1, DoneFacts, MergedWithin DEF DonePositions
<1> QED BY <1>6, <1>7, <1>12, <1>13

-----------------------------------------------------------------------------
(* The search of getNextSegment. *)

\* What the search reads and does not change.
SearchData ==
    /\ done \subseteq Segment /\ Consolidated(done)
    /\ attached \subseteq Conns /\ dl \in [Conns -> Download]
    /\ source \in Conns /\ wanted \in Nat
    /\ MultiChunk /\ BlockSize < Size /\ ~paused /\ ~(Cardinality(attached) >= MaxSegments)

FreeAt == [s \in BlockStarts |-> FreeSizes(done, s, Target)]

StepAt == [s \in BlockStarts |-> Step(done, s, Target)]

Seen == Visited(done, Target)

LEMMA StartsAreMultiples ==
  /\ \A s \in BlockStarts : s \in Nat /\ s < Size /\ \E k \in Nat : s = k * BlockSize
  /\ \A k \in Nat : k * BlockSize < Size => k * BlockSize \in BlockStarts
<1>0. BlockSize \in Nat \ {0} /\ Size \in Nat \ {0} BY SegmentsAssumption
<1> DEFINE q == (Size - 1) \div BlockSize
<1>1. q \in Nat /\ Size - 1 < q * BlockSize + BlockSize /\ q * BlockSize <= Size - 1 BY <1>0
<1> HIDE DEF q
<1>2. ASSUME NEW s \in BlockStarts PROVE s \in Nat /\ s < Size /\ \E k \in Nat : s = k * BlockSize
  <2>1. PICK k \in 0 .. q : s = k * BlockSize BY DEF BlockStarts, q
  <2>2. k \in Nat /\ k <= q BY <1>1, <2>1
  <2>3. q - k \in Nat BY <1>1, <2>2
  <2>4. (q - k) * BlockSize >= 0 BY <2>3, <1>0
  <2>5. q * BlockSize = k * BlockSize + (q - k) * BlockSize BY <1>1, <2>2, <1>0
  <2>6. k * BlockSize \in Nat BY <2>2, <1>0
  <2> QED BY <1>0, <1>1, <2>1, <2>2, <2>4, <2>5, <2>6
<1>3. ASSUME NEW k \in Nat, k * BlockSize < Size PROVE k * BlockSize \in BlockStarts
  <2>1. k * BlockSize \in Nat BY <1>0
  <2>2. k * BlockSize < q * BlockSize + BlockSize BY <1>0, <1>1, <1>3, <2>1
  <2>3. k * BlockSize <= q * BlockSize BY <1>1, <2>2, BlockSteps
  <2>4. k <= q
    <3> SUFFICES ASSUME ~(k <= q) PROVE FALSE OBVIOUS
    <3>1. k - q \in Nat \ {0} BY <1>1
    <3>2. (k - q) * BlockSize > 0 BY <3>1, <1>0
    <3>3. k * BlockSize = q * BlockSize + (k - q) * BlockSize BY <1>0, <1>1
    <3> QED BY <2>3, <3>2, <3>3, <1>0, <1>1
  <2> QED BY <1>1, <2>4 DEF BlockStarts, q
<1> QED BY <1>2, <1>3

LEMMA NoRemainder ==
  ASSUME NEW k \in Nat
  PROVE  (k * BlockSize) % BlockSize = 0
BY SegmentsAssumption

\* Moving on from a start by whole blocks leads to a start, or to the end.
LEMMA NextStart ==
  ASSUME NEW s \in BlockStarts, NEW m \in Nat, s + m * BlockSize < Size
  PROVE  s + m * BlockSize \in BlockStarts
<1>1. PICK k \in Nat : s = k * BlockSize BY StartsAreMultiples
<1>2. s + m * BlockSize = (k + m) * BlockSize /\ k + m \in Nat BY <1>1, MultiplesAdd
<1> QED BY <1>2, StartsAreMultiples

LEMMA TargetType ==
  ASSUME SearchData
  PROVE  Target \in Nat /\ Target >= BlockSize /\ \E m \in Nat \ {0} : Target = m * BlockSize
<1>0. BlockSize \in Nat \ {0} BY SegmentsAssumption
<1>1. PICK m \in Nat : Target = m * BlockSize /\ Target >= BlockSize
  BY TargetBlocks DEF SearchData, Target
<1>2. m # 0 BY <1>0, <1>1
<1>3. m * BlockSize \in Nat BY <1>0
<1> QED BY <1>1, <1>2, <1>3

LEMMA StepFacts ==
  ASSUME SearchData, NEW s \in BlockStarts
  PROVE  /\ \E m \in Nat \ {0} : StepAt[s] = m * BlockSize
         /\ StepAt[s] \in Nat /\ StepAt[s] >= BlockSize
         /\ FreeAt[s] # {} <=> LargestSizes(done, s, Target) # {}
         /\ FreeAt[s] = {} => StepAt[s] = BlockSize
         /\ FreeAt[s] # {} => /\ StepAt[s] \in FreeAt[s] /\ LargestSizes(done, s, Target) = {StepAt[s]}
                              /\ \A n \in FreeAt[s] : n <= StepAt[s]
<1>0. BlockSize \in Nat \ {0} BY SegmentsAssumption
<1> DEFINE Sizes == LargestSizes(done, s, Target)
<1>1. StepAt[s] = IF Sizes = {} THEN BlockSize ELSE CHOOSE n \in Sizes : TRUE BY DEF StepAt, Step
<1>2. FreeAt[s] = FreeSizes(done, s, Target) BY DEF FreeAt
<1>3. Sizes = {n \in FreeAt[s] : \A m \in FreeAt[s] : m <= n} BY <1>2 DEF LargestSizes
<1>4. FreeAt[s] \in SUBSET (1 .. Target) /\ \A n \in FreeAt[s] : n % BlockSize = 0 BY <1>2 DEF FreeSizes
<1>5. Target \in Nat BY TargetType
<1> HIDE DEF Sizes
<1>6. FreeAt[s] # {} => Sizes # {}
  <2> HAVE FreeAt[s] # {}
  <2>1. PICK n \in FreeAt[s] : \A m \in FreeAt[s] : m <= n BY <1>4, <1>5, GreatestElement
  <2> QED BY <1>3, <2>1
<1>7. CASE Sizes = {}
  <2>1. StepAt[s] = 1 * BlockSize /\ FreeAt[s] = {} BY <1>0, <1>1, <1>6, <1>7
  <2> QED BY <1>0, <1>7, <2>1 DEF Sizes
<1>8. CASE Sizes # {}
  <2>1. StepAt[s] \in Sizes BY <1>1, <1>8
  <2>2. StepAt[s] \in FreeAt[s] /\ \A n \in FreeAt[s] : n <= StepAt[s] BY <1>3, <2>1
  <2>3. \A n \in Sizes : n = StepAt[s] BY <1>3, <1>4, <1>5, <2>1, <2>2
  <2>4. Sizes = {StepAt[s]} BY <2>1, <2>3
  <2>5. StepAt[s] \in Nat /\ StepAt[s] >= 1 BY <1>4, <1>5, <2>2
  <2>6. PICK m \in Nat : StepAt[s] = m * BlockSize BY <1>4, <2>2, <2>5, MultipleOf
  <2>7. m # 0 BY <1>0, <2>5, <2>6
  <2>8. m * BlockSize >= BlockSize
    <3>1. m - 1 \in Nat BY <2>7
    <3>2. (m - 1) * BlockSize >= 0 BY <3>1, <1>0
    <3>3. m * BlockSize = (m - 1) * BlockSize + BlockSize BY <3>1, <1>0
    <3> QED BY <1>0, <3>2, <3>3
  <2> QED BY <1>8, <2>2, <2>4, <2>5, <2>6, <2>7, <2>8 DEF Sizes
<1> QED BY <1>7, <1>8

\* The visited starts are the beginning of the file and what follows them, and
\* there are no others.
LEMMA VisitedClosed ==
  ASSUME SearchData
  PROVE  /\ 0 \in Seen /\ Seen \subseteq BlockStarts
         /\ \A s \in Seen : s + StepAt[s] < Size => s + StepAt[s] \in Seen
         /\ \A S \in SUBSET BlockStarts :
              (0 \in S /\ \A s \in S : s + StepAt[s] < Size => s + StepAt[s] \in S) => Seen \subseteq S
<1>1. \A s \in BlockStarts : StepAt[s] = Step(done, s, Target) BY DEF StepAt
<1>2. Seen = {s \in BlockStarts : \A S \in SUBSET BlockStarts :
                 (0 \in S /\ \A r \in S : r + StepAt[r] < Size => r + StepAt[r] \in S) => s \in S}
  BY <1>1 DEF Seen, Visited
<1>3. 0 \in BlockStarts
  <2>1. 0 * BlockSize = 0 /\ Size > 0 BY SegmentsAssumption
  <2> QED BY <2>1, StartsAreMultiples
<1>4. ASSUME NEW s \in Seen, s + StepAt[s] < Size PROVE s + StepAt[s] \in Seen
  <2>1. s \in BlockStarts BY <1>2
  <2>2. PICK m \in Nat : StepAt[s] = m * BlockSize BY <2>1, StepFacts
  <2>3. s + StepAt[s] \in BlockStarts BY <1>4, <2>1, <2>2, NextStart
  <2> QED BY <1>2, <1>4, <2>3
<1> QED BY <1>2, <1>3, <1>4

\* The block sizes that are still possible at the start: from the current one
\* down to one block.
Shrinking ==
    /\ start \in BlockStarts \union {Size}
    /\ \E m \in Nat \ {0} : curSize = m * BlockSize
    /\ curSize \in BlockSize .. Target
    /\ start # Size => \A n \in FreeAt[start] : n <= curSize

\* A full source comes this far when there was no free block.
NothingFree ==
    /\ parts = {}
    /\ \A s \in BlockStarts : s < start => FreeAt[s] = {}

\* The ranges a partial source has, in positions of the file.
Ranges == {[from |-> IF Size < p[1] * BlockSize THEN Size ELSE p[1] * BlockSize,
            to |-> IF Size < p[2] * BlockSize THEN Size ELSE p[2] * BlockSize] : p \in Partial[source]}

\* The common bytes of a block and such a range, when there are any.
Shared(b, h) == Seg(IF b.start > h.from THEN b.start ELSE h.from, IF EndOf(b) < h.to THEN EndOf(b) ELSE h.to)

Meets(b, h) == b.start < h.to /\ h.from < EndOf(b)

\* What the free blocks at a start have in common with the source.
SharedAt == [s \in BlockStarts |->
    {Shared(x[1], x[2]) : x \in {y \in LargestBlocks(done, s, Target) \X Ranges : Meets(y[1], y[2])}}]

\* A partial source has collected the shared parts of all the starts visited
\* so far, and those lie end to end.
Collecting ==
    /\ start # Size => start \in Seen
    /\ \A s \in Seen : s < start => (s + StepAt[s] <= start \/ start = Size) /\ SharedAt[s] \subseteq parts
    /\ \A p \in parts : \E s \in Seen : p \in SharedAt[s]
    /\ \A s \in BlockStarts : s < start => \E r \in Seen : r <= s /\ s < r + StepAt[r] /\ r < start

SearchInv ==
    /\ SearchData
    /\ Shrinking
    /\ IF Partial[source] = {} THEN NothingFree ELSE Collecting

\* The ranges are not empty, except where they lie behind the end of the file.
LEMMA RangeFacts ==
  ASSUME SearchData, NEW h \in Ranges
  PROVE  /\ h.from \in Nat /\ h.to \in Nat /\ h.to <= Size
         /\ h.from < Size => h.from < h.to
         /\ \E p \in Partial[source] : /\ p[1] * BlockSize \in Nat /\ p[2] * BlockSize \in Nat
                                       /\ h.from = (IF Size < p[1] * BlockSize THEN Size ELSE p[1] * BlockSize)
                                       /\ h.to = (IF Size < p[2] * BlockSize THEN Size ELSE p[2] * BlockSize)
<1>0. BlockSize \in Nat \ {0} /\ Size \in Nat \ {0} BY SegmentsAssumption
<1>1. PICK p \in Partial[source] :
         h = [from |-> IF Size < p[1] * BlockSize THEN Size ELSE p[1] * BlockSize,
              to |-> IF Size < p[2] * BlockSize THEN Size ELSE p[2] * BlockSize]
  BY DEF Ranges
<1>2. p[1] \in Nat /\ p[2] \in Nat /\ p[1] < p[2]
  <2>1. Partial[source] \in SUBSET (Nat \X Nat) BY SegmentsAssumption DEF SearchData
  <2> QED BY <2>1, SegmentsAssumption DEF SearchData
<1>3. PICK j \in Nat, k \in Nat : j = p[1] /\ k = p[2] /\ j < k BY <1>2
<1>4. j * BlockSize \in Nat /\ k * BlockSize \in Nat /\ j * BlockSize < k * BlockSize
  <2>1. k - j \in Nat \ {0} BY <1>3
  <2>2. (k - j) * BlockSize > 0 BY <2>1, <1>0
  <2>3. k * BlockSize = j * BlockSize + (k - j) * BlockSize BY <1>3, <1>0
  <2> QED BY <2>2, <2>3, <1>0
<1> QED BY <1>0, <1>1, <1>3, <1>4

\* The block of the current size, and what makes it free.
LEMMA CurrentBlock ==
  ASSUME SearchData, Shrinking, start # Size
  PROVE  /\ start \in Nat /\ start < Size /\ curSize \in Nat /\ curSize >= BlockSize
         /\ Block \in Segment /\ Block.start = start
         /\ EndOf(Block) = (IF start + curSize < Size THEN start + curSize ELSE Size)
         /\ start < EndOf(Block)
         /\ curSize \in FreeAt[start] <=> ~BlockTaken
<1>0. BlockSize \in Nat \ {0} /\ Size \in Nat \ {0} BY SegmentsAssumption
<1>1. start \in BlockStarts /\ start \in Nat /\ start < Size BY StartsAreMultiples DEF Shrinking
<1>2. curSize \in Nat /\ curSize >= BlockSize /\ curSize \in 1 .. Target BY <1>0, TargetType DEF Shrinking
<1> DEFINE to == IF start + curSize < Size THEN start + curSize ELSE Size
<1>3. to \in Int /\ start \in Int /\ start < to BY <1>0, <1>1, <1>2
<1>4. Block = Seg(start, to) BY DEF Block, BlockAt
<1>5. Block \in Segment /\ Block.start = start /\ EndOf(Block) = to
  <2> HIDE DEF to
  <2> QED BY <1>3, <1>4, SegEnds
<1>6. curSize % BlockSize = 0 BY NoRemainder DEF Shrinking
<1>7. curSize \in FreeAt[start] <=> FreeBlock(done, start, curSize)
  BY <1>1, <1>2, <1>6 DEF FreeAt, FreeSizes
<1>8. FreeBlock(done, start, curSize) <=> ~BlockTaken
  <2>1. BlockAt(start, curSize) = Block BY DEF Block
  <2> HIDE DEF to
  <2> QED BY <1>5, <2>1 DEF FreeBlock, BlockTaken, Covers
<1> QED BY <1>1, <1>2, <1>3, <1>5, <1>7, <1>8

\* The parts collected from a block are those it shares with the ranges.
LEMMA PartsShared ==
  ASSUME SearchData, Shrinking, start # Size
  PROVE  PartsOfBlock = {Shared(Block, h) : h \in {h \in Ranges : Meets(Block, h)}}
<1> DEFINE Near == {h \in Ranges : \/ h.from <= start /\ start < h.to
                                   \/ start <= h.from /\ h.from < EndOf(Block)}
           Part(h) == Seg(IF start > h.from THEN start ELSE h.from,
                          IF EndOf(Block) < h.to THEN EndOf(Block) ELSE h.to)
<1>1. PartsOfBlock = {Shared(Block, h) : h \in Near}
  <2>1. PartsOfBlock = {Part(h) : h \in Near} BY Zenon DEF PartsOfBlock, Ranges
  <2>2. \A h : Part(h) = Shared(Block, h) BY CurrentBlock DEF Shared
  <2> HIDE DEF Near
  <2> QED BY <2>1, <2>2
<1>2. ASSUME NEW h \in Ranges
      PROVE  Meets(Block, h) <=> \/ h.from <= start /\ start < h.to
                                 \/ start <= h.from /\ h.from < EndOf(Block)
  BY CurrentBlock, RangeFacts, SegmentsAssumption DEF Meets
<1>3. Near = {h \in Ranges : Meets(Block, h)} BY <1>2
<1> QED BY <1>1, <1>3

LEMMA SearchDataKept ==
  ASSUME done' = done, attached' = attached, dl' = dl, paused' = paused, source' = source, wanted' = wanted
  PROVE  /\ SearchData <=> SearchData'
         /\ Target' = Target /\ FreeAt' = FreeAt /\ StepAt' = StepAt /\ Seen' = Seen /\ SharedAt' = SharedAt
<1>1. Target' = Target BY DEF Target, TargetSize, DownloadedBytes
<1>2. FreeAt' = FreeAt BY <1>1 DEF FreeAt, FreeSizes, FreeBlock
<1>3. StepAt' = StepAt BY <1>1 DEF StepAt, Step, LargestSizes, FreeSizes, FreeBlock
<1>4. Seen' = Seen BY <1>1 DEF Seen, Visited, Step, LargestSizes, FreeSizes, FreeBlock
<1>5. SharedAt' = SharedAt
  BY <1>1 DEF SharedAt, Ranges, LargestBlocks, LargestSizes, FreeSizes, FreeBlock
<1>6. SearchData <=> SearchData' BY DEF SearchData, Consolidated
<1> QED BY <1>1, <1>2, <1>3, <1>4, <1>5, <1>6

LEMMA SearchStarts ==
  ASSUME ItemInit, SearchInit
  PROVE  SearchInv
<1>0. BlockSize \in Nat \ {0} /\ Size \in Nat \ {0} BY SegmentsAssumption
<1>1. SearchData
  <2>1. Cardinality(attached) < MaxSegments BY DEF SearchInit
  <2>2. IsFiniteSet(attached) BY InitData, SegmentsAssumption, FS_Subset
  <2>3. Cardinality(attached) \in Nat BY <2>2, FS_CardinalityType
  <2>4. ~(Cardinality(attached) >= MaxSegments) BY <2>1, <2>3, SegmentsAssumption
  <2>5. source \in Conns /\ wanted \in Nat BY SegmentsAssumption DEF SearchInit
  <2> QED BY <2>4, <2>5, InitData DEF ItemInit, SearchInit, SearchData
<1>2. start = 0 /\ curSize = Target /\ parts = {} BY DEF SearchInit
<1>3. 0 \in Seen /\ Seen \subseteq BlockStarts BY <1>1, VisitedClosed
<1>4. Shrinking
  <2>1. 0 \in BlockStarts BY <1>3
  <2>2. \A n \in FreeAt[0] : n <= Target
    <3>1. FreeAt[0] \subseteq 1 .. Target BY <2>1 DEF FreeAt, FreeSizes
    <3> QED BY <1>1, <3>1, TargetType
  <2>3. Target \in BlockSize .. Target BY <1>0, <1>1, TargetType
  <2>4. \E m \in Nat \ {0} : curSize = m * BlockSize BY <1>1, <1>2, TargetType
  <2> QED BY <1>2, <2>1, <2>2, <2>3, <2>4 DEF Shrinking
<1>5. \A s \in BlockStarts : ~(s < 0) BY StartsAreMultiples
<1>6. NothingFree BY <1>2, <1>5 DEF NothingFree
<1>7. Collecting BY <1>2, <1>3, <1>5 DEF Collecting
<1> QED BY <1>1, <1>4, <1>6, <1>7 DEF SearchInv

\* When the block is free its size is the largest free one there.
LEMMA FreeIsLargest ==
  ASSUME SearchData, Shrinking, start # Size, ~BlockTaken
  PROVE  /\ start \in BlockStarts /\ FreeAt[start] # {} /\ StepAt[start] = curSize
         /\ LargestBlocks(done, start, Target) = {Block}
<1>1. start \in BlockStarts /\ curSize \in FreeAt[start] /\ \A n \in FreeAt[start] : n <= curSize
  BY CurrentBlock DEF Shrinking
<1>2. StepAt[start] \in FreeAt[start] /\ curSize <= StepAt[start] /\ LargestSizes(done, start, Target) = {StepAt[start]}
  BY <1>1, StepFacts
<1>3. StepAt[start] = curSize BY <1>1, <1>2, CurrentBlock, StepFacts
<1>4. LargestBlocks(done, start, Target) = {Block} BY <1>2, <1>3 DEF LargestBlocks, Block
<1> QED BY <1>1, <1>3, <1>4

\* When the smallest block is not free, no block is.
LEMMA TakenSmallest ==
  ASSUME SearchData, Shrinking, start # Size, BlockTaken, ~(curSize > BlockSize)
  PROVE  start \in BlockStarts /\ FreeAt[start] = {} /\ StepAt[start] = curSize /\ curSize = BlockSize
<1>0. BlockSize \in Nat \ {0} BY SegmentsAssumption
<1>1. start \in BlockStarts /\ curSize = BlockSize /\ curSize \notin FreeAt[start]
      /\ \A n \in FreeAt[start] : n <= curSize
  BY <1>0, CurrentBlock DEF Shrinking
<1>2. FreeAt[start] = {}
  <2> SUFFICES ASSUME NEW n \in FreeAt[start] PROVE FALSE OBVIOUS
  <2>1. StepAt[start] \in FreeAt[start] /\ StepAt[start] >= BlockSize /\ StepAt[start] \in Nat
    BY <1>1, StepFacts
  <2> QED BY <1>0, <1>1, <2>1
<1> QED BY <1>1, <1>2, StepFacts

\* Otherwise a smaller block is tried.
LEMMA TakenShrinks ==
  ASSUME SearchData, Shrinking, start # Size, BlockTaken, curSize > BlockSize
  PROVE  /\ \E m \in Nat \ {0} : curSize - BlockSize = m * BlockSize
         /\ curSize - BlockSize \in BlockSize .. Target
         /\ \A n \in FreeAt[start] : n <= curSize - BlockSize
<1>0. BlockSize \in Nat \ {0} BY SegmentsAssumption
<1>1. PICK m \in Nat \ {0} : curSize = m * BlockSize BY DEF Shrinking
<1>2. curSize \in Nat /\ Target \in Nat /\ curSize <= Target BY CurrentBlock, TargetType DEF Shrinking
<1>3. m - 1 \in Nat /\ curSize - BlockSize = (m - 1) * BlockSize BY <1>0, <1>1
<1>4. m - 1 # 0 BY <1>0, <1>2, <1>3
<1>5. BlockSize <= curSize - BlockSize
  <2>1. (m - 2) * BlockSize >= 0
    <3>1. m - 2 \in Nat BY <1>1, <1>4
    <3> QED BY <1>0, <3>1
  <2>2. (m - 1) * BlockSize = (m - 2) * BlockSize + BlockSize BY <1>0, <1>1
  <2>3. (m - 2) * BlockSize \in Int BY <1>0, <1>1
  <2> QED BY <1>0, <1>3, <2>1, <2>2, <2>3
<1>6. ASSUME NEW n \in FreeAt[start] PROVE n <= curSize - BlockSize
  <2>1. start \in BlockStarts BY DEF Shrinking
  <2>2. n \in 1 .. Target /\ n % BlockSize = 0 BY <1>6, <2>1 DEF FreeAt, FreeSizes
  <2>3. n \in Nat BY <1>2, <2>2
  <2>4. PICK k \in Nat : n = k * BlockSize BY <2>2, <2>3, MultipleOf
  <2>5. n < curSize
    <3>1. n <= curSize BY DEF Shrinking
    <3>2. curSize \notin FreeAt[start] BY CurrentBlock
    <3> QED BY <1>2, <1>6, <2>3, <3>1, <3>2
  <2>6. k * BlockSize < (m - 1) * BlockSize + BlockSize BY <1>0, <1>2, <1>3, <2>3, <2>4, <2>5
  <2>7. k * BlockSize <= (m - 1) * BlockSize BY <1>3, <2>4, <2>6, BlockSteps
  <2> QED BY <1>3, <2>4, <2>7
<1> QED BY <1>0, <1>2, <1>3, <1>4, <1>5, <1>6

\* What a round that moves on does.
LEMMA MovesOn ==
  ASSUME SearchInv, start # Size, ~(BlockTaken /\ curSize > BlockSize)
  PROVE  /\ start \in BlockStarts /\ StepAt[start] = curSize
         /\ EndOf(Block) \in BlockStarts \union {Size}
         /\ EndOf(Block) # Size => EndOf(Block) = start + curSize
         /\ start < EndOf(Block) /\ EndOf(Block) <= start + curSize /\ EndOf(Block) <= Size
         /\ BlockTaken => FreeAt[start] = {} /\ LargestBlocks(done, start, Target) = {}
         /\ ~BlockTaken => FreeAt[start] # {} /\ LargestBlocks(done, start, Target) = {Block}
<1>0. BlockSize \in Nat \ {0} /\ Size \in Nat \ {0} BY SegmentsAssumption
<1>1. SearchData /\ Shrinking BY DEF SearchInv
<1>2. start \in BlockStarts /\ StepAt[start] = curSize BY <1>1, FreeIsLargest, TakenSmallest
<1>3. BlockTaken => FreeAt[start] = {} /\ LargestBlocks(done, start, Target) = {}
  <2> HAVE BlockTaken
  <2>1. FreeAt[start] = {} BY <1>1, TakenSmallest
  <2>2. LargestSizes(done, start, Target) = {} BY <1>1, <1>2, <2>1, StepFacts
  <2> QED BY <2>1, <2>2 DEF LargestBlocks
<1>4. /\ start \in Nat /\ start < Size /\ curSize \in Nat /\ start < EndOf(Block)
      /\ EndOf(Block) = (IF start + curSize < Size THEN start + curSize ELSE Size)
  BY <1>1, CurrentBlock
<1>5. start + curSize < Size => start + curSize \in BlockStarts
  BY <1>1, <1>2, NextStart DEF Shrinking
<1> QED BY <1>0, <1>1, <1>2, <1>3, <1>4, <1>5, FreeIsLargest

\* The sizes start over at the next start.
LEMMA StartsOver ==
  ASSUME SearchInv, start # Size, ~(BlockTaken /\ curSize > BlockSize),
         start' = EndOf(Block), curSize' = Target, Target' = Target, FreeAt' = FreeAt
  PROVE  Shrinking'
<1>0. BlockSize \in Nat \ {0} /\ Size \in Nat \ {0} BY SegmentsAssumption
<1>1. SearchData BY DEF SearchInv
<1>2. start' \in BlockStarts \union {Size} BY MovesOn
<1>3. curSize' \in BlockSize .. Target /\ \E m \in Nat \ {0} : curSize' = m * BlockSize
  BY <1>0, <1>1, TargetType
<1>4. start' # Size => \A n \in FreeAt[start'] : n <= curSize'
  <2> HAVE start' # Size
  <2>1. FreeAt[start'] \subseteq 1 .. Target BY <1>2 DEF FreeAt, FreeSizes
  <2> QED BY <1>1, <2>1, TargetType
<1>5. BlockStarts' = BlockStarts BY DEF BlockStarts
<1> QED BY <1>2, <1>3, <1>4, <1>5 DEF Shrinking

\* The parts of the block just passed are those its start has to offer.
LEMMA PartsOfStart ==
  ASSUME SearchInv, start # Size, ~(BlockTaken /\ curSize > BlockSize)
  PROVE  SharedAt[start] = IF BlockTaken THEN {} ELSE PartsOfBlock
<1>1. start \in BlockStarts BY MovesOn
<1>2. SharedAt[start] = {Shared(x[1], x[2]) : x \in {y \in LargestBlocks(done, start, Target) \X Ranges :
                                                      Meets(y[1], y[2])}}
  BY <1>1 DEF SharedAt
<1>3. CASE BlockTaken
  <2>1. LargestBlocks(done, start, Target) = {} BY <1>3, MovesOn
  <2> QED BY <1>2, <1>3, <2>1
<1>4. CASE ~BlockTaken
  <2>1. LargestBlocks(done, start, Target) = {Block} BY <1>4, MovesOn
  <2>2. PartsOfBlock = {Shared(Block, h) : h \in {h \in Ranges : Meets(Block, h)}}
    BY PartsShared DEF SearchInv
  <2>3. SharedAt[start] \subseteq PartsOfBlock BY <1>2, <2>1, <2>2
  <2>4. ASSUME NEW h \in Ranges, Meets(Block, h) PROVE Shared(Block, h) \in SharedAt[start]
    <3>1. <<Block, h>> \in {y \in LargestBlocks(done, start, Target) \X Ranges : Meets(y[1], y[2])}
      BY <2>1, <2>4
    <3>2. <<Block, h>>[1] = Block /\ <<Block, h>>[2] = h OBVIOUS
    <3> QED BY <1>2, <3>1, <3>2
  <2> QED BY <1>4, <2>2, <2>3, <2>4
<1> QED BY <1>3, <1>4

LEMMA CollectsOn ==
  ASSUME SearchInv, start # Size, ~(BlockTaken /\ curSize > BlockSize), Partial[source] # {},
         start' = EndOf(Block), parts' = IF BlockTaken THEN parts ELSE parts \union PartsOfBlock,
         StepAt' = StepAt, Seen' = Seen, SharedAt' = SharedAt
  PROVE  Collecting'
<1>0. Size \in Nat \ {0} /\ BlockSize \in Nat \ {0} BY SegmentsAssumption
<1>1. SearchData /\ Collecting BY DEF SearchInv
<1>2. /\ start \in BlockStarts /\ StepAt[start] = curSize /\ start < start' /\ start' <= start + curSize
      /\ start' \in BlockStarts \union {Size} /\ start' <= Size
      /\ start' # Size => start' = start + curSize
  BY MovesOn
<1>3. start \in Seen /\ Seen \subseteq BlockStarts BY <1>1, VisitedClosed DEF Collecting
<1>4. BlockStarts \subseteq Nat /\ \A s \in BlockStarts : s < Size /\ StepAt[s] \in Nat /\ StepAt[s] >= BlockSize
  BY <1>1, StartsAreMultiples, StepFacts
<1>5. curSize \in Nat /\ start \in Nat /\ start' \in Nat BY <1>0, <1>2, <1>4
<1>6. parts \subseteq parts' /\ SharedAt[start] \subseteq parts'
      /\ \A p \in parts' : p \in parts \/ p \in SharedAt[start]
  BY PartsOfStart
<1>7. start' # Size => start' \in Seen
  <2> HAVE start' # Size
  <2>1. start + StepAt[start] = start' /\ start' < Size BY <1>2, <1>4
  <2> QED BY <1>1, <1>3, <2>1, VisitedClosed
\* No visited start lies inside the block.
<1>8. \A s \in Seen : s <= start \/ s >= start'
  <2> DEFINE S == {s \in Seen : s <= start \/ s >= start'}
  <2>1. S \in SUBSET BlockStarts BY <1>3
  <2>2. 0 \in S BY <1>1, <1>5, VisitedClosed
  <2>3. ASSUME NEW s \in S, s + StepAt[s] < Size PROVE s + StepAt[s] \in S
    <3>1. s \in Seen /\ s + StepAt[s] \in Seen BY <1>1, <2>3, VisitedClosed
    <3>2. s \in Nat /\ StepAt[s] \in Nat BY <1>3, <1>4
    <3>3. CASE s < start
      <4>1. s + StepAt[s] <= start BY <1>1, <1>2, <1>3, <1>4, <3>1, <3>3 DEF Collecting
      <4> QED BY <3>1, <4>1
    <3>4. CASE s = start BY <1>2, <1>5, <3>1, <3>4
    <3>5. CASE s >= start' /\ s # start BY <1>5, <3>1, <3>2, <3>5
    <3> QED BY <1>5, <3>2, <3>3, <3>4, <3>5
  <2> HIDE DEF S
  <2>4. Seen \subseteq S BY <1>1, <2>1, <2>2, <2>3, VisitedClosed
  <2> QED BY <2>4 DEF S
<1>9. ASSUME NEW s \in Seen, s < start'
      PROVE  (s + StepAt[s] <= start' \/ start' = Size) /\ SharedAt[s] \subseteq parts'
  <2>1. s \in Nat /\ StepAt[s] \in Nat BY <1>3, <1>4
  <2>2. CASE s < start
    <3>1. s + StepAt[s] <= start /\ SharedAt[s] \subseteq parts BY <1>1, <2>2 DEF Collecting
    <3> QED BY <1>2, <1>5, <1>6, <2>1, <3>1
  <2>3. CASE s = start BY <1>2, <1>5, <1>6, <2>3
  <2> QED BY <1>5, <1>8, <1>9, <2>1, <2>2, <2>3
<1>10. \A p \in parts' : \E s \in Seen : p \in SharedAt[s] BY <1>1, <1>3, <1>6 DEF Collecting
<1>11. ASSUME NEW s \in BlockStarts, s < start'
       PROVE  \E r \in Seen : r <= s /\ s < r + StepAt[r] /\ r < start'
  <2>1. s \in Nat BY <1>4
  <2>2. CASE s < start
    <3>1. PICK r \in Seen : r <= s /\ s < r + StepAt[r] /\ r < start BY <1>1, <2>2 DEF Collecting
    <3>2. r < start' BY <1>2, <1>3, <1>4, <1>5, <3>1
    <3> QED BY <3>1, <3>2
  <2>3. CASE start <= s BY <1>2, <1>3, <1>5, <1>11, <2>1, <2>3
  <2> QED BY <1>5, <2>1, <2>2, <2>3
<1>12. BlockStarts' = BlockStarts BY DEF BlockStarts
<1> QED BY <1>7, <1>9, <1>10, <1>11, <1>12 DEF Collecting

\* A search that has not come to the end is at a start, one that has is at the
\* size of the file.
LEMMA SearchPlace ==
  ASSUME Shrinking
  PROVE  start # Size <=> start < Size
BY StartsAreMultiples, SegmentsAssumption DEF Shrinking

LEMMA SearchStepInv ==
  ASSUME SearchInv, SearchStep, BlockTaken \/ Partial[source] # {}
  PROVE  SearchInv' /\ loop' = loop
<1>1. SearchData /\ Shrinking BY DEF SearchInv
<1>2. start # Size BY <1>1, SearchPlace DEF SearchStep
<1>3. /\ done' = done /\ attached' = attached /\ dl' = dl /\ paused' = paused
      /\ source' = source /\ wanted' = wanted
      /\ parts' = (IF BlockTaken THEN parts ELSE parts \union PartsOfBlock)
      /\ MoveOn /\ loop' = loop
  BY DEF SearchStep, vars
<1>4. /\ SearchData' /\ Target' = Target /\ FreeAt' = FreeAt /\ StepAt' = StepAt
      /\ Seen' = Seen /\ SharedAt' = SharedAt
  BY <1>1, <1>3, SearchDataKept
<1>b. BlockStarts' = BlockStarts BY DEF BlockStarts
<1>5. CASE BlockTaken /\ curSize > BlockSize
  <2>1. start' = start /\ curSize' = curSize - BlockSize /\ parts' = parts BY <1>3, <1>5 DEF MoveOn
  <2>2. Shrinking' BY <1>1, <1>2, <1>4, <1>5, <1>b, <2>1, TakenShrinks DEF Shrinking
  <2>3. NothingFree => NothingFree' BY <1>4, <1>b, <2>1 DEF NothingFree
  <2>4. Collecting => Collecting' BY <1>4, <1>b, <2>1 DEF Collecting
  <2> QED BY <1>3, <1>4, <2>2, <2>3, <2>4 DEF SearchInv
<1>6. CASE ~(BlockTaken /\ curSize > BlockSize)
  <2>1. start' = EndOf(Block) /\ curSize' = Target BY <1>3, <1>6 DEF MoveOn
  <2>2. Shrinking' BY <1>2, <1>4, <1>6, <2>1, StartsOver
  <2>3. ASSUME Partial[source] = {} PROVE NothingFree'
    <3>1. parts' = {} /\ BlockTaken BY <1>3, <2>3 DEF SearchInv, NothingFree
    <3>2. ASSUME NEW s \in BlockStarts, s < start' PROVE FreeAt[s] = {}
      <4>1. CASE s < start BY <2>3, <4>1 DEF SearchInv, NothingFree
      <4>2. CASE s = start BY <1>2, <1>6, <3>1, <4>2, MovesOn
      <4>3. CASE start < s
        <5>1. curSize = BlockSize /\ start' <= start + curSize /\ start \in BlockStarts
          BY <1>1, <1>2, <1>6, <2>1, <3>1, TakenSmallest, MovesOn
        <5>2. PICK j \in Nat, k \in Nat : s = j * BlockSize /\ start = k * BlockSize
          BY <5>1, StartsAreMultiples
        <5>3. s \in Nat /\ start \in Nat /\ start' \in Nat
          <6>1. start' \in BlockStarts \union {Size} BY <1>2, <1>6, <2>1, MovesOn
          <6> QED BY <5>1, <6>1, StartsAreMultiples, SegmentsAssumption
        <5>4. j * BlockSize < k * BlockSize + BlockSize
          BY <3>2, <5>1, <5>2, <5>3, SegmentsAssumption
        <5>5. j * BlockSize <= k * BlockSize BY <5>2, <5>4, BlockSteps
        <5> QED BY <4>3, <5>2, <5>3, <5>5
      <4>4. start \in Nat /\ s \in Nat BY <1>1, <1>2, CurrentBlock, StartsAreMultiples
      <4> QED BY <4>1, <4>2, <4>3, <4>4
    <3> QED BY <1>4, <1>b, <3>1, <3>2 DEF NothingFree
  <2>4. ASSUME Partial[source] # {} PROVE Collecting'
    BY <1>2, <1>3, <1>4, <1>6, <2>1, <2>4, CollectsOn
  <2> QED BY <1>3, <1>4, <2>2, <2>3, <2>4 DEF SearchInv
<1> QED BY <1>3, <1>5, <1>6

\* The choices of the closed form for a search that neither setting nor limit
\* cuts short.
LEMMA SearchChoices ==
  ASSUME SearchData
  PROVE  NextSegments(done, source, wanted, FALSE, BlockSize) =
            LET free == IF Partial[source] = {} THEN FirstFree(done, Target)
                        ELSE NeededParts(done, source, Target)
            IN  IF free # {} THEN {[seg |-> s, overlapped |-> FALSE] : s \in free}
                ELSE Overlaps(source, FALSE, BlockSize)
<1>1. MultiChunk /\ ~(BlockSize >= Size) /\ ~paused /\ ~(Cardinality(attached) >= MaxSegments)
  BY SegmentsAssumption DEF SearchData
<1> QED BY <1>1, Zenon DEF NextSegments, Target

\* A full source gets the first free block.
LEMMA SearchFinds ==
  ASSUME SearchInv, SearchStep, ~BlockTaken, Partial[source] = {}
  PROVE  /\ [seg |-> Block, overlapped |-> FALSE] \in NextSegments(done, source, wanted, FALSE, BlockSize)
         /\ Block.size # 0
<1>1. SearchData /\ Shrinking /\ NothingFree BY DEF SearchInv
<1>2. start # Size BY <1>1, SearchPlace DEF SearchStep
<1>3. start \in BlockStarts /\ LargestBlocks(done, start, Target) = {Block} BY <1>1, <1>2, FreeIsLargest
<1>4. \A r \in BlockStarts : r < start => FreeSizes(done, r, Target) = {} BY <1>1 DEF NothingFree, FreeAt
<1>5. Block \in FirstFree(done, Target) BY <1>3, <1>4 DEF FirstFree
<1>6. Block.size # 0
  <2>1. Block.start < EndOf(Block) /\ Block \in Segment BY <1>1, <1>2, CurrentBlock
  <2> QED BY <2>1, SegmentType DEF EndOf
<1> QED BY <1>1, <1>5, <1>6, SearchChoices

\* A block of the smallest size that no search finds is taken.
LEMMA NotFreeTaken ==
  ASSUME SearchData, NEW s \in BlockStarts, FreeAt[s] = {}
  PROVE  \/ \E f \in done : Intersect(BlockAt(s, BlockSize), f)
         \/ \E d \in attached : Intersect(BlockAt(s, BlockSize), dl[d].seg)
<1>0. BlockSize \in Nat \ {0} /\ Size \in Nat \ {0} BY SegmentsAssumption
<1> DEFINE to == IF s + BlockSize < Size THEN s + BlockSize ELSE Size
           block == BlockAt(s, BlockSize)
<1>1. s \in Nat /\ s < Size BY StartsAreMultiples
<1>2. to \in Int /\ s \in Int /\ s < to BY <1>0, <1>1
<1>3. block = Seg(s, to) BY DEF BlockAt
<1> HIDE DEF to
<1>4. block.start = s /\ EndOf(block) = to BY <1>2, <1>3, SegEnds
<1> HIDE DEF block
<1>5. BlockSize \in 1 .. Target BY <1>0, TargetType
<1>6. BlockSize % BlockSize = 0 BY <1>0
<1>7. ~FreeBlock(done, s, BlockSize) BY <1>5, <1>6 DEF FreeAt, FreeSizes
<1>8. \/ \E f \in done : Covers(f, block)
      \/ \E d \in attached : Intersect(block, dl[d].seg)
  BY <1>0, <1>7 DEF FreeBlock, block
<1>9. ASSUME NEW f \in done, Covers(f, block) PROVE Intersect(block, f)
  <2>1. f.start \in Int /\ EndOf(f) \in Int BY SegmentType DEF SearchData
  <2> QED BY <1>2, <1>4, <1>9, <2>1 DEF Covers, Intersect
<1> QED BY <1>8, <1>9 DEF block

\* The largest free block at a start.
LEMMA LargestBlock ==
  ASSUME SearchData, NEW s \in BlockStarts, NEW b \in LargestBlocks(done, s, Target)
  PROVE  /\ b \in Segment /\ b.start = s /\ s \in Nat /\ EndOf(b) \in Nat /\ s < EndOf(b) /\ EndOf(b) <= Size
         /\ EndOf(b) = (IF s + StepAt[s] < Size THEN s + StepAt[s] ELSE Size)
<1>0. Size \in Nat \ {0} BY SegmentsAssumption
<1>1. Target \in Int /\ done \in SUBSET Segment BY TargetType DEF SearchData
<1>2. /\ s \in Nat /\ s < Size /\ b \in Segment /\ b.start = s
  BY <1>1, FreeBlockFacts
<1>3. PICK n \in LargestSizes(done, s, Target) : b = BlockAt(s, n) BY DEF LargestBlocks
<1>4. n = StepAt[s] /\ n \in Nat /\ n >= BlockSize BY <1>3, StepFacts
<1> DEFINE to == IF s + n < Size THEN s + n ELSE Size
<1>5. to \in Int /\ s \in Int /\ s < to /\ to <= Size BY <1>0, <1>2, <1>4, SegmentsAssumption
<1>6. b = Seg(s, to) BY <1>3 DEF BlockAt
<1>7. EndOf(b) = to
  <2> HIDE DEF to
  <2> QED BY <1>5, <1>6, SegEnds
<1> QED BY <1>2, <1>4, <1>5, <1>7

\* A part cut to the target size is one of the closed form's, and there is no
\* such part when there is nothing to cut.
LEMMA PartsNeeded ==
  ASSUME SearchData
  PROVE  /\ \A s \in Seen : \A p \in SharedAt[s] :
               /\ [p EXCEPT !.size = IF @ < Target THEN @ ELSE Target] \in NeededParts(done, source, Target)
               /\ p.size > 0
         /\ (\A s \in Seen : SharedAt[s] = {}) => NeededParts(done, source, Target) = {}
<1> DEFINE Low(m, n)  == IF m < n THEN m ELSE n
           High(m, n) == IF m > n THEN m ELSE n
           Free == UNION {LargestBlocks(done, s, Target) : s \in Seen}
           Has == {Seg(Low(Size, p[1] * BlockSize), Low(Size, p[2] * BlockSize)) : p \in Partial[source]}
           Part(b, h) == Seg(High(b.start, h.start),
                             Low(Low(EndOf(b), EndOf(h)), High(b.start, h.start) + Target))
<1>1. NeededParts(done, source, Target) = {Part(x[1], x[2]) : x \in {y \in Free \X Has : Intersect(y[1], y[2])}}
  BY Zenon DEF NeededParts, Seen
<1>2. Seen \subseteq BlockStarts BY VisitedClosed
<1>3. Target \in Nat /\ Target >= BlockSize /\ BlockSize \in Nat \ {0} BY TargetType, SegmentsAssumption
<1>4. ASSUME NEW r \in Ranges
      PROVE  /\ Seg(r.from, r.to) \in Has
             /\ Seg(r.from, r.to).start = r.from /\ EndOf(Seg(r.from, r.to)) = r.to
  <2>1. r.from \in Int /\ r.to \in Int BY RangeFacts
  <2>2. Seg(r.from, r.to) \in Has BY DEF Ranges
  <2> HIDE DEF Has
  <2> QED BY <2>1, <2>2, SegEnds
<1>5. ASSUME NEW h \in Has PROVE \E r \in Ranges : h = Seg(r.from, r.to)
  <2>1. PICK p \in Partial[source] : h = Seg(Low(Size, p[1] * BlockSize), Low(Size, p[2] * BlockSize)) OBVIOUS
  <2> DEFINE r == [from |-> Low(Size, p[1] * BlockSize), to |-> Low(Size, p[2] * BlockSize)]
  <2>2. r \in Ranges BY DEF Ranges
  <2>3. h = Seg(r.from, r.to) BY <2>1
  <2> QED BY <2>2, <2>3
<1>6. ASSUME NEW s \in Seen, NEW p \in SharedAt[s]
      PROVE  /\ [p EXCEPT !.size = IF @ < Target THEN @ ELSE Target] \in NeededParts(done, source, Target)
             /\ p.size > 0
  <2>1. PICK b \in LargestBlocks(done, s, Target), r \in Ranges : Meets(b, r) /\ p = Shared(b, r)
    BY <1>2 DEF SharedAt
  <2> DEFINE h == Seg(r.from, r.to)
             from == High(b.start, r.from)
             to == Low(EndOf(b), r.to)
  <2>2. h \in Has /\ h.start = r.from /\ EndOf(h) = r.to BY <1>4
  <2>3. /\ b.start \in Nat /\ EndOf(b) \in Nat /\ b.start < EndOf(b) /\ EndOf(b) <= Size
    BY <1>2, LargestBlock
  <2>4. r.from \in Nat /\ r.to \in Nat /\ (r.from < Size => r.from < r.to) BY RangeFacts
  <2>5. b.start < r.to /\ r.from < EndOf(b) BY <2>1 DEF Meets
  <2>6. from \in Nat /\ to \in Nat /\ from < to BY <2>3, <2>4, <2>5, SegmentsAssumption
  <2>7. p = Seg(from, to) BY <2>1 DEF Shared
  <2>8. Part(b, h) = Seg(from, Low(to, from + Target))
    <3> HIDE DEF h
    <3> QED BY <2>2
  <2>9. Part(b, h) \in NeededParts(done, source, Target)
    <3>1. b \in Free OBVIOUS
    <3>2. Intersect(b, h) BY <2>2, <2>5 DEF Intersect
    <3> HIDE DEF Free, Has, h, Part
    <3>3. <<b, h>> \in {y \in Free \X Has : Intersect(y[1], y[2])} BY <2>2, <3>1, <3>2
    <3>4. <<b, h>>[1] = b /\ <<b, h>>[2] = h OBVIOUS
    <3> QED BY <1>1, <3>3, <3>4
  <2> HIDE DEF from, to, Free, Has, h, Part
  <2>10. p = [start |-> from, size |-> to - from] BY <2>7 DEF Seg
  <2>11. [p EXCEPT !.size = IF @ < Target THEN @ ELSE Target] = Seg(from, IF to < from + Target THEN to ELSE from + Target)
    BY <1>3, <2>6, <2>10 DEF Seg
  <2> QED BY <2>6, <2>8, <2>9, <2>10, <2>11
<1>7. ASSUME \A s \in Seen : SharedAt[s] = {} PROVE NeededParts(done, source, Target) = {}
  <2> SUFFICES ASSUME NEW x \in NeededParts(done, source, Target) PROVE FALSE OBVIOUS
  <2>1. PICK b \in Free, h \in Has : Intersect(b, h) BY <1>1
  <2>2. PICK s \in Seen : b \in LargestBlocks(done, s, Target) OBVIOUS
  <2>3. PICK r \in Ranges : h = Seg(r.from, r.to) BY <1>5
  <2>4. h.start = r.from /\ EndOf(h) = r.to BY <1>4, <2>3
  <2>5. Meets(b, r) BY <2>1, <2>4 DEF Intersect, Meets
  <2>6. <<b, r>> \in {y \in LargestBlocks(done, s, Target) \X Ranges : Meets(y[1], y[2])}
    BY <2>2, <2>5
  <2>7. Shared(<<b, r>>[1], <<b, r>>[2]) \in SharedAt[s] BY <1>2, <2>6 DEF SharedAt
  <2> QED BY <1>7, <2>7
<1> QED BY <1>6, <1>7

\* What SearchFindsBlock says of a start.
Unavailable(s) ==
    LET block == BlockAt(s, BlockSize)
    IN  \/ \E f \in done : Intersect(block, f)
        \/ \E d \in attached : Intersect(block, dl[d].seg)
        \/ /\ Partial[source] # {}
           /\ \A p \in Partial[source] : ~(p[1] * BlockSize <= s /\ s < p[2] * BlockSize)

\* A partial source that shares nothing with the free blocks has none of them.
LEMMA NothingShared ==
  ASSUME SearchData, Collecting, start = Size, parts = {}, Partial[source] # {}, NEW s \in BlockStarts
  PROVE  Unavailable(s)
<1>0. BlockSize \in Nat \ {0} /\ Size \in Nat \ {0} BY SegmentsAssumption
<1>1. s \in Nat /\ s < Size BY StartsAreMultiples
<1>2. PICK r \in Seen : r <= s /\ s < r + StepAt[r] BY <1>1 DEF Collecting
<1>3. r \in BlockStarts BY VisitedClosed
<1>4. r \in Nat /\ r < Size BY <1>3, StartsAreMultiples
<1>5. CASE FreeAt[r] = {}
  <2>1. StepAt[r] = BlockSize BY <1>3, <1>5, StepFacts
  <2>2. PICK j \in Nat, k \in Nat : s = j * BlockSize /\ r = k * BlockSize BY <1>3, StartsAreMultiples
  <2>3. j * BlockSize < k * BlockSize + BlockSize BY <1>2, <2>1, <2>2
  <2>4. j * BlockSize <= k * BlockSize BY <2>2, <2>3, BlockSteps
  <2>5. s = r BY <1>1, <1>2, <1>4, <2>2, <2>4
  <2> QED BY <1>5, <2>5, NotFreeTaken DEF Unavailable
<1>6. CASE FreeAt[r] # {}
  <2>1. LargestSizes(done, r, Target) = {StepAt[r]} BY <1>3, <1>6, StepFacts
  <2>2. PICK b : b \in LargestBlocks(done, r, Target) BY <2>1 DEF LargestBlocks
  <2>3. b.start = r /\ EndOf(b) = (IF r + StepAt[r] < Size THEN r + StepAt[r] ELSE Size)
    BY <1>3, <2>2, LargestBlock
  <2>4. ASSUME NEW p \in Partial[source], p[1] * BlockSize <= s, s < p[2] * BlockSize PROVE FALSE
    <3> DEFINE h == [from |-> IF Size < p[1] * BlockSize THEN Size ELSE p[1] * BlockSize,
                     to |-> IF Size < p[2] * BlockSize THEN Size ELSE p[2] * BlockSize]
    <3>1. h \in Ranges BY DEF Ranges
    <3>2. p[1] * BlockSize \in Nat /\ p[2] * BlockSize \in Nat
      <4>1. p[1] \in Nat /\ p[2] \in Nat
        <5>1. Partial[source] \in SUBSET (Nat \X Nat) BY SegmentsAssumption DEF SearchData
        <5> QED BY <5>1
      <4> QED BY <4>1, <1>0
    <3>3. h.from <= s /\ s < h.to BY <1>0, <1>1, <2>4, <3>2
    <3>4. h.from \in Nat /\ h.to \in Nat BY <1>0, <3>2
    <3> HIDE DEF h
    <3>5. StepAt[r] \in Nat BY <1>3, StepFacts
    <3>6. Meets(b, h) BY <1>0, <1>1, <1>2, <1>4, <2>3, <3>3, <3>4, <3>5 DEF Meets
    <3>7. <<b, h>> \in {y \in LargestBlocks(done, r, Target) \X Ranges : Meets(y[1], y[2])}
      BY <2>2, <3>1, <3>6
    <3>8. Shared(<<b, h>>[1], <<b, h>>[2]) \in SharedAt[r] BY <1>3, <3>7 DEF SharedAt
    <3>9. SharedAt[r] \subseteq parts BY <1>4 DEF Collecting
    <3> QED BY <3>8, <3>9
  <2> QED BY <2>4 DEF Unavailable
<1> QED BY <1>5, <1>6

LEMMA SearchEnds ==
  ASSUME SearchInv, SearchEnd
  PROVE  /\ [seg |-> result', overlapped |-> FALSE] \in NextSegments(done, source, wanted, FALSE, BlockSize)
         /\ result'.size = 0 => \A s \in BlockStarts : Unavailable(s)
<1>0. BlockSize \in Nat \ {0} /\ Size \in Nat \ {0} BY SegmentsAssumption
<1>1. SearchData /\ Shrinking BY DEF SearchInv
<1>2. start = Size BY <1>0, <1>1, SearchPlace, StartsAreMultiples DEF SearchEnd, Shrinking
<1>3. \A s \in BlockStarts : s < Size BY StartsAreMultiples
<1>4. NoBlock \in Overlaps(source, FALSE, BlockSize) BY DEF Overlaps
<1>5. CASE Partial[source] = {}
  <2>1. parts = {} /\ \A s \in BlockStarts : FreeAt[s] = {} BY <1>2, <1>3, <1>5 DEF SearchInv, NothingFree
  <2>2. result' = NoBlock.seg BY <2>1 DEF SearchEnd
  <2>3. [seg |-> result', overlapped |-> FALSE] = NoBlock BY <2>2 DEF NoBlock
  <2>4. \A s \in BlockStarts : LargestBlocks(done, s, Target) = {}
    <3> TAKE s \in BlockStarts
    <3>1. LargestSizes(done, s, Target) = {} BY <1>1, <2>1, StepFacts
    <3> QED BY <3>1 DEF LargestBlocks
  <2>5. FirstFree(done, Target) = {} BY <2>4 DEF FirstFree
  <2>6. NextSegments(done, source, wanted, FALSE, BlockSize) = Overlaps(source, FALSE, BlockSize)
    BY <1>1, <1>5, <2>5, SearchChoices
  <2>7. \A s \in BlockStarts : Unavailable(s) BY <1>1, <2>1, NotFreeTaken DEF Unavailable
  <2> QED BY <1>4, <2>3, <2>6, <2>7
<1>6. CASE Partial[source] # {} /\ parts = {}
  <2>1. Collecting BY <1>6 DEF SearchInv
  <2>2. result' = NoBlock.seg BY <1>6 DEF SearchEnd
  <2>3. [seg |-> result', overlapped |-> FALSE] = NoBlock BY <2>2 DEF NoBlock
  <2>4. \A s \in Seen : SharedAt[s] = {}
    <3> TAKE s \in Seen
    <3>1. s \in BlockStarts BY <1>1, VisitedClosed
    <3>2. SharedAt[s] \subseteq parts BY <1>2, <1>3, <2>1, <3>1 DEF Collecting
    <3> QED BY <1>6, <3>2
  <2>5. NeededParts(done, source, Target) = {} BY <1>1, <2>4, PartsNeeded
  <2>6. NextSegments(done, source, wanted, FALSE, BlockSize) = Overlaps(source, FALSE, BlockSize)
    BY <1>1, <1>6, <2>5, SearchChoices
  <2>7. \A s \in BlockStarts : Unavailable(s) BY <1>1, <1>2, <1>6, <2>1, NothingShared
  <2> QED BY <1>4, <2>3, <2>6, <2>7
<1>7. CASE Partial[source] # {} /\ parts # {}
  <2>1. PICK p \in parts : result' = [p EXCEPT !.size = IF @ < Target THEN @ ELSE Target]
    BY <1>7 DEF SearchEnd
  <2>2. PICK s \in Seen : p \in SharedAt[s] BY <1>7 DEF SearchInv, Collecting
  <2>3. result' \in NeededParts(done, source, Target) /\ p.size > 0 BY <1>1, <2>1, <2>2, PartsNeeded
  <2>4. [seg |-> result', overlapped |-> FALSE] \in NextSegments(done, source, wanted, FALSE, BlockSize)
    BY <1>1, <1>7, <2>3, SearchChoices
  <2>5. result'.size # 0
    <3>1. PICK b \in LargestBlocks(done, s, Target), r \in Ranges : p = Shared(b, r)
      <4>1. s \in BlockStarts BY <1>1, VisitedClosed
      <4> QED BY <2>2, <4>1 DEF SharedAt
    <3>2. result'.size = IF p.size < Target THEN p.size ELSE Target BY <2>1, <3>1 DEF Shared, Seg
    <3>3. Target > 0 BY <1>0, <1>1, TargetType
    <3> QED BY <2>3, <3>2, <3>3
  <2> QED BY <2>4, <2>5
<1> QED BY <1>5, <1>6, <1>7

-----------------------------------------------------------------------------
(* Both loops. *)

LoopInv ==
    /\ loop = "merge" => MergeInv
    /\ loop = "merged" => MergeData /\ segments = DoneAfter(new) /\ bytes = {NewBytes(new)}
    /\ loop = "search" => SearchInv
    /\ loop = "found" =>
          /\ [seg |-> result, overlapped |-> FALSE] \in NextSegments(done, source, wanted, FALSE, BlockSize)
          /\ result.size = 0 => \A s \in BlockStarts : Unavailable(s)
    /\ loop \in {"merge", "merged", "search", "found"}

\* What is compared at the end is not changed by the loops.
LEMMA ClosedFormsKept ==
  ASSUME UNCHANGED vars, source' = source, wanted' = wanted
  PROVE  /\ NextSegments(done, source, wanted, FALSE, BlockSize)' = NextSegments(done, source, wanted, FALSE, BlockSize)
         /\ (\A s \in BlockStarts : Unavailable(s)) <=> (\A s \in BlockStarts : Unavailable(s))'
<1>1. done' = done /\ attached' = attached /\ dl' = dl /\ paused' = paused BY DEF vars
<1>2. Target' = Target BY <1>1 DEF Target, TargetSize, DownloadedBytes
<1>3. FirstFree(done, Target)' = FirstFree(done, Target)
  BY <1>1, <1>2 DEF FirstFree, LargestBlocks, LargestSizes, FreeSizes, FreeBlock
<1>4. NeededParts(done, source, Target)' = NeededParts(done, source, Target)
  BY <1>1, <1>2 DEF NeededParts, Visited, Step, LargestBlocks, LargestSizes, FreeSizes, FreeBlock
<1>5. Overlaps(source, FALSE, BlockSize)' = Overlaps(source, FALSE, BlockSize) BY <1>1 DEF Overlaps
<1>6. Unsegmented(done, source, FALSE, BlockSize)' = Unsegmented(done, source, FALSE, BlockSize)
  <2>1. WholeGap(done, BlockSize)' = WholeGap(done, BlockSize) BY <1>1 DEF WholeGap
  <2> QED BY <1>1, <1>5, <2>1 DEF Unsegmented
<1>7. NextSegments(done, source, wanted, FALSE, BlockSize)' = NextSegments(done, source, wanted, FALSE, BlockSize)
  BY <1>1, <1>2, <1>3, <1>4, <1>5, <1>6 DEF NextSegments, Target
<1>8. (\A s \in BlockStarts : Unavailable(s)) <=> (\A s \in BlockStarts : Unavailable(s))'
  BY <1>1 DEF Unavailable, BlockStarts
<1> QED BY <1>7, <1>8

LEMMA InitLoopInv == LoopInit => LoopInv
<1>1. CASE ItemInit /\ MergeInit
  <2>1. loop = "merge" BY <1>1 DEF MergeInit
  <2> QED BY <1>1, <2>1, MergeStarts DEF LoopInv
<1>2. CASE ItemInit /\ SearchInit
  <2>1. loop = "search" BY <1>2 DEF SearchInit
  <2> QED BY <1>2, <2>1, SearchStarts DEF LoopInv
<1> QED BY <1>1, <1>2 DEF LoopInit

LEMMA NextLoopInv == LoopInv /\ [LoopNext]_<<vars, loopVars>> => LoopInv'
<1> SUFFICES ASSUME LoopInv, [LoopNext]_<<vars, loopVars>> PROVE LoopInv' OBVIOUS
<1>1. CASE MergeStep
  <2>1. loop = "merge" /\ loop' = "merge" BY <1>1 DEF MergeStep
  <2>2. MergeInv' BY <1>1, <2>1, MergeStepInv DEF LoopInv
  <2> QED BY <2>1, <2>2 DEF LoopInv
<1>2. CASE MergeEnd
  <2>1. loop = "merge" /\ loop' = "merged" /\ i = None /\ done' = done /\ new' = new /\ segments' = segments
        /\ bytes' = IF bytes = {} THEN {new.size} ELSE bytes
    BY <1>2 DEF MergeEnd, vars
  <2>2. MergeInv BY <2>1 DEF LoopInv
  <2>3. segments' = DoneAfter(new) /\ bytes' = {NewBytes(new)} BY <2>1, <2>2, MergeEnds
  <2>4. MergeData' BY <2>1, <2>2, MergeDataKept DEF MergeInv
  <2> QED BY <2>1, <2>3, <2>4, MergeDataKept DEF LoopInv
<1>3. CASE SearchStep /\ (BlockTaken \/ Partial[source] # {})
  <2>1. loop = "search" BY <1>3 DEF SearchStep
  <2>2. SearchInv' /\ loop' = "search" BY <1>3, <2>1, SearchStepInv DEF LoopInv
  <2> QED BY <2>2 DEF LoopInv
<1>4. CASE SearchStep /\ ~BlockTaken /\ Partial[source] = {}
  <2>1. loop = "search" /\ loop' = "found" /\ result' = Block BY <1>4 DEF SearchStep
  <2>2. SearchInv BY <2>1 DEF LoopInv
  <2>3. [seg |-> result', overlapped |-> FALSE] \in NextSegments(done, source, wanted, FALSE, BlockSize) /\ result'.size # 0
    BY <1>4, <2>1, <2>2, SearchFinds
  <2>4. UNCHANGED vars /\ source' = source /\ wanted' = wanted BY <1>4 DEF SearchStep
  <2> QED BY <2>1, <2>3, <2>4, ClosedFormsKept DEF LoopInv
<1>5. CASE SearchEnd
  <2>1. loop = "search" /\ loop' = "found" BY <1>5 DEF SearchEnd
  <2>2. SearchInv BY <2>1 DEF LoopInv
  <2>3. /\ [seg |-> result', overlapped |-> FALSE] \in NextSegments(done, source, wanted, FALSE, BlockSize)
        /\ result'.size = 0 => \A s \in BlockStarts : Unavailable(s)
    BY <1>5, <2>2, SearchEnds
  <2>4. UNCHANGED vars /\ source' = source /\ wanted' = wanted BY <1>5 DEF SearchEnd
  <2> QED BY <2>1, <2>3, <2>4, ClosedFormsKept DEF LoopInv
<1>6. CASE UNCHANGED <<vars, loopVars>>
  <2>1. UNCHANGED vars /\ done' = done /\ attached' = attached /\ dl' = dl /\ paused' = paused
    BY <1>6 DEF vars
  <2>2. /\ loop' = loop /\ new' = new /\ segments' = segments /\ i' = i /\ bytes' = bytes /\ source' = source
        /\ wanted' = wanted /\ start' = start /\ curSize' = curSize /\ parts' = parts /\ result' = result
    BY <1>6 DEF loopVars
  <2>3. MergeInv => MergeInv'
    BY <2>1, <2>2, MergeDataKept DEF MergeInv, AtFront, AtBack, PassedBack, Precedes
  <2>4. SearchInv => SearchInv'
    <3>1. BlockStarts' = BlockStarts BY DEF BlockStarts
    <3> QED BY <2>1, <2>2, <3>1, SearchDataKept DEF SearchInv, Shrinking, NothingFree, Collecting
  <2>5. /\ NextSegments(done, source, wanted, FALSE, BlockSize)' = NextSegments(done, source, wanted, FALSE, BlockSize)
        /\ (\A s \in BlockStarts : Unavailable(s)) <=> (\A s \in BlockStarts : Unavailable(s))'
    BY <2>1, <2>2, ClosedFormsKept
  <2> QED BY <2>1, <2>2, <2>3, <2>4, <2>5, MergeDataKept DEF LoopInv
<1> QED BY <1>1, <1>2, <1>3, <1>4, <1>5, <1>6 DEF LoopNext

LEMMA AlwaysLoopInv == LoopSpec => []LoopInv
BY InitLoopInv, NextLoopInv, PTL DEF LoopSpec

\* One pass of the loop of addFinishedSegment does to QueueItem::done what
\* DoneAfter says, and tells the bundle what NewBytes says, whatever is finished
\* and whatever segment is added: the closed form FileSegments is built on.
THEOREM MergeLoopStated == LoopSpec => []MergeAsStated
<1>1. LoopInv => MergeAsStated BY DEF LoopInv, MergeAsStated
<1> QED BY <1>1, AlwaysLoopInv, PTL

\* A segment that overlaps no finished one adds exactly its own bytes, and what
\* addFinishedSegment leaves is consolidated.
THEOREM MergeCountsNew == LoopSpec => []MergeOfNewBytes
<1>1. LoopInv => MergeOfNewBytes
  <2> SUFFICES ASSUME LoopInv, loop = "merged", \A s \in done : ~Intersect(s, new)
               PROVE  /\ Consolidated(segments) /\ bytes = {new.size}
                      /\ PositionsOf(segments) = DonePositions \union Positions(new)
    BY DEF MergeOfNewBytes
  <2>1. MergeData /\ segments = DoneAfter(new) /\ bytes = {NewBytes(new)} BY DEF LoopInv
  <2> QED BY <2>1, MergeOfNew
<1> QED BY <1>1, AlwaysLoopInv, PTL

\* The search loop of getNextSegment ends with one of the segments that
\* NextSegments lists, for full and for partial sources: the closed form that
\* hasSegment and getDownload are modelled with.
THEOREM SearchLoopStated == LoopSpec => []SearchAsStated
<1>1. LoopInv => SearchAsStated BY DEF LoopInv, SearchAsStated
<1> QED BY <1>1, AlwaysLoopInv, PTL

\* The search gives up only when every block of the file is finished, partly
\* finished, being downloaded or missing at the source.
THEOREM SearchComplete == LoopSpec => []SearchFindsBlock
<1>1. LoopInv => SearchFindsBlock BY DEF LoopInv, SearchFindsBlock, Unavailable
<1> QED BY <1>1, AlwaysLoopInv, PTL

\* A round ends its loop, or moves the iterator to a later element, or goes
\* towards the end of the file or tries a smaller block, of one block at least.
RoundProgress ==
    \/ loop = "merge" /\ loop' = "merged"
    \/ loop = "search" /\ loop' = "found"
    \/ loop = "merge" /\ loop' = "merge" /\ i # None /\ (i' = None \/ Precedes(i, i'))
    \/ /\ loop = "search" /\ loop' = "search"
       /\ \/ start < start' /\ start' <= Size
          \/ start' = start /\ curSize' < curSize /\ curSize' >= BlockSize

\* No round of the two loops of QueueItem leaves them where they were, so that
\* neither runs forever: the order of the segments of a file, and the pairs of
\* a start and a size in it, are finite.
THEOREM RoundsProgress == LoopSpec => [][RoundProgress]_<<vars, loopVars>>
<1>1. LoopInv /\ [LoopNext]_<<vars, loopVars>> => [RoundProgress]_<<vars, loopVars>>
  <2> SUFFICES ASSUME LoopInv, LoopNext PROVE RoundProgress OBVIOUS
  <2>1. CASE MergeStep
    <3>1. loop = "merge" /\ loop' = "merge" /\ i # None BY <2>1 DEF MergeStep
    <3>2. MergeInv BY <3>1 DEF LoopInv
    <3>3. i' = After(segments, i) /\ \A s \in segments : Chunk(s) BY <2>1, <3>2, SegmentsChunks DEF MergeStep
    <3>4. i' = None \/ Precedes(i, i') BY <3>3, NextOne
    <3> QED BY <3>1, <3>4 DEF RoundProgress
  <2>2. CASE MergeEnd BY <2>2 DEF MergeEnd, RoundProgress
  <2>3. CASE SearchEnd BY <2>3 DEF SearchEnd, RoundProgress
  <2>4. CASE SearchStep
    <3>1. loop = "search" BY <2>4 DEF SearchStep
    <3>2. SearchInv /\ SearchData /\ Shrinking BY <3>1 DEF LoopInv, SearchInv
    <3>3. start # Size BY <2>4, <3>2, SearchPlace DEF SearchStep
    <3>4. CASE loop' = "found" BY <3>1, <3>4 DEF RoundProgress
    <3>5. CASE loop' # "found"
      <4>1. loop' = loop /\ MoveOn BY <2>4, <3>5 DEF SearchStep
      <4>2. CASE BlockTaken /\ curSize > BlockSize
        <5>1. start' = start /\ curSize' = curSize - BlockSize BY <4>1, <4>2 DEF MoveOn
        <5>2. curSize - BlockSize >= BlockSize /\ curSize \in Nat
          BY <3>2, <3>3, <4>2, CurrentBlock, TakenShrinks, TargetType, SegmentsAssumption
        <5>3. curSize' < curSize /\ curSize' >= BlockSize BY <5>1, <5>2, SegmentsAssumption
        <5> QED BY <3>1, <4>1, <5>1, <5>3 DEF RoundProgress
      <4>3. CASE ~(BlockTaken /\ curSize > BlockSize)
        <5>1. start' = EndOf(Block) BY <4>1, <4>3 DEF MoveOn
        <5>2. start < start' /\ start' <= Size BY <3>2, <3>3, <4>3, <5>1, MovesOn
        <5> QED BY <3>1, <4>1, <5>2 DEF RoundProgress
      <4> QED BY <4>2, <4>3
    <3> QED BY <3>4, <3>5
  <2> QED BY <2>1, <2>2, <2>3, <2>4 DEF LoopNext
<1> QED BY <1>1, AlwaysLoopInv, PTL DEF LoopSpec
=============================================================================
