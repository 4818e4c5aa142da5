------------------------- MODULE UploadSlots_proofs -------------------------
(***************************************************************************)
(* The slot counters of UploadManager are exact and bounded, for any       *)
(* number of connections and users, and the task that removes a delayed    *)
(* upload never finds another one.                                         *)
(***************************************************************************)
EXTENDS UploadSlots, FiniteSetTheorems, SequenceTheorems, WellFoundedInduction, TLAPS

PCs == {"closed", "get", "refuse", "open", "count", "extra", "dequeue", "send", "closing"}
SlotTypes == {"none", "user", "mini", "mcn", "hooked"}
Counted3 == {"user", "mini", "mcn"}
Counters == {"users", "extra", "small", "mcn"}

\* The counter of a slot and the change it means.
Ctr(c, s) == IF s = "user" THEN (IF IsMcn(c) THEN "mcn" ELSE "users") ELSE IF s = "mini" THEN "extra" ELSE "small"
Change(c, s, delta) == [counter |-> Ctr(c, s), delta |-> delta]

\* The parts of TypeOK that the counters depend on.
Types ==
    /\ pc \in [Conns -> PCs]
    /\ slot \in [Conns -> SlotTypes] /\ newSlot \in [Conns -> SlotTypes]
    /\ upload \in [Conns -> [place : {"none", "running", "delayed"}, token : {0, 1}]]
    /\ task \in [Conns -> {None, 0, 1}]
    /\ count \in [Counters -> 0 .. 255]
    /\ DOMAIN pending = Conns
    /\ loaded \in [Conns -> {None} \cup 0 .. 255]
    /\ DOMAIN multi = Users

\* How far a connection is with the change of its slot.
ChangeOK(c) ==
    /\ pc[c] = "count" =>
          /\ newSlot[c] \in Counted3 /\ slot[c] # "user"
          /\ \/ pending[c] = << Change(c, newSlot[c], 1) >>
             \/ slot[c] \in Counted3 /\ pending[c] = << Change(c, slot[c], -1), Change(c, newSlot[c], 1) >>
    /\ pc[c] = "closing" => slot[c] \in Counted3 /\ pending[c] = << Change(c, slot[c], -1) >>
    /\ pc[c] \notin {"count", "closing"} => pending[c] = << >>
    /\ pc[c] = "closed" => slot[c] = "none"
    /\ pc[c] \in {"refuse", "open", "count", "extra"} => slotCS = c
    /\ pc[c] = "open" => newSlot[c] # "none" /\ (slot[c] = "user" => newSlot[c] = "user")
    /\ loaded[c] # None => pending[c] # << >>

\* A user without multiple connections has one that is not ending.
OneLive(c, d) ==
    UserOf[c] = UserOf[d] /\ c # d /\ ~IsMcn(c)
        => pc[c] \in {"closed", "closing"} \/ pc[d] \in {"closed", "closing"}

SInv == Types /\ (\A c \in Conns : ChangeOK(c)) /\ (\A c, d \in Conns : OneLive(c, d))

LEMMA ChangesAre ==
  /\ \A c, delta : \A s \in Counted3 : Changes(c, s, delta) = << Change(c, s, delta) >>
  /\ \A c, delta : \A s \in SlotTypes \ Counted3 : Changes(c, s, delta) = << >>
BY DEF Changes, Change, Ctr, Counted3, SlotTypes

LEMMA TwoChanges ==
  ASSUME NEW a, NEW b
  PROVE  << a >> \o << b >> = << a, b >>
<1> DEFINE l == << a >> \o << b >>
           r == << a, b >>
<1>1. << a >> \in Seq({a, b}) /\ << b >> \in Seq({a, b}) OBVIOUS
<1>2. l \in Seq({a, b}) /\ Len(l) = 2 BY <1>1
<1>3. l[1] = a /\ l[2] = b BY <1>1
<1>4. r \in Seq({a, b}) /\ Len(r) = 2 /\ r[1] = a /\ r[2] = b OBVIOUS
<1> HIDE DEF l, r
<1>5. \A i \in 1 .. 2 : l[i] = r[i] BY <1>3, <1>4
<1>6. l = r BY <1>2, <1>4, <1>5, SeqEqual
<1> QED BY <1>6 DEF l, r

LEMMA OneChange ==
  ASSUME NEW a
  PROVE  << >> \o << a >> = << a >>
BY ConcatEmptySeq

LEMMA OfSlot ==
  ASSUME Types, NEW c \in Conns, newSlot[c] # "none", slot[c] = "user" => newSlot[c] = "user"
  PROVE  /\ ChangesOfSlot(c, newSlot[c]) # << >> =>
              /\ newSlot[c] \in Counted3 /\ slot[c] # "user"
              /\ \/ /\ slot[c] \notin Counted3
                    /\ ChangesOfSlot(c, newSlot[c]) = << Change(c, newSlot[c], 1) >>
                 \/ /\ slot[c] \in Counted3
                    /\ ChangesOfSlot(c, newSlot[c]) = << Change(c, slot[c], -1), Change(c, newSlot[c], 1) >>
         /\ ChangesOfSlot(c, newSlot[c]) = << >> /\ TypeOf(newSlot[c]) # TypeOf(slot[c])
              => slot[c] = "none" /\ newSlot[c] = "hooked"
<1>1. slot[c] \in SlotTypes /\ newSlot[c] \in SlotTypes BY DEF Types
<1>2. CASE TypeOf(newSlot[c]) = TypeOf(slot[c]) BY <1>2 DEF ChangesOfSlot
<1>3. CASE TypeOf(newSlot[c]) # TypeOf(slot[c])
  <2>1. ChangesOfSlot(c, newSlot[c]) = Changes(c, slot[c], -1) \o Changes(c, newSlot[c], 1)
    BY <1>3 DEF ChangesOfSlot
  <2>2. slot[c] # "user" BY <1>3
  <2>3. CASE slot[c] \in Counted3
    <3>1. newSlot[c] = "user" BY <1>1, <1>3, <2>2, <2>3 DEF TypeOf, SlotTypes, Counted3
    <3>2. Changes(c, slot[c], -1) = << Change(c, slot[c], -1) >> BY <2>3, ChangesAre
    <3>3. Changes(c, newSlot[c], 1) = << Change(c, newSlot[c], 1) >> BY <3>1, ChangesAre DEF Counted3
    <3>4. ChangesOfSlot(c, newSlot[c]) = << Change(c, slot[c], -1), Change(c, newSlot[c], 1) >>
      BY <2>1, <3>2, <3>3, TwoChanges
    <3> QED BY <3>1, <3>4, <2>2, <2>3 DEF Counted3
  <2>4. CASE slot[c] \notin Counted3
    <3>1. Changes(c, slot[c], -1) = << >> BY <1>1, <2>4, ChangesAre
    <3>2. CASE newSlot[c] \in Counted3
      <4>1. Changes(c, newSlot[c], 1) = << Change(c, newSlot[c], 1) >> BY <3>2, ChangesAre
      <4>2. ChangesOfSlot(c, newSlot[c]) = << Change(c, newSlot[c], 1) >> BY <2>1, <3>1, <4>1, OneChange
      <4> QED BY <4>2, <3>2, <2>2, <2>4
    <3>3. CASE newSlot[c] \notin Counted3
      <4>1. newSlot[c] = "hooked" BY <1>1, <3>3 DEF SlotTypes, Counted3
      <4>2. slot[c] = "none" BY <1>1, <1>3, <2>4, <4>1 DEF SlotTypes, Counted3, TypeOf
      <4>3. Changes(c, newSlot[c], 1) = << >> BY <1>1, <3>3, ChangesAre
      <4>4. ChangesOfSlot(c, newSlot[c]) = << >> BY <2>1, <3>1, <4>3
      <4> QED BY <4>1, <4>2, <4>4
    <3> QED BY <3>2, <3>3
  <2> QED BY <2>3, <2>4
<1> QED BY <1>2, <1>3

LEMMA SlotsFor ==
  ASSUME NEW c \in Conns, NEW kind, NEW hook, NEW granted \in BOOLEAN
  PROVE  /\ SlotFor(c, kind, hook, granted) \in SlotTypes \cup {"rejected"}
         /\ slot[c] = "user" => SlotFor(c, kind, hook, granted) = "user"
         /\ SlotFor(c, kind, hook, granted) = "user" /\ slot[c] # "user" /\ hook # "user"
              => FreeSlots > 0 \/ granted
BY DEF SlotFor, SlotTypes, StandardSlotsRemaining

LEMMA InitSInv == Init => SInv
BY DEF Init, SInv, Types, ChangeOK, OneLive, PCs, SlotTypes, NoUpload, Counters, None

LEMMA HeadsTails ==
  /\ \A a : Head(<< a >>) = a /\ Len(<< a >>) = 1 /\ Tail(<< a >>) = << >>
  /\ \A a, b : Head(<< a, b >>) = a /\ Len(<< a, b >>) = 2 /\ Tail(<< a, b >>) = << b >>
<1>1. ASSUME NEW a PROVE Tail(<< a >>) = << >>
  <2>1. << a >> \in Seq({a}) /\ Len(<< a >>) = 1 OBVIOUS
  <2>2. Tail(<< a >>) \in Seq({a}) /\ Len(Tail(<< a >>)) = 0 BY <2>1
  <2> QED BY <2>2
<1>2. ASSUME NEW a, NEW b PROVE Tail(<< a, b >>) = << b >>
  <2>1. << a, b >> \in Seq({a, b}) /\ Len(<< a, b >>) = 2 /\ << b >> \in Seq({a, b}) OBVIOUS
  <2>2. Tail(<< a, b >>) \in Seq({a, b}) /\ Len(Tail(<< a, b >>)) = 1 /\ Tail(<< a, b >>)[1] = b BY <2>1
  <2> QED BY <2>1, <2>2, SeqEqual
<1> QED BY <1>1, <1>2

\* What the pending changes are while one of them is made.
LEMMA HeadChange ==
  ASSUME Types, NEW c \in Conns, ChangeOK(c), pending[c] # << >>
  PROVE  \/ /\ pc[c] = "count" /\ newSlot[c] \in Counted3 /\ slot[c] # "user"
            /\ Head(pending[c]) = Change(c, newSlot[c], 1) /\ Len(pending[c]) = 1 /\ Tail(pending[c]) = << >>
         \/ /\ pc[c] = "count" /\ newSlot[c] \in Counted3 /\ slot[c] \in Counted3 \ {"user"}
            /\ Head(pending[c]) = Change(c, slot[c], -1) /\ Len(pending[c]) = 2
            /\ Tail(pending[c]) = << Change(c, newSlot[c], 1) >>
         \/ /\ pc[c] = "closing" /\ slot[c] \in Counted3
            /\ Head(pending[c]) = Change(c, slot[c], -1) /\ Len(pending[c]) = 1 /\ Tail(pending[c]) = << >>
<1>1. /\ \A a : Head(<< a >>) = a /\ Len(<< a >>) = 1 /\ Tail(<< a >>) = << >>
      /\ \A a, b : Head(<< a, b >>) = a /\ Len(<< a, b >>) = 2 /\ Tail(<< a, b >>) = << b >>
  BY HeadsTails
<1> QED BY <1>1 DEF ChangeOK, Counted3

\* The ways in which an upload is opened.
LEMMA Opened ==
  ASSUME Types, NEW c \in Conns, OpenUpload(c)
  PROVE  /\ pc[c] = "open"
         /\ UNCHANGED << task, kicked, count, loaded, multi >>
         /\ \/ /\ upload' = [upload EXCEPT ![c] = NoUpload]
               /\ pc' = [pc EXCEPT ![c] = "get"] /\ slotCS' = NoConn
               /\ newSlot' = [newSlot EXCEPT ![c] = "none"] /\ UNCHANGED << slot, pending >>
            \/ /\ upload' = [upload EXCEPT ![c] = [place |-> "running", token |-> NewToken(c)]]
               /\ pending' = [pending EXCEPT ![c] = ChangesOfSlot(c, newSlot[c])]
               /\ \/ /\ ChangesOfSlot(c, newSlot[c]) # << >>
                     /\ pc' = [pc EXCEPT ![c] = "count"] /\ UNCHANGED << slot, newSlot, slotCS >>
                  \/ /\ ChangesOfSlot(c, newSlot[c]) = << >>
                     /\ \/ slot' = slot
                        \/ TypeOf(newSlot[c]) # TypeOf(slot[c]) /\ slot' = [slot EXCEPT ![c] = newSlot[c]]
                     /\ newSlot' = [newSlot EXCEPT ![c] = "none"]
                     /\ \/ pc' = [pc EXCEPT ![c] = "extra"] /\ slotCS' = slotCS
                        \/ pc' = [pc EXCEPT ![c] = "dequeue"] /\ slotCS' = NoConn
BY DEF OpenUpload, AfterSlot

\* The ways in which a counter is changed.
LEMMA CounterChanged ==
  ASSUME Types, NEW c \in Conns, ChangeOK(c), ChangeCounter(c)
  PROVE  /\ UNCHANGED << upload, task, kicked >>
         /\ count' = Counted(c, Head(pending[c]), loaded[c])
         /\ loaded[c] # None /\ loaded' = [loaded EXCEPT ![c] = None]
         /\ pending' = [pending EXCEPT ![c] = Tail(@)]
         /\ multi' = IF Head(pending[c]).counter = "mcn"
                     THEN [multi EXCEPT ![UserOf[c]] = @ + Head(pending[c]).delta] ELSE multi
         /\ \/ /\ pc[c] = "count" /\ newSlot[c] \in Counted3 /\ slot[c] # "user"
               /\ Head(pending[c]) = Change(c, newSlot[c], 1) /\ pending'[c] = << >>
               /\ slot' = [slot EXCEPT ![c] = newSlot[c]]
               /\ newSlot' = [newSlot EXCEPT ![c] = "none"]
               /\ \/ pc' = [pc EXCEPT ![c] = "extra"] /\ slotCS' = slotCS
                  \/ pc' = [pc EXCEPT ![c] = "dequeue"] /\ slotCS' = NoConn
            \/ /\ pc[c] = "count" /\ newSlot[c] \in Counted3 /\ slot[c] \in Counted3 \ {"user"}
               /\ Head(pending[c]) = Change(c, slot[c], -1) /\ Len(pending[c]) = 2
               /\ pending'[c] = << Change(c, newSlot[c], 1) >>
               /\ UNCHANGED << pc, slot, newSlot, slotCS >>
            \/ /\ pc[c] = "closing" /\ slot[c] \in Counted3
               /\ Head(pending[c]) = Change(c, slot[c], -1) /\ pending'[c] = << >>
               /\ slot' = [slot EXCEPT ![c] = "none"] /\ pc' = [pc EXCEPT ![c] = "closed"]
               /\ UNCHANGED << newSlot, slotCS >>
<1>1. pending[c] # << >> BY DEF ChangeCounter
<1>2. pending' = [pending EXCEPT ![c] = Tail(@)] /\ pending'[c] = Tail(pending[c]) BY DEF ChangeCounter, Types
<1>3. CASE Len(pending[c]) # 1
  <2>1. UNCHANGED << pc, slot, newSlot, slotCS >> BY <1>3 DEF ChangeCounter
  <2> QED BY <1>1, <1>2, <1>3, <2>1, HeadChange DEF ChangeCounter
<1>4. CASE Len(pending[c]) = 1 /\ pc[c] = "count"
  <2>1. slot' = [slot EXCEPT ![c] = newSlot[c]] /\ AfterSlot(c, TRUE, newSlot[c]) BY <1>4 DEF ChangeCounter
  <2>2. /\ newSlot' = [newSlot EXCEPT ![c] = "none"]
        /\ \/ pc' = [pc EXCEPT ![c] = "extra"] /\ slotCS' = slotCS
           \/ pc' = [pc EXCEPT ![c] = "dequeue"] /\ slotCS' = NoConn
    BY <2>1 DEF AfterSlot
  <2>3. /\ newSlot[c] \in Counted3 /\ slot[c] # "user"
        /\ Head(pending[c]) = Change(c, newSlot[c], 1) /\ pending'[c] = << >>
    <3>1. Len(pending[c]) # 2 /\ pc[c] # "closing" BY <1>4
    <3>2. \/ /\ newSlot[c] \in Counted3 /\ slot[c] # "user"
             /\ Head(pending[c]) = Change(c, newSlot[c], 1) /\ Tail(pending[c]) = << >>
          \/ Len(pending[c]) = 2 \/ pc[c] = "closing"
      BY <1>1, HeadChange
    <3> QED BY <1>2, <3>1, <3>2
  <2> QED BY <1>2, <1>4, <2>1, <2>2, <2>3 DEF ChangeCounter
<1>5. CASE Len(pending[c]) = 1 /\ pc[c] # "count"
  <2>1. /\ slot' = [slot EXCEPT ![c] = "none"] /\ pc' = [pc EXCEPT ![c] = "closed"]
        /\ UNCHANGED << newSlot, slotCS >>
    BY <1>5 DEF ChangeCounter
  <2>2. pc[c] = "closing" /\ slot[c] \in Counted3 /\ Head(pending[c]) = Change(c, slot[c], -1) /\ pending'[c] = << >>
    BY <1>1, <1>2, <1>5, HeadChange
  <2> QED BY <1>2, <2>1, <2>2 DEF ChangeCounter
<1> QED BY <1>3, <1>4, <1>5

\* The decision about the slot of a request.
LEMMA Parsed ==
  ASSUME Types, NEW c \in Conns, ParseSlot(c)
  PROVE  /\ pc[c] = "get" /\ slotCS = NoConn /\ c \notin kicked
         /\ UNCHANGED << slot, upload, task, count, pending, loaded, multi >>
         /\ \/ UNCHANGED << pc, newSlot, slotCS >>
            \/ /\ slotCS' = c /\ pc' = [pc EXCEPT ![c] = "refuse"]
               /\ newSlot' = [newSlot EXCEPT ![c] = "none"]
            \/ \E s \in SlotTypes \ {"none"} :
                  /\ slot[c] = "user" => s = "user"
                  /\ s = "user" /\ slot[c] # "user" /\ "user" \notin HookAnswers
                       => FreeSlots > 0 \/ TRUE \in LowSpeedGrants
                  /\ newSlot' = [newSlot EXCEPT ![c] = s]
                  /\ slotCS' = c /\ pc' = [pc EXCEPT ![c] = "open"]
<1>1. PICK kind \in Kinds, hook \in HookAnswers, granted \in LowSpeedGrants :
         LET s == SlotFor(c, kind, hook, granted)
         IN  IF s = "rejected"
             THEN UNCHANGED << pc, newSlot, slotCS >>
             ELSE /\ pc' = [pc EXCEPT ![c] = IF s = "none" THEN "refuse" ELSE "open"]
                  /\ newSlot' = [newSlot EXCEPT ![c] = s]
                  /\ slotCS' = c
  BY DEF ParseSlot
<1> DEFINE s == SlotFor(c, kind, hook, granted)
<1>2. granted \in BOOLEAN BY DEF LowSpeedGrants
<1>3. /\ s \in SlotTypes \cup {"rejected"}
      /\ slot[c] = "user" => s = "user"
      /\ s = "user" /\ slot[c] # "user" /\ hook # "user" => FreeSlots > 0 \/ granted
  BY <1>2, SlotsFor
<1>4. granted => TRUE \in LowSpeedGrants BY <1>2, <1>1
<1> HIDE DEF s
<1>5. pc[c] = "get" /\ slotCS = NoConn /\ c \notin kicked
      /\ UNCHANGED << slot, upload, task, count, pending, loaded, multi >>
  BY DEF ParseSlot
<1>6. CASE s = "rejected" BY <1>1, <1>5, <1>6 DEF s
<1>7. CASE s = "none"
  <2>1. slotCS' = c /\ pc' = [pc EXCEPT ![c] = "refuse"] /\ newSlot' = [newSlot EXCEPT ![c] = "none"]
    BY <1>1, <1>7 DEF s
  <2> QED BY <2>1, <1>5
<1>8. CASE s \notin {"none", "rejected"}
  <2>1. slotCS' = c /\ pc' = [pc EXCEPT ![c] = "open"] /\ newSlot' = [newSlot EXCEPT ![c] = s]
    BY <1>1, <1>8 DEF s
  <2>2. "user" \notin HookAnswers => hook # "user" BY <1>1
  <2> QED BY <2>1, <2>2, <1>3, <1>4, <1>5, <1>8
<1> QED BY <1>6, <1>7, <1>8

\* Steps of a connection that has no change of its slot under way.
Ordinary(c) ==
    RemoveQueue(c) \/ TransmitDone(c) \/ ExpireDelayed(c) \/ RemoveDelayed(c) \/ Kick(c)

LEMMA Ordinaries ==
  ASSUME Types, NEW c \in Conns, Ordinary(c)
  PROVE  /\ UNCHANGED << slot, newSlot, slotCS, count, pending, loaded, multi >>
         /\ \/ pc' = pc
            \/ pc[c] = "dequeue" /\ pc' = [pc EXCEPT ![c] = "send"]
            \/ pc[c] = "send" /\ pc' = [pc EXCEPT ![c] = "get"]
         /\ upload' \in [Conns -> [place : {"none", "running", "delayed"}, token : {0, 1}]]
         /\ task' \in [Conns -> {None, 0, 1}]
<1>1. CASE RemoveQueue(c) BY <1>1 DEF RemoveQueue, slotVars, Types
<1>2. CASE TransmitDone(c) BY <1>2 DEF TransmitDone, slotVars, Types, NoUpload
<1>3. CASE ExpireDelayed(c) BY <1>3 DEF ExpireDelayed, slotVars, Types
<1>4. CASE RemoveDelayed(c) BY <1>4 DEF RemoveDelayed, slotVars, Types, NoUpload
<1>5. CASE Kick(c) BY <1>5 DEF Kick, slotVars, Types
<1> QED BY <1>1, <1>2, <1>3, <1>4, <1>5 DEF Ordinary

\* Steps of the queue, the timer and the users.
Elsewhere ==
    \/ TimerSecond \/ NotifyQueuedUsers
    \/ \E u \in Users : ForgetNotified(u) \/ UserDisconnected(u) \/ UserConnected(u)
    \/ UNCHANGED vars

LEMMA Elsewheres ==
  ASSUME Elsewhere
  PROVE  UNCHANGED << pc, upload, task, kicked, slot, newSlot, slotCS, count, pending, loaded, multi >>
BY DEF Elsewhere, TimerSecond, NotifyQueuedUsers, ForgetNotified, UserDisconnected, UserConnected, slotVars, vars

LEMMA NextTypes == SInv /\ [Next]_vars => Types'
<1> SUFFICES ASSUME SInv, [Next]_vars PROVE Types' OBVIOUS
<1>a. Types /\ \A c \in Conns : ChangeOK(c) BY DEF SInv
<1>p. \A c \in Conns : \A x \in PCs : pc' = [pc EXCEPT ![c] = x] => pc' \in [Conns -> PCs] BY <1>a DEF Types
<1>s. /\ \A c \in Conns : \A x \in SlotTypes : slot' = [slot EXCEPT ![c] = x] => slot' \in [Conns -> SlotTypes]
      /\ \A c \in Conns : \A x \in SlotTypes :
            newSlot' = [newSlot EXCEPT ![c] = x] => newSlot' \in [Conns -> SlotTypes]
  <2>1. slot \in [Conns -> SlotTypes] /\ newSlot \in [Conns -> SlotTypes] BY <1>a DEF Types
  <2> QED BY <2>1
<1>n. \A c \in Conns : newSlot[c] \in SlotTypes BY <1>a DEF Types
<1>1. ASSUME NEW c \in Conns, Connect(c) PROVE Types'
  BY <1>1, <1>a DEF Connect, slotVars, Types, PCs
<1>2. ASSUME NEW c \in Conns, ParseSlot(c) PROVE Types'
  <2>1. /\ UNCHANGED << slot, upload, task, count, pending, loaded, multi >>
        /\ \/ UNCHANGED << pc, newSlot >>
           \/ \E x \in PCs, y \in SlotTypes : pc' = [pc EXCEPT ![c] = x] /\ newSlot' = [newSlot EXCEPT ![c] = y]
    BY <1>2, <1>a, Parsed DEF PCs, SlotTypes
  <2> QED BY <2>1, <1>p, <1>s, <1>a DEF Types
<1>3. ASSUME NEW c \in Conns, Refuse(c) PROVE Types'
  BY <1>3, <1>a DEF Refuse, Types, PCs
<1>4. ASSUME NEW c \in Conns, OpenUpload(c) PROVE Types'
  <2>1. NewToken(c) \in {0, 1} BY <1>a DEF NewToken, None, Types
  <2>2. upload' \in [Conns -> [place : {"none", "running", "delayed"}, token : {0, 1}]]
    BY <1>4, <2>1, <1>a, Opened DEF NoUpload, Types
  <2>3. pc' \in [Conns -> PCs] BY <1>4, <1>a, <1>p, Opened DEF PCs
  <2>4. slot' \in [Conns -> SlotTypes]
    <3>1. slot' = slot \/ slot' = [slot EXCEPT ![c] = newSlot[c]] BY <1>4, <1>a, Opened
    <3> QED BY <3>1, <1>a, <1>s, <1>n DEF Types
  <2>5. newSlot' \in [Conns -> SlotTypes] BY <1>4, <1>a, <1>s, Opened DEF Types, SlotTypes
  <2>6. DOMAIN pending' = Conns /\ UNCHANGED << task, count, loaded, multi >> BY <1>4, <1>a, Opened DEF Types
  <2> QED BY <2>2, <2>3, <2>4, <2>5, <2>6, <1>a DEF Types
<1>5. ASSUME NEW c \in Conns, LoadCounter(c) PROVE Types'
  <2>1. pending[c] # << >> BY <1>5 DEF LoadCounter
  <2>2. \E s, delta : Head(pending[c]) = Change(c, s, delta) BY <1>a, <2>1, HeadChange
  <2>3. Head(pending[c]).counter \in Counters BY <2>2 DEF Change, Ctr, Counters
  <2>4. loaded' \in [Conns -> {None} \cup 0 .. 255]
    <3>1. PICK x \in Counters : loaded' = [loaded EXCEPT ![c] = count[x]]
      BY <1>5, <2>3 DEF LoadCounter, Counters
    <3>2. count[x] \in 0 .. 255 /\ loaded \in [Conns -> {None} \cup 0 .. 255] BY <1>a DEF Types
    <3> QED BY <3>1, <3>2
  <2> QED BY <1>5, <2>4, <1>a DEF LoadCounter, Types
<1>6. ASSUME NEW c \in Conns, ChangeCounter(c) PROVE Types'
  <2>0. pending[c] # << >> BY <1>6 DEF ChangeCounter
  <2>1. Head(pending[c]).counter \in Counters /\ Head(pending[c]).delta \in {-1, 1}
    <3>1. \E s : \E delta \in {-1, 1} : Head(pending[c]) = Change(c, s, delta) BY <1>a, <2>0, HeadChange
    <3> QED BY <3>1 DEF Change, Ctr, Counters
  <2>2. loaded[c] \in 0 .. 255 BY <1>6, <1>a DEF ChangeCounter, None, Types
  <2>3. count' \in [Counters -> 0 .. 255]
    <3>1. Reserved(UserOf[c], Head(pending[c]).delta) \in {-1, 0, 1} BY DEF Reserved
    <3>2. \A n \in Int : Byte(n) \in 0 .. 255 BY DEF Byte
    <3>3. count' = Counted(c, Head(pending[c]), loaded[c]) BY <1>6 DEF ChangeCounter
    <3>4. count["mcn"] \in 0 .. 255 /\ count["users"] \in 0 .. 255 /\ count \in [Counters -> 0 .. 255]
      BY <1>a DEF Types, Counters
    <3>5. CASE Head(pending[c]).counter = "mcn"
      <4> DEFINE r == Reserved(UserOf[c], Head(pending[c]).delta)
                 m == Byte(count["mcn"] + Head(pending[c]).delta)
                 n == IF r = 0 THEN count["users"] ELSE Byte(loaded[c] + r)
      <4>1. m \in 0 .. 255 /\ n \in 0 .. 255
        <5>1. count["mcn"] + Head(pending[c]).delta \in Int /\ loaded[c] + r \in Int BY <2>1, <2>2, <3>1, <3>4
        <5> QED BY <5>1, <3>2, <3>4
      <4>2. count' = [count EXCEPT !["mcn"] = m, !["users"] = n] BY <3>3, <3>5 DEF Counted
      <4> HIDE DEF m, n
      <4> QED BY <4>1, <4>2, <3>4
    <3>6. CASE Head(pending[c]).counter # "mcn"
      <4> DEFINE n == Byte(loaded[c] + Head(pending[c]).delta)
      <4>1. n \in 0 .. 255
        <5>1. loaded[c] + Head(pending[c]).delta \in Int BY <2>1, <2>2
        <5> QED BY <5>1, <3>2
      <4>2. count' = [count EXCEPT ![Head(pending[c]).counter] = n] BY <3>3, <3>6 DEF Counted
      <4> HIDE DEF n
      <4> QED BY <4>1, <4>2, <3>4
    <3> QED BY <3>5, <3>6
  <2>4. pc' \in [Conns -> PCs] BY <1>6, <1>a, <1>p, CounterChanged DEF PCs, Types
  <2>5. slot' \in [Conns -> SlotTypes] BY <1>6, <1>a, <1>s, <1>n, CounterChanged DEF SlotTypes, Types
  <2>6. newSlot' \in [Conns -> SlotTypes] BY <1>6, <1>a, <1>s, CounterChanged DEF SlotTypes, Types
  <2>7. UNCHANGED << upload, task >> /\ DOMAIN pending' = Conns /\ DOMAIN multi' = Users
        /\ loaded' \in [Conns -> {None} \cup 0 .. 255]
    <3>1. UNCHANGED << upload, task >> BY <1>6, <1>a, CounterChanged
    <3>2. DOMAIN pending' = Conns BY <1>6, <1>a, CounterChanged DEF Types
    <3>3. DOMAIN multi' = Users BY <1>6, <1>a DEF Types, ChangeCounter
    <3>4. loaded' = [loaded EXCEPT ![c] = None] BY <1>6, <1>a, CounterChanged
    <3>5. loaded' \in [Conns -> {None} \cup 0 .. 255] BY <3>4, <1>a DEF Types
    <3> QED BY <3>1, <3>2, <3>3, <3>5
  <2> QED BY <2>3, <2>4, <2>5, <2>6, <2>7, <1>a DEF Types
<1>7. ASSUME NEW c \in Conns, Ordinary(c) PROVE Types'
  BY <1>7, <1>a, <1>p, Ordinaries DEF Types, PCs
<1>8. ASSUME NEW c \in Conns, DisconnectExtra(c) PROVE Types'
  BY <1>8, <1>a DEF DisconnectExtra, Types, PCs
<1>9. ASSUME NEW c \in Conns, Failed(c) PROVE Types'
  <2>1. pc' = [pc EXCEPT ![c] = "closed"] \/ pc' = [pc EXCEPT ![c] = "closing"] BY <1>9 DEF Failed
  <2>2. slot' = [slot EXCEPT ![c] = "none"] \/ slot' = slot BY <1>9 DEF Failed
  <2>3. pc' \in [Conns -> PCs] /\ slot' \in [Conns -> SlotTypes]
    BY <2>1, <2>2, <1>p, <1>s, <1>a DEF PCs, SlotTypes, Types
  <2> QED BY <1>9, <2>3, <1>a DEF Failed, NoUpload, Types
<1>10. CASE Elsewhere BY <1>10, <1>a, Elsewheres DEF Types
<1> QED BY <1>1, <1>2, <1>3, <1>4, <1>5, <1>6, <1>7, <1>8, <1>9, <1>10 DEF Next, Ordinary, Elsewhere

Live(c) == pc[c] \notin {"closed", "closing"}

LEMMA NextSInv == SInv /\ [Next]_vars => SInv'
<1> SUFFICES ASSUME SInv, [Next]_vars
             PROVE  (\A c \in Conns : ChangeOK(c)') /\ (\A c, d \in Conns : OneLive(c, d)')
  BY NextTypes DEF SInv
<1>a. Types /\ (\A c \in Conns : ChangeOK(c)) /\ (\A c, d \in Conns : OneLive(c, d)) BY DEF SInv
<1>y. /\ pc \in [Conns -> PCs] /\ slot \in [Conns -> SlotTypes] /\ newSlot \in [Conns -> SlotTypes]
      /\ loaded \in [Conns -> {None} \cup 0 .. 255] /\ DOMAIN pending = Conns
  BY <1>a DEF Types
\* The other connections are left alone.
<1>k. ASSUME NEW c \in Conns, ChangeOK(c)', slotCS' = slotCS \/ slotCS \in {c, NoConn},
             \A d \in Conns \ {c} : /\ pc'[d] = pc[d] /\ slot'[d] = slot[d] /\ newSlot'[d] = newSlot[d]
                                    /\ pending'[d] = pending[d] /\ loaded'[d] = loaded[d]
      PROVE  \A d \in Conns : ChangeOK(d)'
  <2> SUFFICES ASSUME NEW d \in Conns \ {c} PROVE ChangeOK(d)' BY <1>k
  <2>1. ChangeOK(d) BY <1>a
  <2>2. pc[d] \in {"refuse", "open", "count", "extra"} => slotCS = d /\ slotCS' = d
    BY <2>1, <1>k, SlotsAssumption DEF ChangeOK
  <2> QED BY <1>k, <2>1, <2>2 DEF ChangeOK, Change, Ctr
<1>l. ASSUME \A d \in Conns : Live(d)' => Live(d)
      PROVE  \A c, d \in Conns : OneLive(c, d)'
  BY <1>l, <1>a DEF OneLive, Live
<1> DEFINE Goal == (\A c \in Conns : ChangeOK(c)') /\ (\A c, d \in Conns : OneLive(c, d)')
<1>1. ASSUME NEW c \in Conns, Connect(c) PROVE Goal
  <2>1. /\ pc[c] = "closed" /\ pc' = [pc EXCEPT ![c] = "get"]
        /\ UNCHANGED << slot, newSlot, slotCS, pending, loaded >>
        /\ IsMcn(c) \/ \A d \in Conns : UserOf[d] = UserOf[c] => pc[d] \in {"closed", "closing"}
    BY <1>1 DEF Connect, slotVars
  <2>2. ChangeOK(c)' BY <2>1, <1>a, <1>y DEF ChangeOK
  <2>3. \A d \in Conns : ChangeOK(d)' BY <2>1, <2>2, <1>k, <1>y
  <2>4. ASSUME NEW d \in Conns, NEW e \in Conns PROVE OneLive(d, e)'
    <3>1. OneLive(d, e) BY <1>a
    <3>2. UserOf[d] = UserOf[e] /\ ~IsMcn(d) => ~IsMcn(e) BY DEF IsMcn
    <3>3. CASE d = c BY <3>2, <3>3, <2>1, <1>y DEF OneLive
    <3>4. CASE d # c /\ e = c BY <3>2, <3>4, <2>1, <1>y DEF OneLive
    <3>5. CASE d # c /\ e # c BY <3>1, <3>5, <2>1, <1>y DEF OneLive
    <3> QED BY <3>3, <3>4, <3>5
  <2> QED BY <2>3, <2>4
<1>2. ASSUME NEW c \in Conns, ParseSlot(c) PROVE Goal
  <2>1. /\ pc[c] = "get" /\ slotCS = NoConn /\ UNCHANGED << slot, pending, loaded >>
        /\ \/ UNCHANGED << pc, newSlot, slotCS >>
           \/ slotCS' = c /\ pc' = [pc EXCEPT ![c] = "refuse"] /\ newSlot' = [newSlot EXCEPT ![c] = "none"]
           \/ \E s \in SlotTypes \ {"none"} :
                  /\ slot[c] = "user" => s = "user"
                  /\ newSlot' = [newSlot EXCEPT ![c] = s]
                  /\ slotCS' = c /\ pc' = [pc EXCEPT ![c] = "open"]
    BY <1>2, <1>a, Parsed
  <2>2. pending[c] = << >> /\ loaded[c] = None BY <2>1, <1>a DEF ChangeOK
  <2>3. ChangeOK(c)' BY <2>1, <2>2, <1>a, <1>y DEF ChangeOK
  <2>4. \A d \in Conns \ {c} : pc'[d] = pc[d] /\ newSlot'[d] = newSlot[d] BY <2>1, <1>y
  <2>5. pc'[c] \in {"get", "refuse", "open"} BY <2>1, <1>y
  <2>6. \A d \in Conns : ChangeOK(d)' BY <2>1, <2>3, <2>4, <1>k
  <2>7. \A d \in Conns : Live(d)' => Live(d) BY <2>1, <2>4 DEF Live
  <2> QED BY <2>6, <2>7, <1>l
<1>3. ASSUME NEW c \in Conns, Refuse(c) PROVE Goal
  <2>1. /\ pc[c] = "refuse" /\ slotCS' = NoConn /\ pc' = [pc EXCEPT ![c] = "get"]
        /\ UNCHANGED << slot, newSlot, pending, loaded >>
    BY <1>3 DEF Refuse
  <2>2. slotCS = c BY <2>1, <1>a DEF ChangeOK
  <2>3. ChangeOK(c)' BY <2>1, <1>a, <1>y DEF ChangeOK
  <2>4. \A d \in Conns : ChangeOK(d)' BY <2>1, <2>2, <2>3, <1>k, <1>y
  <2>5. \A d \in Conns : Live(d)' => Live(d) BY <2>1, <1>y DEF Live
  <2> QED BY <2>4, <2>5, <1>l
<1>4. ASSUME NEW c \in Conns, OpenUpload(c) PROVE Goal
  <2>1. pc[c] = "open" /\ loaded' = loaded BY <1>4, <1>a, Opened
  <2>2. /\ slotCS = c /\ newSlot[c] # "none" /\ (slot[c] = "user" => newSlot[c] = "user")
        /\ pending[c] = << >> /\ loaded[c] = None
    BY <2>1, <1>a DEF ChangeOK
  <2>3. \A d \in Conns \ {c} : /\ pc'[d] = pc[d] /\ slot'[d] = slot[d] /\ newSlot'[d] = newSlot[d]
                               /\ pending'[d] = pending[d]
    BY <1>4, <1>a, <1>y, Opened
  <2>4. \/ /\ pc'[c] \in {"get", "dequeue"} /\ pending'[c] = << >>
        \/ /\ pc'[c] = "extra" /\ pending'[c] = << >> /\ slotCS' = slotCS
        \/ /\ pc'[c] = "count" /\ slotCS' = slotCS /\ slot'[c] = slot[c] /\ newSlot'[c] = newSlot[c]
           /\ pending'[c] = ChangesOfSlot(c, newSlot[c]) /\ ChangesOfSlot(c, newSlot[c]) # << >>
    BY <1>4, <2>2, <1>a, <1>y, Opened
  <2>5. ChangeOK(c)'
    <3>1. CASE pc'[c] \in {"get", "dequeue"} /\ pending'[c] = << >>
      BY <3>1, <2>1, <2>2 DEF ChangeOK
    <3>2. CASE pc'[c] = "extra" /\ pending'[c] = << >> /\ slotCS' = slotCS
      BY <3>2, <2>1, <2>2 DEF ChangeOK
    <3>3. CASE /\ pc'[c] = "count" /\ slotCS' = slotCS /\ slot'[c] = slot[c] /\ newSlot'[c] = newSlot[c]
               /\ pending'[c] = ChangesOfSlot(c, newSlot[c]) /\ ChangesOfSlot(c, newSlot[c]) # << >>
      <4>1. /\ newSlot'[c] \in Counted3 /\ slot'[c] # "user"
            /\ \/ pending'[c] = << Change(c, newSlot'[c], 1) >>
               \/ slot'[c] \in Counted3 /\ pending'[c] = << Change(c, slot'[c], -1), Change(c, newSlot'[c], 1) >>
        BY <3>3, <2>2, <1>a, OfSlot
      <4> QED BY <3>3, <4>1, <2>1, <2>2 DEF ChangeOK, Change, Ctr
    <3> QED BY <2>4, <3>1, <3>2, <3>3
  <2>6. \A d \in Conns : ChangeOK(d)' BY <2>1, <2>2, <2>3, <2>5, <1>k
  <2>7. \A d \in Conns : Live(d)' => Live(d) BY <2>1, <2>3 DEF Live
  <2> QED BY <2>6, <2>7, <1>l
<1>5. ASSUME NEW c \in Conns, LoadCounter(c) PROVE Goal
  <2>1. /\ pending[c] # << >> /\ UNCHANGED << pc, slot, newSlot, slotCS, pending >>
        /\ \A d \in Conns \ {c} : loaded'[d] = loaded[d]
    BY <1>5, <1>y DEF LoadCounter
  <2>2. ChangeOK(c)' BY <2>1, <1>a DEF ChangeOK, Change, Ctr
  <2>3. \A d \in Conns : ChangeOK(d)' BY <2>1, <2>2, <1>k
  <2>4. \A d \in Conns : Live(d)' => Live(d) BY <2>1 DEF Live
  <2> QED BY <2>3, <2>4, <1>l
<1>6. ASSUME NEW c \in Conns, ChangeCounter(c) PROVE Goal
  <2>1. /\ loaded' = [loaded EXCEPT ![c] = None] /\ pending' = [pending EXCEPT ![c] = Tail(@)]
        /\ \/ /\ pc[c] = "count" /\ pending'[c] = << >>
              /\ slot' = [slot EXCEPT ![c] = newSlot[c]]
              /\ newSlot' = [newSlot EXCEPT ![c] = "none"]
              /\ \/ pc' = [pc EXCEPT ![c] = "extra"] /\ slotCS' = slotCS
                 \/ pc' = [pc EXCEPT ![c] = "dequeue"] /\ slotCS' = NoConn
           \/ /\ pc[c] = "count" /\ newSlot[c] \in Counted3 /\ slot[c] \in Counted3 \ {"user"}
              /\ pending'[c] = << Change(c, newSlot[c], 1) >>
              /\ UNCHANGED << pc, slot, newSlot, slotCS >>
           \/ /\ pc[c] = "closing" /\ pending'[c] = << >>
              /\ slot' = [slot EXCEPT ![c] = "none"] /\ pc' = [pc EXCEPT ![c] = "closed"]
              /\ UNCHANGED << newSlot, slotCS >>
    BY <1>6, <1>a, CounterChanged
  <2>2. pc[c] = "count" => slotCS = c BY <1>a DEF ChangeOK
  <2>3. \A d \in Conns \ {c} : /\ pc'[d] = pc[d] /\ slot'[d] = slot[d] /\ newSlot'[d] = newSlot[d]
                               /\ pending'[d] = pending[d] /\ loaded'[d] = loaded[d]
    BY <2>1, <1>y
  <2>4. loaded'[c] = None BY <2>1, <1>y
  <2>5. ChangeOK(c)'
    <3>1. CASE /\ pc[c] = "count" /\ pending'[c] = << >>
               /\ \/ pc' = [pc EXCEPT ![c] = "extra"] /\ slotCS' = slotCS
                  \/ pc' = [pc EXCEPT ![c] = "dequeue"] /\ slotCS' = NoConn
      <4>1. pc'[c] = "dequeue" \/ (pc'[c] = "extra" /\ slotCS' = c) BY <3>1, <2>2, <1>y
      <4> QED BY <3>1, <4>1, <2>4 DEF ChangeOK
    <3>2. CASE /\ pc[c] = "count" /\ newSlot[c] \in Counted3 /\ slot[c] \in Counted3 \ {"user"}
               /\ pending'[c] = << Change(c, newSlot[c], 1) >>
               /\ UNCHANGED << pc, slot, newSlot, slotCS >>
      BY <3>2, <2>2, <2>4 DEF ChangeOK, Change, Ctr
    <3>3. CASE /\ pc[c] = "closing" /\ pending'[c] = << >>
               /\ slot' = [slot EXCEPT ![c] = "none"] /\ pc' = [pc EXCEPT ![c] = "closed"]
      <4>1. pc'[c] = "closed" /\ slot'[c] = "none" BY <3>3, <1>y
      <4> QED BY <3>3, <4>1, <2>4 DEF ChangeOK
    <3> QED BY <2>1, <3>1, <3>2, <3>3
  <2>6. slotCS' = slotCS \/ slotCS \in {c, NoConn} BY <2>1, <2>2
  <2>7. \A d \in Conns : ChangeOK(d)' BY <2>3, <2>5, <2>6, <1>k
  <2>8. Live(c)' => Live(c) BY <2>1, <1>y DEF Live
  <2>9. \A d \in Conns : Live(d)' => Live(d) BY <2>3, <2>8 DEF Live
  <2> QED BY <2>7, <2>9, <1>l
<1>7. ASSUME NEW c \in Conns, Ordinary(c) PROVE Goal
  <2>1. /\ UNCHANGED << slot, newSlot, slotCS, count, pending, loaded, multi >>
        /\ \/ pc' = pc
           \/ pc[c] = "dequeue" /\ pc' = [pc EXCEPT ![c] = "send"]
           \/ pc[c] = "send" /\ pc' = [pc EXCEPT ![c] = "get"]
    BY <1>7, <1>a, Ordinaries
  <2>2. /\ \A d \in Conns \ {c} : pc'[d] = pc[d]
        /\ pc'[c] = pc[c] \/ (pc[c] \in {"dequeue", "send"} /\ pc'[c] \in {"send", "get"})
    BY <2>1, <1>y
  <2>3. ChangeOK(c)' BY <2>1, <2>2, <1>a DEF ChangeOK, Change, Ctr
  <2>4. \A d \in Conns : ChangeOK(d)' BY <2>1, <2>2, <2>3, <1>k
  <2>5. \A d \in Conns : Live(d)' => Live(d) BY <2>2 DEF Live
  <2> QED BY <2>4, <2>5, <1>l
<1>8. ASSUME NEW c \in Conns, DisconnectExtra(c) PROVE Goal
  <2>1. /\ pc[c] = "extra" /\ slotCS' = NoConn /\ pc' = [pc EXCEPT ![c] = "dequeue"]
        /\ UNCHANGED << slot, newSlot, pending, loaded >>
    BY <1>8 DEF DisconnectExtra
  <2>2. slotCS = c BY <2>1, <1>a DEF ChangeOK
  <2>3. ChangeOK(c)' BY <2>1, <1>a, <1>y DEF ChangeOK
  <2>4. \A d \in Conns : ChangeOK(d)' BY <2>1, <2>2, <2>3, <1>k, <1>y
  <2>5. \A d \in Conns : Live(d)' => Live(d) BY <2>1, <1>y DEF Live
  <2> QED BY <2>4, <2>5, <1>l
<1>9. ASSUME NEW c \in Conns, Failed(c) PROVE Goal
  <2>1. /\ pc[c] \in {"get", "send"} /\ pending' = [pending EXCEPT ![c] = Changes(c, slot[c], -1)]
        /\ UNCHANGED << newSlot, slotCS, loaded >>
        /\ \/ /\ Changes(c, slot[c], -1) = << >>
              /\ pc' = [pc EXCEPT ![c] = "closed"] /\ slot' = [slot EXCEPT ![c] = "none"]
           \/ /\ Changes(c, slot[c], -1) # << >>
              /\ pc' = [pc EXCEPT ![c] = "closing"] /\ slot' = slot
    BY <1>9 DEF Failed
  <2>2. loaded[c] = None BY <2>1, <1>a DEF ChangeOK
  <2>3. \A d \in Conns \ {c} : pc'[d] = pc[d] /\ slot'[d] = slot[d] /\ pending'[d] = pending[d]
    BY <2>1, <1>y
  <2>4. \/ pc'[c] = "closed" /\ slot'[c] = "none" /\ pending'[c] = << >>
        \/ /\ pc'[c] = "closing" /\ slot'[c] = slot[c] /\ slot[c] \in Counted3
           /\ pending'[c] = << Change(c, slot[c], -1) >>
    <3>1. CASE Changes(c, slot[c], -1) = << >> BY <2>1, <3>1, <1>y
    <3>2. CASE Changes(c, slot[c], -1) # << >>
      <4>1. slot[c] \in Counted3 BY <3>2, <1>y, ChangesAre
      <4> QED BY <2>1, <3>2, <4>1, <1>y, ChangesAre
    <3> QED BY <3>1, <3>2
  <2>5. ChangeOK(c)' BY <2>1, <2>2, <2>4 DEF ChangeOK, Change, Ctr
  <2>6. \A d \in Conns : ChangeOK(d)' BY <2>1, <2>3, <2>5, <1>k
  <2>7. \A d \in Conns : Live(d)' => Live(d) BY <2>1, <2>3 DEF Live
  <2> QED BY <2>6, <2>7, <1>l
<1>10. CASE Elsewhere
  <2>1. UNCHANGED << pc, slot, newSlot, slotCS, pending, loaded >> BY <1>10, Elsewheres
  <2>2. \A d \in Conns : ChangeOK(d)' BY <2>1, <1>a DEF ChangeOK, Change, Ctr
  <2>3. \A d \in Conns : Live(d)' => Live(d) BY <2>1 DEF Live
  <2> QED BY <2>2, <2>3, <1>l
<1> QED BY <1>1, <1>2, <1>3, <1>4, <1>5, <1>6, <1>7, <1>8, <1>9, <1>10 DEF Next, Ordinary, Elsewhere

-----------------------------------------------------------------------------
(* The counters.  Between the two changes of an update a connection holds   *)
(* no slot; otherwise the counters know the slot it has.                    *)

Booked(c) == IF slot[c] \notin Counted3 \/ (pc[c] = "count" /\ Len(pending[c]) = 1) THEN "none" ELSE slot[c]

Holding(s) == {c \in Conns : Booked(c) = s}
Plain == {c \in Conns : Booked(c) = "user" /\ ~IsMcn(c)}
Mcns == {c \in Conns : Booked(c) = "user" /\ IsMcn(c)}
McnsOf(u) == {c \in Conns : Booked(c) = "user" /\ IsMcn(c) /\ UserOf[c] = u}
McnHolders == {u \in Users : McnsOf(u) # {}}

\* The counter that is read and written in two steps.
Key(c) == LET counter == Head(pending[c]).counter IN IF counter = "mcn" THEN "users" ELSE counter

LoadOK ==
    \A c \in Conns : loaded[c] # None =>
        loaded[c] = count[Key(c)] /\ \A d \in Conns \ {c} : loaded[d] = None

CountOK ==
    /\ \A u \in Users : multi[u] = Cardinality(McnsOf(u))
    /\ count["extra"] = Cardinality(Holding("mini"))
    /\ count["small"] = Cardinality(Holding("mcn"))
    /\ count["mcn"] = Cardinality(Mcns)
    /\ count["users"] = Cardinality(Plain) + Cardinality(McnHolders)

Bounded == AtomicCounters /\ Cardinality(Conns) < 256

CInv == Bounded /\ LoadOK /\ CountOK

\* Steps that are not about counters do not change what is held.
LEMMA SameBooked ==
  ASSUME SInv, [Next]_vars, \A c \in Conns : ~ChangeCounter(c)
  PROVE  /\ \A d \in Conns : Booked(d)' = Booked(d)
         /\ count' = count /\ multi' = multi
         /\ \/ loaded' = loaded /\ \A d \in Conns : loaded[d] # None => pending'[d] = pending[d]
            \/ \E c \in Conns : LoadCounter(c)
<1>a. Types /\ (\A c \in Conns : ChangeOK(c)) BY DEF SInv
<1>y. /\ pc \in [Conns -> PCs] /\ slot \in [Conns -> SlotTypes] /\ newSlot \in [Conns -> SlotTypes]
      /\ DOMAIN pending = Conns
  BY <1>a DEF Types
<1> DEFINE Goal == /\ \A d \in Conns : Booked(d)' = Booked(d)
                   /\ count' = count /\ multi' = multi
                   /\ \/ loaded' = loaded /\ \A d \in Conns : loaded[d] # None => pending'[d] = pending[d]
                      \/ \E c \in Conns : LoadCounter(c)
<1>k. ASSUME NEW c \in Conns, Booked(c)' = Booked(c), count' = count, multi' = multi, loaded' = loaded,
             \A d \in Conns \ {c} : pc'[d] = pc[d] /\ slot'[d] = slot[d] /\ pending'[d] = pending[d],
             pending'[c] = pending[c] \/ loaded[c] = None
      PROVE  Goal
  BY <1>k DEF Booked
<1>e. \A c \in Conns : pending[c] = << >> => loaded[c] = None BY <1>a DEF ChangeOK
<1>1. ASSUME NEW c \in Conns, Connect(c) PROVE Goal
  <2>1. /\ pc[c] = "closed" /\ pc' = [pc EXCEPT ![c] = "get"]
        /\ UNCHANGED << slot, pending, loaded, count, multi >>
    BY <1>1 DEF Connect, slotVars
  <2>2. slot[c] = "none" BY <2>1, <1>a DEF ChangeOK
  <2>3. Booked(c)' = Booked(c) BY <2>1, <2>2 DEF Booked, Counted3
  <2> QED BY <2>1, <2>3, <1>k, <1>y
<1>2. ASSUME NEW c \in Conns, ParseSlot(c) PROVE Goal
  <2>1. /\ pc[c] = "get" /\ UNCHANGED << slot, pending, loaded, count, multi >>
        /\ \/ pc' = pc
           \/ \E x \in {"refuse", "open"} : pc' = [pc EXCEPT ![c] = x]
    BY <1>2, <1>a, Parsed
  <2>2. pc'[c] # "count" /\ pc[c] # "count" /\ \A d \in Conns \ {c} : pc'[d] = pc[d] BY <2>1, <1>y
  <2>3. Booked(c)' = Booked(c) BY <2>1, <2>2 DEF Booked
  <2> QED BY <2>1, <2>2, <2>3, <1>k
<1>3. ASSUME NEW c \in Conns, Refuse(c) \/ DisconnectExtra(c) PROVE Goal
  <2>1. /\ pc[c] \in {"refuse", "extra"} /\ (\E x \in {"get", "dequeue"} : pc' = [pc EXCEPT ![c] = x])
        /\ UNCHANGED << slot, pending, loaded, count, multi >>
    BY <1>3 DEF Refuse, DisconnectExtra
  <2>2. pc'[c] # "count" /\ pc[c] # "count" /\ \A d \in Conns \ {c} : pc'[d] = pc[d] BY <2>1, <1>y
  <2>3. Booked(c)' = Booked(c) BY <2>1, <2>2 DEF Booked
  <2> QED BY <2>1, <2>2, <2>3, <1>k
<1>4. ASSUME NEW c \in Conns, OpenUpload(c) PROVE Goal
  <2>1. pc[c] = "open" /\ UNCHANGED << loaded, count, multi >> BY <1>4, <1>a, Opened
  <2>2. /\ newSlot[c] # "none" /\ (slot[c] = "user" => newSlot[c] = "user")
        /\ pending[c] = << >> /\ loaded[c] = None
    BY <2>1, <1>a DEF ChangeOK
  <2>3. \A d \in Conns \ {c} : pc'[d] = pc[d] /\ slot'[d] = slot[d] /\ pending'[d] = pending[d]
    BY <1>4, <1>a, <1>y, Opened
  <2>4. \/ pc'[c] # "count" /\ slot'[c] = slot[c]
        \/ /\ pc'[c] # "count" /\ ChangesOfSlot(c, newSlot[c]) = << >>
           /\ TypeOf(newSlot[c]) # TypeOf(slot[c]) /\ slot'[c] = newSlot[c]
        \/ /\ pc'[c] = "count" /\ slot'[c] = slot[c]
           /\ pending'[c] = ChangesOfSlot(c, newSlot[c]) /\ ChangesOfSlot(c, newSlot[c]) # << >>
    BY <1>4, <1>a, <1>y, Opened
  <2>5. Booked(c)' = Booked(c)
    <3>1. CASE pc'[c] # "count" /\ slot'[c] = slot[c] BY <3>1, <2>1 DEF Booked
    <3>2. CASE /\ pc'[c] # "count" /\ ChangesOfSlot(c, newSlot[c]) = << >>
               /\ TypeOf(newSlot[c]) # TypeOf(slot[c]) /\ slot'[c] = newSlot[c]
      <4>1. slot[c] = "none" /\ slot'[c] = "hooked" BY <3>2, <2>2, <1>a, OfSlot
      <4> QED BY <4>1 DEF Booked, Counted3
    <3>3. CASE /\ pc'[c] = "count" /\ slot'[c] = slot[c]
               /\ pending'[c] = ChangesOfSlot(c, newSlot[c]) /\ ChangesOfSlot(c, newSlot[c]) # << >>
      <4>1. \/ slot[c] \notin Counted3
            \/ pending'[c] = << Change(c, slot[c], -1), Change(c, newSlot[c], 1) >>
        BY <3>3, <2>2, <1>a, OfSlot
      <4>2. slot[c] \notin Counted3 \/ Len(pending'[c]) = 2 BY <4>1, HeadsTails
      <4>3. pc[c] # "count" /\ slot'[c] = slot[c] BY <3>3, <2>1
      <4>4. CASE slot[c] \notin Counted3 BY <4>3, <4>4 DEF Booked
      <4>5. CASE Len(pending'[c]) = 2
        <5>1. Len(pending'[c]) # 1 BY <4>5
        <5> QED BY <5>1, <4>3 DEF Booked
      <4> QED BY <4>2, <4>4, <4>5
    <3> QED BY <2>4, <3>1, <3>2, <3>3
  <2> QED BY <2>1, <2>2, <2>3, <2>5, <1>k
<1>5. ASSUME NEW c \in Conns, LoadCounter(c) PROVE Goal
  <2>1. UNCHANGED << pc, slot, pending, count, multi >> BY <1>5 DEF LoadCounter
  <2> QED BY <1>5, <2>1 DEF Booked
<1>6. ASSUME NEW c \in Conns, Ordinary(c) PROVE Goal
  <2>1. /\ UNCHANGED << slot, newSlot, slotCS, count, pending, loaded, multi >>
        /\ \/ pc' = pc
           \/ pc[c] = "dequeue" /\ pc' = [pc EXCEPT ![c] = "send"]
           \/ pc[c] = "send" /\ pc' = [pc EXCEPT ![c] = "get"]
    BY <1>6, <1>a, Ordinaries
  <2>2. /\ pc'[c] = "count" <=> pc[c] = "count"
        /\ \A d \in Conns \ {c} : pc'[d] = pc[d]
    BY <2>1, <1>y
  <2>3. Booked(c)' = Booked(c) BY <2>1, <2>2 DEF Booked
  <2> QED BY <2>1, <2>2, <2>3, <1>k
<1>7. ASSUME NEW c \in Conns, Failed(c) PROVE Goal
  <2>1. /\ pc[c] \in {"get", "send"} /\ pending' = [pending EXCEPT ![c] = Changes(c, slot[c], -1)]
        /\ UNCHANGED << loaded, count, multi >>
        /\ \/ /\ Changes(c, slot[c], -1) = << >>
              /\ pc' = [pc EXCEPT ![c] = "closed"] /\ slot' = [slot EXCEPT ![c] = "none"]
           \/ /\ pc' = [pc EXCEPT ![c] = "closing"] /\ slot' = slot
    BY <1>7 DEF Failed
  <2>2. loaded[c] = None BY <2>1, <1>a DEF ChangeOK
  <2>3. \A d \in Conns \ {c} : pc'[d] = pc[d] /\ slot'[d] = slot[d] /\ pending'[d] = pending[d]
    BY <2>1, <1>y
  <2>4. slot'[c] = slot[c] \/ (slot'[c] = "none" /\ slot[c] \notin Counted3)
    <3>1. slot[c] \in Counted3 => Changes(c, slot[c], -1) # << >>
      <4>1. << Change(c, slot[c], -1) >> # << >> OBVIOUS
      <4> QED BY <4>1, ChangesAre
    <3> QED BY <2>1, <3>1, <1>y
  <2>5. pc'[c] # "count" /\ pc[c] # "count" BY <2>1, <1>y
  <2>6. Booked(c)' = Booked(c) BY <2>4, <2>5 DEF Booked, Counted3
  <2> QED BY <2>1, <2>2, <2>3, <2>6, <1>k
<1>8. CASE Elsewhere BY <1>8, Elsewheres DEF Booked
<1> QED BY <1>1, <1>2, <1>3, <1>4, <1>5, <1>6, <1>7, <1>8 DEF Next, Ordinary, Elsewhere

\* A change of a counter gives one connection a slot or takes one from it.
LEMMA OneBooked ==
  ASSUME SInv, NEW c \in Conns, ChangeCounter(c)
  PROVE  /\ \A d \in Conns \ {c} : Booked(d)' = Booked(d)
         /\ \E s \in Counted3 :
               \/ Head(pending[c]) = Change(c, s, 1) /\ Booked(c) = "none" /\ Booked(c)' = s
                  /\ pc[c] = "count" /\ newSlot[c] = s
               \/ Head(pending[c]) = Change(c, s, -1) /\ Booked(c) = s /\ Booked(c)' = "none"
<1>a. Types /\ (\A d \in Conns : ChangeOK(d)) BY DEF SInv
<1>y. /\ pc \in [Conns -> PCs] /\ slot \in [Conns -> SlotTypes] /\ newSlot \in [Conns -> SlotTypes]
      /\ DOMAIN pending = Conns
  BY <1>a DEF Types
<1>0. pending[c] # << >> BY DEF ChangeCounter
<1>1. /\ pending' = [pending EXCEPT ![c] = Tail(@)]
      /\ \/ /\ pc[c] = "count" /\ newSlot[c] \in Counted3
            /\ Head(pending[c]) = Change(c, newSlot[c], 1)
            /\ slot' = [slot EXCEPT ![c] = newSlot[c]]
            /\ \E x \in {"extra", "dequeue"} : pc' = [pc EXCEPT ![c] = x]
         \/ /\ pc[c] = "count" /\ slot[c] \in Counted3 \ {"user"}
            /\ Head(pending[c]) = Change(c, slot[c], -1) /\ Len(pending[c]) = 2
            /\ pending'[c] = << Change(c, newSlot[c], 1) >>
            /\ UNCHANGED << pc, slot >>
         \/ /\ pc[c] = "closing" /\ slot[c] \in Counted3
            /\ Head(pending[c]) = Change(c, slot[c], -1)
            /\ slot' = [slot EXCEPT ![c] = "none"] /\ pc' = [pc EXCEPT ![c] = "closed"]
  BY <1>a, CounterChanged
<1>2. \A d \in Conns \ {c} : pc'[d] = pc[d] /\ slot'[d] = slot[d] /\ pending'[d] = pending[d]
  BY <1>1, <1>y
<1>3. CASE /\ pc[c] = "count" /\ newSlot[c] \in Counted3
           /\ Head(pending[c]) = Change(c, newSlot[c], 1)
           /\ slot' = [slot EXCEPT ![c] = newSlot[c]]
           /\ \E x \in {"extra", "dequeue"} : pc' = [pc EXCEPT ![c] = x]
  <2>1. pc'[c] # "count" /\ slot'[c] = newSlot[c] BY <1>3, <1>y
  <2>2. Booked(c)' = newSlot[c] BY <2>1, <1>3 DEF Booked
  <2>3. Len(pending[c]) = 1 \/ Head(pending[c]) = Change(c, slot[c], -1)
    BY <1>0, <1>a, HeadChange
  <2>4. Change(c, slot[c], -1) # Change(c, newSlot[c], 1) BY DEF Change
  <2>5. Booked(c) = "none" BY <2>3, <2>4, <1>3 DEF Booked
  <2> QED BY <2>2, <2>5, <1>2, <1>3 DEF Booked
<1>4. CASE /\ pc[c] = "count" /\ slot[c] \in Counted3 \ {"user"}
           /\ Head(pending[c]) = Change(c, slot[c], -1) /\ Len(pending[c]) = 2
           /\ pending'[c] = << Change(c, newSlot[c], 1) >>
           /\ UNCHANGED << pc, slot >>
  <2>1. Len(pending'[c]) = 1 BY <1>4, HeadsTails
  <2>2. Booked(c)' = "none" /\ Booked(c) = slot[c] BY <2>1, <1>4 DEF Booked
  <2> QED BY <2>2, <1>2, <1>4 DEF Booked
<1>5. CASE /\ pc[c] = "closing" /\ slot[c] \in Counted3
           /\ Head(pending[c]) = Change(c, slot[c], -1)
           /\ slot' = [slot EXCEPT ![c] = "none"] /\ pc' = [pc EXCEPT ![c] = "closed"]
  <2>1. slot'[c] = "none" BY <1>5, <1>y
  <2>2. Booked(c)' = "none" /\ Booked(c) = slot[c] BY <2>1, <1>5 DEF Booked, Counted3
  <2> QED BY <2>2, <1>2, <1>5 DEF Booked
<1> QED BY <1>1, <1>3, <1>4, <1>5

\* Finite sets of connections and users, with one element more or less.
LEMMA Sizes ==
  /\ \A S \in SUBSET Conns : IsFiniteSet(S) /\ Cardinality(S) \in Nat /\ Cardinality(S) <= Cardinality(Conns)
  /\ \A S \in SUBSET Users : IsFiniteSet(S) /\ Cardinality(S) \in Nat
  /\ Cardinality(Conns) \in Nat
<1>1. IsFiniteSet(Conns) /\ IsFiniteSet(Users) BY SlotsAssumption
<1>2. \A S \in SUBSET Conns : IsFiniteSet(S) /\ Cardinality(S) <= Cardinality(Conns) BY <1>1, FS_Subset
<1>3. \A S \in SUBSET Users : IsFiniteSet(S) BY <1>1, FS_Subset
<1> QED BY <1>1, <1>2, <1>3, FS_CardinalityType

LEMMA OneMore ==
  ASSUME NEW S, NEW T, NEW x, IsFiniteSet(S)
  PROVE  /\ T = S \cup {x} /\ x \notin S => Cardinality(T) = Cardinality(S) + 1
         /\ T = S \ {x} /\ x \in S => Cardinality(T) = Cardinality(S) - 1
BY FS_AddElement, FS_RemoveElement

\* As many connections of users without multiple connections, and users who
\* share a slot, as there are connections at most.
LEMMA HoldersBounded ==
  ASSUME NEW P \in SUBSET Conns, NEW M \in SUBSET Conns, P \cap M = {}
  PROVE  Cardinality(P) + Cardinality({UserOf[c] : c \in M}) <= Cardinality(Conns)
<1> DEFINE U == {UserOf[c] : c \in M}
           f == [c \in M |-> UserOf[c]]
<1>1. Cardinality(U) <= Cardinality(M)
  <2>1. U = {f[c] : c \in M} OBVIOUS
  <2>2. f \in Surjection(M, U) BY <2>1 DEF Surjection
  <2>3. IsFiniteSet(M) BY Sizes
  <2> HIDE DEF f, U
  <2> QED BY <2>2, <2>3, FS_Surjection
<1>2. Cardinality(P \cup M) = Cardinality(P) + Cardinality(M)
  <2>1. IsFiniteSet(P) /\ IsFiniteSet(M) /\ Cardinality(P \cap M) = 0 BY Sizes, FS_EmptySet
  <2>2. Cardinality(P \cup M) = Cardinality(P) + Cardinality(M) - Cardinality(P \cap M) BY <2>1, FS_Union
  <2> QED BY <2>1, <2>2, Sizes
<1>3. Cardinality(P \cup M) <= Cardinality(Conns)
  <2>1. P \cup M \in SUBSET Conns OBVIOUS
  <2> QED BY <2>1, Sizes
<1>4. U \in SUBSET Users BY SlotsAssumption
<1>5. Cardinality(U) \in Nat BY <1>4, Sizes
<1>6. Cardinality(P) \in Nat /\ Cardinality(M) \in Nat /\ Cardinality(Conns) \in Nat BY Sizes
<1> HIDE DEF U
<1>7. Cardinality(P) + Cardinality(U) <= Cardinality(Conns) BY <1>1, <1>2, <1>3, <1>5, <1>6
<1> QED BY <1>7 DEF U

\* A counter that follows the size of a set of connections.
LEMMA Bumped ==
  ASSUME NEW S \in SUBSET Conns, NEW T \in SUBSET Conns, NEW c \in Conns, NEW delta, Cardinality(Conns) < 256,
         \/ delta = 1 /\ T = S \cup {c} /\ c \notin S
         \/ delta = -1 /\ T = S \ {c} /\ c \in S
  PROVE  /\ Byte(Cardinality(S) + delta) = Cardinality(T)
         /\ Cardinality(S) + delta = Cardinality(T)
<1>1. Cardinality(T) \in Nat /\ Cardinality(S) \in Nat /\ Cardinality(T) <= Cardinality(Conns) BY Sizes
<1>2. IsFiniteSet(S) BY Sizes
<1>3. \/ delta = 1 /\ Cardinality(T) = Cardinality(S) + 1
      \/ delta = -1 /\ Cardinality(T) = Cardinality(S) - 1
  BY <1>2, OneMore
<1>4. Cardinality(S) + delta = Cardinality(T) BY <1>1, <1>3
<1> QED BY <1>1, <1>4, Sizes DEF Byte

LEMMA InitCInv == Init /\ Bounded => CInv
<1> SUFFICES ASSUME Init, Bounded PROVE LoadOK /\ CountOK BY DEF CInv
<1>1. \A c \in Conns : Booked(c) = "none" BY DEF Init, Booked, Counted3
<1>2. Holding("mini") = {} /\ Holding("mcn") = {} /\ Plain = {} /\ Mcns = {}
  BY <1>1 DEF Holding, Plain, Mcns
<1>3. \A u \in Users : McnsOf(u) = {} BY <1>1 DEF McnsOf
<1>4. McnHolders = {} BY <1>3 DEF McnHolders
<1>5. Cardinality({}) = 0 BY FS_EmptySet
<1>6. CountOK
  <2>1. /\ \A u \in Users : multi[u] = 0
        /\ count["users"] = 0 /\ count["extra"] = 0 /\ count["small"] = 0 /\ count["mcn"] = 0
    BY DEF Init
  <2>2. \A u \in Users : Cardinality(McnsOf(u)) = 0 BY <1>3, <1>5
  <2>3. /\ Cardinality(Holding("mini")) = 0 /\ Cardinality(Holding("mcn")) = 0
        /\ Cardinality(Plain) = 0 /\ Cardinality(Mcns) = 0 /\ Cardinality(McnHolders) = 0
    BY <1>2, <1>4, <1>5
  <2> QED BY <2>1, <2>2, <2>3 DEF CountOK
<1> QED BY <1>6 DEF Init, LoadOK

LEMMA QuietCInv ==
  ASSUME SInv, CInv, [Next]_vars, \A c \in Conns : ~ChangeCounter(c)
  PROVE  CInv'
<1>a. Types /\ (\A c \in Conns : ChangeOK(c)) BY DEF SInv
<1>1. /\ \A d \in Conns : Booked(d)' = Booked(d)
      /\ count' = count /\ multi' = multi
      /\ \/ loaded' = loaded /\ \A d \in Conns : loaded[d] # None => pending'[d] = pending[d]
         \/ \E c \in Conns : LoadCounter(c)
  BY SameBooked
<1>2. CountOK'
  <2>1. /\ Holding("mini")' = Holding("mini") /\ Holding("mcn")' = Holding("mcn")
        /\ Plain' = Plain /\ Mcns' = Mcns
    BY <1>1 DEF Holding, Plain, Mcns
  <2>2. \A u \in Users : McnsOf(u)' = McnsOf(u) BY <1>1 DEF McnsOf
  <2>3. McnHolders' = McnHolders BY <2>2 DEF McnHolders
  <2> QED BY <1>1, <2>1, <2>2, <2>3 DEF CInv, CountOK
<1>3. LoadOK'
  <2>1. CASE loaded' = loaded /\ \A d \in Conns : loaded[d] # None => pending'[d] = pending[d]
    <3>1. \A d \in Conns : loaded[d] # None => Key(d)' = Key(d) BY <2>1 DEF Key
    <3> QED BY <2>1, <3>1, <1>1 DEF CInv, LoadOK
  <2>2. ASSUME NEW c \in Conns, LoadCounter(c) PROVE LoadOK'
    <3>1. /\ \A d \in Conns : loaded[d] = None
          /\ loaded' = [loaded EXCEPT ![c] = count[Key(c)]] /\ pending' = pending /\ count' = count
      BY <2>2 DEF CInv, Bounded, LoadCounter, Key
    <3>2. Key(c)' = Key(c) BY <3>1 DEF Key
    <3>3. loaded'[c] = count[Key(c)] /\ \A d \in Conns \ {c} : loaded'[d] = None BY <3>1, <1>a DEF Types
    <3>4. count'[Key(c)'] = count[Key(c)] BY <3>1, <3>2
    <3> QED BY <3>3, <3>4 DEF LoadOK
  <2> QED BY <1>1, <2>1, <2>2
<1> QED BY <1>2, <1>3 DEF CInv, Bounded

LEMMA ChangeCInv ==
  ASSUME SInv, CInv, NEW c \in Conns, ChangeCounter(c)
  PROVE  CInv'
<1>a. Types /\ (\A d \in Conns : ChangeOK(d)) BY DEF SInv
<1>b. CountOK /\ LoadOK /\ Cardinality(Conns) < 256 BY DEF CInv, Bounded
<1>c. /\ count' = Counted(c, Head(pending[c]), loaded[c])
      /\ loaded[c] # None /\ loaded' = [loaded EXCEPT ![c] = None]
      /\ multi' = IF Head(pending[c]).counter = "mcn"
                  THEN [multi EXCEPT ![UserOf[c]] = @ + Head(pending[c]).delta] ELSE multi
  BY <1>a, CounterChanged
<1>d. loaded[c] = count[Key(c)] BY <1>b, <1>c DEF LoadOK
<1>e. count \in [Counters -> 0 .. 255] /\ DOMAIN multi = Users /\ UserOf[c] \in Users
  BY <1>a, SlotsAssumption DEF Types
<1>1. LoadOK'
  <2>1. \A d \in Conns : loaded'[d] = None BY <1>a, <1>b, <1>c DEF LoadOK, Types
  <2> QED BY <2>1 DEF LoadOK
<1>2. PICK s \in Counted3 :
         /\ \A d \in Conns \ {c} : Booked(d)' = Booked(d)
         /\ \/ Head(pending[c]) = Change(c, s, 1) /\ Booked(c) = "none" /\ Booked(c)' = s
            \/ Head(pending[c]) = Change(c, s, -1) /\ Booked(c) = s /\ Booked(c)' = "none"
  BY OneBooked
<1>3. PICK delta \in {-1, 1} :
         /\ Head(pending[c]) = Change(c, s, delta)
         /\ \/ delta = 1 /\ Booked(c) = "none" /\ Booked(c)' = s
            \/ delta = -1 /\ Booked(c) = s /\ Booked(c)' = "none"
  BY <1>2
<1>4. Head(pending[c]).counter = Ctr(c, s) /\ Head(pending[c]).delta = delta BY <1>3 DEF Change
<1> DEFINE Moves(S, T) == \/ delta = 1 /\ T = S \cup {c} /\ c \notin S
                          \/ delta = -1 /\ T = S \ {c} /\ c \in S
<1>5. ASSUME NEW S \in SUBSET Conns, NEW T \in SUBSET Conns, Moves(S, T)
      PROVE  Byte(Cardinality(S) + delta) = Cardinality(T) /\ Cardinality(S) + delta = Cardinality(T)
  BY <1>5, <1>b, Bumped
<1>6. \A d \in Conns \ {c} : Booked(d)' = Booked(d) BY <1>2
<1>7. CASE s \in {"mini", "mcn"}
  <2> DEFINE k == IF s = "mini" THEN "extra" ELSE "small"
  <2>1. Holding(s) \in SUBSET Conns /\ Holding(s)' \in SUBSET Conns BY DEF Holding
  <2>2. Moves(Holding(s), Holding(s)') BY <1>3, <1>6, <1>7 DEF Holding
  <2>3. Byte(Cardinality(Holding(s)) + delta) = Cardinality(Holding(s)') BY <2>1, <2>2, <1>5
  <2>4. /\ \A x \in {"mini", "mcn"} \ {s} : Holding(x)' = Holding(x)
        /\ Plain' = Plain /\ Mcns' = Mcns
    BY <1>3, <1>6, <1>7 DEF Holding, Plain, Mcns
  <2>5. \A u \in Users : McnsOf(u)' = McnsOf(u) BY <1>3, <1>6, <1>7 DEF McnsOf
  <2>6. McnHolders' = McnHolders BY <2>5 DEF McnHolders
  <2>7. Ctr(c, s) = k BY <1>7 DEF Ctr
  <2>8. k # "mcn" /\ Key(c) = k /\ k \in Counters BY <1>4, <1>7, <2>7 DEF Key, Counters
  <2>9. count' = [count EXCEPT ![k] = Byte(count[k] + delta)] /\ multi' = multi
    BY <1>c, <1>d, <1>4, <2>7, <2>8 DEF Counted
  <2>10. count[k] = Cardinality(Holding(s)) BY <1>b, <1>7 DEF CountOK
  <2>11. count'[k] = Cardinality(Holding(s)') /\ \A x \in Counters \ {k} : count'[x] = count[x]
    BY <2>3, <2>8, <2>9, <2>10, <1>e
  <2>12. /\ count'["extra"] = Cardinality(Holding("mini")') /\ count'["small"] = Cardinality(Holding("mcn")')
         /\ count'["mcn"] = count["mcn"] /\ count'["users"] = count["users"]
    <3>1. CASE s = "mini"
      <4>1. k = "extra" /\ Holding("mcn")' = Holding("mcn") BY <3>1, <2>4
      <4>2. count'["small"] = count["small"] BY <4>1, <2>11 DEF Counters
      <4> QED BY <3>1, <4>1, <4>2, <2>11, <1>b DEF CountOK, Counters
    <3>2. CASE s = "mcn"
      <4>1. k = "small" /\ Holding("mini")' = Holding("mini") BY <3>2, <2>4
      <4>2. count'["extra"] = count["extra"] BY <4>1, <2>11 DEF Counters
      <4> QED BY <3>2, <4>1, <4>2, <2>11, <1>b DEF CountOK, Counters
    <3> QED BY <1>7, <3>1, <3>2
  <2>13. CountOK' BY <2>12, <2>4, <2>5, <2>6, <2>9, <1>b DEF CountOK
  <2> QED BY <1>1, <2>13 DEF CInv, Bounded
<1>8. CASE s = "user"
  <2>1. Holding("mini")' = Holding("mini") /\ Holding("mcn")' = Holding("mcn")
    BY <1>3, <1>6, <1>8 DEF Holding
  <2>2. /\ Plain \in SUBSET Conns /\ Plain' \in SUBSET Conns /\ Mcns \in SUBSET Conns /\ Mcns' \in SUBSET Conns
        /\ Plain' \cap Mcns' = {} /\ Plain \cap Mcns = {}
        /\ \A u \in Users : McnsOf(u) \in SUBSET Conns /\ McnsOf(u)' \in SUBSET Conns
        /\ McnHolders \in SUBSET Users /\ McnHolders' \in SUBSET Users
    BY DEF Plain, Mcns, McnsOf, McnHolders
  <2>3. McnHolders' = {UserOf[d] : d \in Mcns'} BY SlotsAssumption DEF McnHolders, McnsOf, Mcns
  <2>4. Cardinality(Plain') + Cardinality(McnHolders') <= Cardinality(Conns) BY <2>2, <2>3, HoldersBounded
  <2>5. /\ Cardinality(Plain) \in Nat /\ Cardinality(Plain') \in Nat
        /\ Cardinality(McnHolders) \in Nat /\ Cardinality(McnHolders') \in Nat /\ Cardinality(Conns) \in Nat
    BY <2>2, Sizes
  <2>6. CASE ~IsMcn(c)
    <3>1. Moves(Plain, Plain') BY <1>3, <1>6, <1>8, <2>6 DEF Plain
    <3>2. Cardinality(Plain) + delta = Cardinality(Plain') BY <3>1, <2>2, <1>5
    <3>3. Mcns' = Mcns BY <1>6, <2>6 DEF Mcns
    <3>4. \A u \in Users : McnsOf(u)' = McnsOf(u) BY <1>6, <2>6 DEF McnsOf
    <3>5. McnHolders' = McnHolders BY <3>4 DEF McnHolders
    <3>6. Ctr(c, s) = "users" /\ Key(c) = "users" BY <1>4, <1>8, <2>6 DEF Ctr, Key
    <3>7. count' = [count EXCEPT !["users"] = Byte(count["users"] + delta)] /\ multi' = multi
      BY <1>c, <1>d, <1>4, <3>6 DEF Counted
    <3>8. count["users"] + delta = Cardinality(Plain') + Cardinality(McnHolders')
      BY <3>2, <3>5, <1>b, <2>5 DEF CountOK
    <3>9. Byte(count["users"] + delta) = Cardinality(Plain') + Cardinality(McnHolders')
      BY <3>8, <2>4, <2>5, <1>b DEF Byte
    <3>10. /\ count'["users"] = Cardinality(Plain') + Cardinality(McnHolders')
           /\ count'["extra"] = count["extra"] /\ count'["small"] = count["small"] /\ count'["mcn"] = count["mcn"]
      BY <3>7, <3>9, <1>e DEF Counters
    <3>11. CountOK' BY <3>10, <3>3, <3>4, <3>7, <2>1, <1>b DEF CountOK
    <3> QED BY <1>1, <3>11 DEF CInv, Bounded
  <2>7. CASE IsMcn(c)
    <3> DEFINE u == UserOf[c]
               r == Reserved(u, delta)
    <3>1. Moves(Mcns, Mcns') BY <1>3, <1>6, <1>8, <2>7 DEF Mcns
    <3>2. Byte(Cardinality(Mcns) + delta) = Cardinality(Mcns') BY <3>1, <2>2, <1>5
    <3>3. Moves(McnsOf(u), McnsOf(u)') BY <1>3, <1>6, <1>8, <2>7 DEF McnsOf
    <3>4. Cardinality(McnsOf(u)) + delta = Cardinality(McnsOf(u)') BY <3>3, <2>2, <1>5, <1>e
    <3>5. \A v \in Users \ {u} : McnsOf(v)' = McnsOf(v) BY <1>6 DEF McnsOf
    <3>6. Plain' = Plain BY <1>6, <2>7 DEF Plain
    <3>7. Ctr(c, s) = "mcn" /\ Key(c) = "users" BY <1>4, <1>8, <2>7 DEF Ctr, Key
    <3>8. /\ count' = [count EXCEPT !["mcn"] = Byte(@ + delta),
                                    !["users"] = IF r = 0 THEN @ ELSE Byte(count["users"] + r)]
          /\ multi' = [multi EXCEPT ![u] = @ + delta]
      BY <1>c, <1>d, <1>4, <3>7 DEF Counted
    <3>9. multi[u] = Cardinality(McnsOf(u)) /\ multi'[u] = Cardinality(McnsOf(u)')
      BY <3>4, <3>8, <1>b, <1>e DEF CountOK
    <3>10. /\ McnsOf(u) = {} <=> multi[u] = 0
           /\ McnsOf(u)' = {} <=> multi[u] + delta = 0
           /\ multi[u] \in Nat
      <4>1. IsFiniteSet(McnsOf(u)) /\ IsFiniteSet(McnsOf(u)') BY <2>2, <1>e, Sizes
      <4>2. /\ Cardinality(McnsOf(u)) = 0 <=> McnsOf(u) = {}
            /\ Cardinality(McnsOf(u)') = 0 <=> McnsOf(u)' = {}
        BY <4>1, FS_EmptySet
      <4>3. Cardinality(McnsOf(u)) \in Nat BY <2>2, <1>e, Sizes
      <4> QED BY <4>2, <4>3, <3>4, <3>9
    <3>11. /\ r = 1 => McnHolders' = McnHolders \cup {u} /\ u \notin McnHolders
           /\ r = -1 => McnHolders' = McnHolders \ {u} /\ u \in McnHolders
           /\ r = 0 => McnHolders' = McnHolders
           /\ r \in {-1, 0, 1}
      <4>1. r = IF multi[u] = 0 /\ delta = 1 THEN 1 ELSE IF multi[u] = 1 /\ delta = -1 THEN -1 ELSE 0
        BY DEF Reserved
      <4>2. \A v \in Users \ {u} : v \in McnHolders' <=> v \in McnHolders BY <3>5 DEF McnHolders
      <4>3. u \in McnHolders <=> multi[u] # 0 BY <3>10, <1>e DEF McnHolders
      <4>4. u \in McnHolders' <=> multi[u] + delta # 0 BY <3>10, <1>e DEF McnHolders
      <4>5. delta = -1 => multi[u] # 0 BY <3>10, <3>3
      <4>6. /\ r = 1 => u \in McnHolders' /\ u \notin McnHolders
            /\ r = -1 => u \notin McnHolders' /\ u \in McnHolders
            /\ r = 0 => (u \in McnHolders' <=> u \in McnHolders)
            /\ r \in {-1, 0, 1}
        BY <4>1, <4>3, <4>4, <4>5, <3>10, <1>3
      <4> HIDE DEF r
      <4> QED BY <4>2, <4>6, <2>2
    <3>12. Cardinality(McnHolders') = Cardinality(McnHolders) + r
      <4>1. IsFiniteSet(McnHolders) BY <2>2, Sizes
      <4> HIDE DEF r
      <4>2. CASE r = 1 BY <4>1, <4>2, <3>11, OneMore
      <4>3. CASE r = -1 BY <4>1, <4>3, <3>11, <2>5, OneMore
      <4>4. CASE r = 0 BY <4>4, <3>11, <2>5
      <4> QED BY <3>11, <4>2, <4>3, <4>4
    <3>13. count["users"] + r = Cardinality(Plain') + Cardinality(McnHolders')
      <4> HIDE DEF r
      <4> QED BY <3>6, <3>11, <3>12, <1>b, <2>5 DEF CountOK
    <3>14. (IF r = 0 THEN count["users"] ELSE Byte(count["users"] + r)) = Cardinality(Plain') + Cardinality(McnHolders')
      <4> HIDE DEF r
      <4>1. count["users"] \in Nat BY <1>e DEF Counters
      <4>2. CASE r = 0 BY <4>1, <4>2, <3>13
      <4>3. CASE r # 0 BY <4>3, <3>13, <2>4, <2>5, <1>b DEF Byte
      <4> QED BY <4>2, <4>3
    <3>15. /\ count'["users"] = Cardinality(Plain') + Cardinality(McnHolders')
           /\ count'["mcn"] = Cardinality(Mcns')
           /\ count'["extra"] = count["extra"] /\ count'["small"] = count["small"]
      <4> HIDE DEF r
      <4> QED BY <3>2, <3>8, <3>14, <1>b, <1>e DEF Counters, CountOK
    <3>16. \A v \in Users : multi'[v] = Cardinality(McnsOf(v)')
      <4>1. \A v \in Users \ {u} : multi'[v] = multi[v] BY <3>8, <1>e
      <4> QED BY <4>1, <3>5, <3>9, <1>b DEF CountOK
    <3>17. CountOK' BY <3>15, <3>16, <2>1, <1>b DEF CountOK
    <3> QED BY <1>1, <3>17 DEF CInv, Bounded
  <2> QED BY <2>6, <2>7
<1> QED BY <1>7, <1>8 DEF Counted3

LEMMA NextCInv ==
  ASSUME SInv, CInv, [Next]_vars
  PROVE  CInv'
BY QuietCInv, ChangeCInv

-----------------------------------------------------------------------------
(* What the counters say about the slots of connections.                    *)

\* A permanent slot is booked as long as the connection has it.
LEMMA SlotBooked ==
  ASSUME SInv
  PROVE  \A c \in Conns : Booked(c) = "user" <=> slot[c] = "user"
BY DEF SInv, ChangeOK, Booked, Counted3

LEMMA SlotUsersAre ==
  ASSUME SInv
  PROVE  SlotUsers = {UserOf[c] : c \in Plain} \cup McnHolders
<1>1. \A c \in Conns : slot[c] = "user" <=> c \in Plain \cup Mcns BY SlotBooked DEF Plain, Mcns
<1>2. McnHolders = {UserOf[c] : c \in Mcns} BY SlotsAssumption DEF McnHolders, McnsOf, Mcns
<1>3. Owners("user") = Plain \cup Mcns BY <1>1 DEF Owners, Plain, Mcns
<1> QED BY <1>2, <1>3 DEF SlotUsers

LEMMA PlainUsers ==
  /\ Plain \in SUBSET Conns /\ {UserOf[c] : c \in Plain} \in SUBSET Users
  /\ {UserOf[c] : c \in Plain} \cap McnHolders = {}
  /\ Cardinality({UserOf[c] : c \in Plain}) <= Cardinality(Plain)
<1> DEFINE f == [c \in Plain |-> UserOf[c]]
<1>1. Plain \in SUBSET Conns BY DEF Plain
<1>2. {UserOf[c] : c \in Plain} \in SUBSET Users BY <1>1, SlotsAssumption
<1>3. {UserOf[c] : c \in Plain} \cap McnHolders = {} BY DEF Plain, McnHolders, McnsOf, IsMcn
<1>4. Cardinality({UserOf[c] : c \in Plain}) <= Cardinality(Plain)
  <2>1. f \in Surjection(Plain, {UserOf[c] : c \in Plain}) BY DEF Surjection
  <2>2. IsFiniteSet(Plain) BY <1>1, Sizes
  <2> HIDE DEF f
  <2> QED BY <2>1, <2>2, FS_Surjection
<1> QED BY <1>1, <1>2, <1>3, <1>4

LEMMA CountsExact ==
  ASSUME SInv, CInv
  PROVE  SlotCountsExact
<1> SUFFICES ASSUME \A c \in Conns : pending[c] = << >>
             PROVE  /\ count["users"] = Cardinality(SlotUsers)
                    /\ count["extra"] = Cardinality(Owners("mini"))
                    /\ count["small"] = Cardinality(Owners("mcn"))
                    /\ \A u \in Users : multi[u] = Cardinality({c \in Owners("user") : UserOf[c] = u /\ IsMcn(c)})
                    /\ count["mcn"] = Cardinality({c \in Owners("user") : IsMcn(c)})
  BY DEF SlotCountsExact
<1>a. Types /\ (\A c \in Conns : ChangeOK(c)) BY DEF SInv
<1>1. ASSUME NEW c \in Conns PROVE pc[c] \notin {"count", "closing"}
  <2>1. \A a, b : << a >> # << >> /\ << a, b >> # << >> OBVIOUS
  <2> QED BY <2>1, <1>a DEF ChangeOK
<1>2. \A c \in Conns : \A s \in Counted3 : Booked(c) = s <=> slot[c] = s BY <1>1 DEF Booked, Counted3
<1>3. /\ Holding("mini") = Owners("mini") /\ Holding("mcn") = Owners("mcn")
      /\ Mcns = {c \in Owners("user") : IsMcn(c)}
      /\ Plain = {c \in Owners("user") : ~IsMcn(c)}
  BY <1>2 DEF Holding, Owners, Mcns, Plain, Counted3
<1>4. \A u \in Users : McnsOf(u) = {c \in Owners("user") : UserOf[c] = u /\ IsMcn(c)}
  BY <1>2 DEF McnsOf, Owners, Counted3
<1>5. \A c, d \in Plain : UserOf[c] = UserOf[d] => c = d
  <2>1. \A c \in Plain : c \in Conns /\ ~IsMcn(c) /\ slot[c] = "user" BY <1>3 DEF Owners
  <2>2. \A c \in Plain : pc[c] \notin {"closed", "closing"} BY <2>1, <1>1, <1>a DEF ChangeOK
  <2> QED BY <2>1, <2>2 DEF SInv, OneLive
<1>6. Cardinality({UserOf[c] : c \in Plain}) = Cardinality(Plain)
  <2> DEFINE U == {UserOf[c] : c \in Plain}
             f == [c \in Plain |-> UserOf[c]]
  <2>1. f \in Injection(Plain, U) BY <1>5 DEF Injection, IsInjective
  <2>2. IsFiniteSet(U) /\ Cardinality(U) <= Cardinality(Plain) BY PlainUsers, Sizes
  <2>3. Cardinality(U) \in Nat /\ Cardinality(Plain) \in Nat BY PlainUsers, Sizes
  <2> HIDE DEF f, U
  <2>4. Cardinality(Plain) <= Cardinality(U) BY <2>1, <2>2, FS_Injection
  <2>5. Cardinality(U) = Cardinality(Plain) BY <2>2, <2>3, <2>4
  <2> QED BY <2>5 DEF U
<1>7. Cardinality(SlotUsers) = Cardinality({UserOf[c] : c \in Plain}) + Cardinality(McnHolders)
  <2> DEFINE U == {UserOf[c] : c \in Plain}
  <2>1. U \in SUBSET Users /\ U \cap McnHolders = {} BY PlainUsers
  <2>2. McnHolders \in SUBSET Users BY DEF McnHolders
  <2>3. SlotUsers = U \cup McnHolders BY SlotUsersAre
  <2> HIDE DEF U
  <2>4. IsFiniteSet(U) /\ IsFiniteSet(McnHolders) BY <2>1, <2>2, Sizes
  <2>5. Cardinality(U) \in Nat /\ Cardinality(McnHolders) \in Nat BY <2>1, <2>2, Sizes
  <2>6. Cardinality(U \cap McnHolders) = 0 BY <2>1, FS_EmptySet
  <2>7. Cardinality(U \cup McnHolders) = Cardinality(U) + Cardinality(McnHolders) - Cardinality(U \cap McnHolders)
    BY <2>4, FS_Union
  <2>8. Cardinality(SlotUsers) = Cardinality(U) + Cardinality(McnHolders) BY <2>3, <2>5, <2>6, <2>7
  <2> QED BY <2>8 DEF U
<1> QED BY <1>3, <1>4, <1>6, <1>7 DEF CInv, CountOK

-----------------------------------------------------------------------------
(* Without grants of hooks, a permanent slot that was decided on is counted  *)
(* within the limits.                                                        *)

BoundInv ==
    "user" \notin HookAnswers =>
        /\ count["users"] <= Slots + AutoSlots
        /\ \A c \in Conns : pc[c] \in {"open", "count"} /\ newSlot[c] = "user" /\ slot[c] # "user"
              => count["users"] < Slots + AutoSlots

LEMMA UsersStep ==
  ASSUME SInv, CInv, CInv', NEW c \in Conns, ChangeCounter(c)
  PROVE  \/ count'["users"] <= count["users"]
         \/ /\ pc[c] = "count" /\ newSlot[c] = "user" /\ slot[c] # "user"
            /\ count'["users"] <= count["users"] + 1 /\ pc'[c] \notin {"open", "count"}
<1>1. PICK s \in Counted3 :
         /\ \A d \in Conns \ {c} : Booked(d)' = Booked(d)
         /\ \/ Booked(c) = "none" /\ Booked(c)' = s /\ pc[c] = "count" /\ newSlot[c] = s
            \/ Booked(c) = s /\ Booked(c)' = "none"
  BY OneBooked
<1>2. /\ count["users"] = Cardinality(Plain) + Cardinality(McnHolders)
      /\ count'["users"] = Cardinality(Plain') + Cardinality(McnHolders')
  BY DEF CInv, CountOK
<1>3. /\ Plain \in SUBSET Conns /\ Plain' \in SUBSET Conns
      /\ McnHolders \in SUBSET Users /\ McnHolders' \in SUBSET Users
  BY DEF Plain, McnHolders
<1>4. /\ Cardinality(Plain) \in Nat /\ Cardinality(Plain') \in Nat
      /\ Cardinality(McnHolders) \in Nat /\ Cardinality(McnHolders') \in Nat
      /\ IsFiniteSet(Plain) /\ IsFiniteSet(McnHolders)
  BY <1>3, Sizes
<1>5. CASE ~(s = "user" /\ Booked(c)' = s)
  <2>1. \A d \in Conns : Booked(d)' = "user" => Booked(d) = "user" BY <1>1, <1>5
  <2>2. Plain' \in SUBSET Plain BY <2>1 DEF Plain
  <2>3. \A u \in Users : McnsOf(u)' # {} => McnsOf(u) # {} BY <2>1 DEF McnsOf
  <2>4. McnHolders' \in SUBSET McnHolders BY <2>3 DEF McnHolders
  <2>5. Cardinality(Plain') <= Cardinality(Plain) BY <2>2, <1>4, FS_Subset
  <2>6. Cardinality(McnHolders') <= Cardinality(McnHolders) BY <2>4, <1>4, FS_Subset
  <2> QED BY <2>5, <2>6, <1>2, <1>4
<1>6. CASE s = "user" /\ Booked(c)' = s
  <2>1. pc[c] = "count" /\ newSlot[c] = "user" /\ Booked(c) = "none" BY <1>1, <1>6
  <2>2. slot[c] # "user" /\ pc'[c] \notin {"open", "count"}
    <3>1. Types /\ ChangeOK(c) BY DEF SInv
    <3>2. \/ pc'[c] \in {"extra", "dequeue", "closed"}
          \/ \E x : pc'[c] = "count" /\ pending'[c] = << x >>
      BY <3>1, CounterChanged DEF Types
    <3>3. pc'[c] = "count" => Len(pending'[c]) # 1 BY <1>6 DEF Booked
    <3>4. pc'[c] # "count" BY <3>2, <3>3, HeadsTails
    <3> QED BY <3>1, <3>2, <3>4, <2>1 DEF ChangeOK
  <2>3. CASE IsMcn(c)
    <3>1. Plain' \in SUBSET Plain BY <1>1, <2>3 DEF Plain
    <3>2. \A u \in Users : u # UserOf[c] => McnsOf(u)' = McnsOf(u) BY <1>1 DEF McnsOf
    <3>3. McnHolders' \in SUBSET (McnHolders \cup {UserOf[c]}) BY <3>2 DEF McnHolders
    <3>4. Cardinality(Plain') <= Cardinality(Plain) BY <3>1, <1>4, FS_Subset
    <3>5. /\ IsFiniteSet(McnHolders \cup {UserOf[c]})
          /\ Cardinality(McnHolders \cup {UserOf[c]}) <= Cardinality(McnHolders) + 1
      <4>1. /\ IsFiniteSet(McnHolders \cup {UserOf[c]})
            /\ Cardinality(McnHolders \cup {UserOf[c]}) = IF UserOf[c] \in McnHolders THEN Cardinality(McnHolders) ELSE Cardinality(McnHolders) + 1
        BY <1>4, FS_AddElement
      <4> QED BY <4>1, <1>4
    <3>6. Cardinality(McnHolders') <= Cardinality(McnHolders \cup {UserOf[c]}) BY <3>3, <3>5, FS_Subset
    <3>7. Cardinality(McnHolders \cup {UserOf[c]}) \in Nat BY <3>5, FS_CardinalityType
    <3>8. count'["users"] <= count["users"] + 1 BY <3>4, <3>5, <3>6, <3>7, <1>2, <1>4
    <3> QED BY <3>8, <2>1, <2>2
  <2>4. CASE ~IsMcn(c)
    <3>1. Plain' \in SUBSET (Plain \cup {c}) BY <1>1 DEF Plain
    <3>2. \A u \in Users : McnsOf(u)' = McnsOf(u) BY <1>1, <2>4 DEF McnsOf
    <3>3. McnHolders' = McnHolders BY <3>2 DEF McnHolders
    <3>4. /\ IsFiniteSet(Plain \cup {c})
          /\ Cardinality(Plain \cup {c}) <= Cardinality(Plain) + 1
      <4>1. /\ IsFiniteSet(Plain \cup {c})
            /\ Cardinality(Plain \cup {c}) = IF c \in Plain THEN Cardinality(Plain) ELSE Cardinality(Plain) + 1
        BY <1>4, FS_AddElement
      <4> QED BY <4>1, <1>4
    <3>5. Cardinality(Plain') <= Cardinality(Plain \cup {c}) BY <3>1, <3>4, FS_Subset
    <3>6. Cardinality(Plain \cup {c}) \in Nat BY <3>4, FS_CardinalityType
    <3>7. count'["users"] <= count["users"] + 1 BY <3>3, <3>4, <3>5, <3>6, <1>2, <1>4
    <3> QED BY <3>7, <2>1, <2>2
  <2> QED BY <2>3, <2>4
<1> QED BY <1>5, <1>6

LEMMA NextBoundInv ==
  ASSUME SInv, CInv, CInv', BoundInv, [Next]_vars
  PROVE  BoundInv'
<1> SUFFICES ASSUME "user" \notin HookAnswers
             PROVE  /\ count'["users"] <= Slots + AutoSlots
                    /\ \A c \in Conns : pc'[c] \in {"open", "count"} /\ newSlot'[c] = "user" /\ slot'[c] # "user"
                          => count'["users"] < Slots + AutoSlots
  BY DEF BoundInv
<1> DEFINE Goal == /\ count'["users"] <= Slots + AutoSlots
                   /\ \A c \in Conns : pc'[c] \in {"open", "count"} /\ newSlot'[c] = "user" /\ slot'[c] # "user"
                         => count'["users"] < Slots + AutoSlots
           Wants(c) == pc[c] \in {"open", "count"} /\ newSlot[c] = "user" /\ slot[c] # "user"
<1>a. Types /\ (\A c \in Conns : ChangeOK(c)) BY DEF SInv
<1>y. /\ pc \in [Conns -> PCs] /\ slot \in [Conns -> SlotTypes] /\ newSlot \in [Conns -> SlotTypes]
      /\ count["users"] \in Nat
  BY <1>a DEF Types, Counters
<1>z. Slots \in Nat /\ AutoSlots \in Nat /\ NoConn \notin Conns BY SlotsAssumption
<1>b. /\ count["users"] <= Slots + AutoSlots
      /\ \A c \in Conns : Wants(c) => count["users"] < Slots + AutoSlots
  BY DEF BoundInv
<1>h. \A c, d \in Conns : pc[c] \in {"open", "count"} /\ pc[d] \in {"open", "count"} => c = d
  BY <1>a DEF ChangeOK
<1>k. ASSUME count' = count, \A c \in Conns : Wants(c)' => Wants(c) PROVE Goal BY <1>k, <1>b
<1>1. ASSUME NEW c \in Conns, Connect(c) PROVE Goal
  <2>1. pc' = [pc EXCEPT ![c] = "get"] /\ UNCHANGED << slot, newSlot, count >> BY <1>1 DEF Connect, slotVars
  <2>2. \A d \in Conns : Wants(d)' => Wants(d) BY <2>1, <1>y
  <2> QED BY <2>1, <2>2, <1>k
<1>2. ASSUME NEW c \in Conns, ParseSlot(c) PROVE Goal
  <2>1. /\ pc[c] = "get" /\ slotCS = NoConn /\ UNCHANGED << slot, count >>
        /\ \/ UNCHANGED << pc, newSlot >>
           \/ pc' = [pc EXCEPT ![c] = "refuse"] /\ newSlot' = [newSlot EXCEPT ![c] = "none"]
           \/ \E s \in SlotTypes \ {"none"} :
                 /\ s = "user" /\ slot[c] # "user" => FreeSlots > 0 \/ TRUE \in LowSpeedGrants
                 /\ newSlot' = [newSlot EXCEPT ![c] = s] /\ pc' = [pc EXCEPT ![c] = "open"]
    BY <1>2, <1>a, Parsed
  <2>2. FreeSlots > 0 \/ TRUE \in LowSpeedGrants => count["users"] < Slots + AutoSlots
    <3>1. FreeSlots > 0 => count["users"] < Slots BY <1>y, <1>z DEF FreeSlots
    <3>2. TRUE \in LowSpeedGrants => Slots + AutoSlots > count["users"] BY DEF LowSpeedGrants
    <3>3. count["users"] < Slots => count["users"] < Slots + AutoSlots BY <1>y, <1>z
    <3>4. Slots + AutoSlots > count["users"] => count["users"] < Slots + AutoSlots BY <1>y, <1>z
    <3> QED BY <3>1, <3>2, <3>3, <3>4
  <2>3. CASE UNCHANGED << pc, newSlot >>
    <3>1. \A d \in Conns : Wants(d)' => Wants(d) BY <2>1, <2>3
    <3> QED BY <2>1, <3>1, <1>k
  <2>4. CASE pc' = [pc EXCEPT ![c] = "refuse"] /\ newSlot' = [newSlot EXCEPT ![c] = "none"]
    <3>1. \A d \in Conns : Wants(d)' => Wants(d) BY <2>1, <2>4, <1>y
    <3> QED BY <2>1, <3>1, <1>k
  <2>5. ASSUME NEW s \in SlotTypes \ {"none"},
               s = "user" /\ slot[c] # "user" => FreeSlots > 0 \/ TRUE \in LowSpeedGrants,
               newSlot' = [newSlot EXCEPT ![c] = s], pc' = [pc EXCEPT ![c] = "open"]
        PROVE  Goal
    <3>1. newSlot'[c] = s /\ slot'[c] = slot[c] BY <2>1, <2>5, <1>y
    <3>2. \A d \in Conns \ {c} : Wants(d)' => Wants(d) BY <2>1, <2>5, <1>y
    <3>3. Wants(c)' => count["users"] < Slots + AutoSlots BY <3>1, <2>2, <2>5
    <3> QED BY <3>2, <3>3, <2>1, <1>b
  <2> QED BY <2>1, <2>3, <2>4, <2>5
<1>3. ASSUME NEW c \in Conns, Refuse(c) \/ DisconnectExtra(c) PROVE Goal
  <2>1. /\ \E x \in {"get", "dequeue"} : pc' = [pc EXCEPT ![c] = x]
        /\ UNCHANGED << slot, newSlot, count >>
    BY <1>3 DEF Refuse, DisconnectExtra
  <2>2. \A d \in Conns : Wants(d)' => Wants(d) BY <2>1, <1>y
  <2> QED BY <2>1, <2>2, <1>k
<1>4. ASSUME NEW c \in Conns, OpenUpload(c) PROVE Goal
  <2>1. pc[c] = "open" /\ count' = count BY <1>4, <1>a, Opened
  <2>2. \/ pc'[c] \in {"get", "extra", "dequeue"}
        \/ pc'[c] = "count" /\ slot'[c] = slot[c] /\ newSlot'[c] = newSlot[c]
    BY <1>4, <1>a, <1>y, Opened
  <2>3. \A d \in Conns \ {c} : pc'[d] = pc[d] /\ slot'[d] = slot[d] /\ newSlot'[d] = newSlot[d]
    BY <1>4, <1>a, <1>y, Opened
  <2>4. \A d \in Conns : Wants(d)' => Wants(d) BY <2>1, <2>2, <2>3
  <2> QED BY <2>1, <2>4, <1>k
<1>5. ASSUME NEW c \in Conns, LoadCounter(c) PROVE Goal
  <2>1. UNCHANGED << pc, slot, newSlot, count >> BY <1>5 DEF LoadCounter
  <2> QED BY <2>1, <1>k
<1>6. ASSUME NEW c \in Conns, ChangeCounter(c) PROVE Goal
  <2>1. \/ count'["users"] <= count["users"]
        \/ /\ pc[c] = "count" /\ newSlot[c] = "user" /\ slot[c] # "user"
           /\ count'["users"] <= count["users"] + 1 /\ pc'[c] \notin {"open", "count"}
    BY <1>6, UsersStep
  <2>2. pc'[c] \in {"extra", "dequeue", "closed"} \/ UNCHANGED << pc, slot, newSlot >>
    BY <1>6, <1>a, <1>y, CounterChanged
  <2>3. \A d \in Conns \ {c} : pc'[d] = pc[d] /\ slot'[d] = slot[d] /\ newSlot'[d] = newSlot[d]
    BY <1>6, <1>a, <1>y, CounterChanged
  <2>4. \A d \in Conns : Wants(d)' => Wants(d) BY <2>2, <2>3
  <2>5. count'["users"] \in Nat
    <3>1. count' \in [Counters -> 0 .. 255] BY NextTypes DEF Types
    <3> QED BY <3>1 DEF Counters
  <2>6. CASE count'["users"] <= count["users"] BY <2>4, <2>5, <2>6, <1>b, <1>y, <1>z
  <2>7. CASE /\ pc[c] = "count" /\ newSlot[c] = "user" /\ slot[c] # "user"
             /\ count'["users"] <= count["users"] + 1 /\ pc'[c] \notin {"open", "count"}
    <3>1. count["users"] < Slots + AutoSlots BY <2>7, <1>b
    <3>2. count'["users"] <= Slots + AutoSlots BY <3>1, <2>7, <2>5, <1>y, <1>z
    <3>3. \A d \in Conns \ {c} : pc'[d] \notin {"open", "count"} BY <2>3, <2>7, <1>h
    <3> QED BY <3>2, <3>3, <2>7
  <2> QED BY <2>1, <2>6, <2>7
<1>7. ASSUME NEW c \in Conns, Ordinary(c) PROVE Goal
  <2>1. /\ UNCHANGED << slot, newSlot, count >>
        /\ \/ pc' = pc
           \/ \E x \in {"send", "get"} : pc' = [pc EXCEPT ![c] = x]
    BY <1>7, <1>a, Ordinaries
  <2>2. \A d \in Conns : Wants(d)' => Wants(d) BY <2>1, <1>y
  <2> QED BY <2>1, <2>2, <1>k
<1>8. ASSUME NEW c \in Conns, Failed(c) PROVE Goal
  <2>1. /\ UNCHANGED << newSlot, count >>
        /\ \/ pc' = [pc EXCEPT ![c] = "closed"] /\ slot' = [slot EXCEPT ![c] = "none"]
           \/ pc' = [pc EXCEPT ![c] = "closing"] /\ slot' = slot
    BY <1>8 DEF Failed
  <2>2. \A d \in Conns : Wants(d)' => Wants(d) BY <2>1, <1>y
  <2> QED BY <2>1, <2>2, <1>k
<1>9. CASE Elsewhere
  <2>1. UNCHANGED << pc, slot, newSlot, count >> BY <1>9, Elsewheres
  <2> QED BY <2>1, <1>k
<1> QED BY <1>1, <1>2, <1>3, <1>4, <1>5, <1>6, <1>7, <1>8, <1>9 DEF Next, Ordinary, Elsewhere

LEMMA WithinBounds ==
  ASSUME SInv, CInv, BoundInv
  PROVE  SlotsBounded
<1> SUFFICES ASSUME "user" \notin HookAnswers PROVE Cardinality(SlotUsers) <= Slots + AutoSlots
  BY DEF SlotsBounded
<1> DEFINE U == {UserOf[c] : c \in Plain}
<1>1. U \in SUBSET Users /\ U \cap McnHolders = {} /\ McnHolders \in SUBSET Users
      /\ Plain \in SUBSET Conns /\ Cardinality(U) <= Cardinality(Plain)
  BY PlainUsers DEF McnHolders
<1>2. SlotUsers = U \cup McnHolders BY SlotUsersAre
<1> HIDE DEF U
<1>3. IsFiniteSet(U) /\ IsFiniteSet(McnHolders) /\ Cardinality(U \cap McnHolders) = 0 BY <1>1, Sizes, FS_EmptySet
<1>4. /\ Cardinality(U) \in Nat /\ Cardinality(McnHolders) \in Nat /\ Cardinality(Plain) \in Nat
  BY <1>1, Sizes
<1>5. Cardinality(U \cup McnHolders) = Cardinality(U) + Cardinality(McnHolders) - Cardinality(U \cap McnHolders)
  BY <1>3, FS_Union
<1>6. count["users"] = Cardinality(Plain) + Cardinality(McnHolders) BY DEF CInv, CountOK
<1>7. count["users"] <= Slots + AutoSlots BY DEF BoundInv
<1>8. Slots \in Nat /\ AutoSlots \in Nat BY SlotsAssumption
<1> QED BY <1>1, <1>2, <1>3, <1>4, <1>5, <1>6, <1>7, <1>8

-----------------------------------------------------------------------------
LEMMA NextDelayed ==
  ASSUME SInv, DelayedRemoved, [Next]_vars
  PROVE  DelayedRemoved'
<1>a. Types BY DEF SInv
<1>y. /\ upload \in [Conns -> [place : {"none", "running", "delayed"}, token : {0, 1}]]
      /\ task \in [Conns -> {None, 0, 1}]
  BY <1>a DEF Types
<1> DEFINE OK(c) == task[c] # None /\ FindUpload(c) => upload[c].place = "delayed"
<1>b. \A c \in Conns : OK(c) BY DEF DelayedRemoved
<1>k. ASSUME NEW c \in Conns, OK(c)', \A d \in Conns \ {c} : upload'[d] = upload[d] /\ task'[d] = task[d]
      PROVE  DelayedRemoved'
  BY <1>k, <1>b DEF DelayedRemoved, FindUpload
<1>s. UNCHANGED << upload, task >> => DelayedRemoved' BY <1>b DEF DelayedRemoved, FindUpload
<1>1. ASSUME NEW c \in Conns, Connect(c) \/ ParseSlot(c) \/ Refuse(c) \/ LoadCounter(c) \/ ChangeCounter(c)
                               \/ DisconnectExtra(c) \/ RemoveQueue(c) \/ Kick(c)
      PROVE  DelayedRemoved'
  BY <1>1, <1>s DEF Connect, ParseSlot, Refuse, LoadCounter, ChangeCounter, DisconnectExtra, RemoveQueue, Kick
<1>2. ASSUME NEW c \in Conns, OpenUpload(c) PROVE DelayedRemoved'
  <2>1. /\ task' = task
        /\ \/ upload' = [upload EXCEPT ![c] = NoUpload]
           \/ upload' = [upload EXCEPT ![c] = [place |-> "running", token |-> NewToken(c)]]
    BY <1>2, <1>a, Opened
  <2>2. task[c] # None => NewToken(c) # task[c] BY <1>y DEF NewToken, None
  <2>3. OK(c)' BY <2>1, <2>2, <1>y DEF FindUpload, NoUpload
  <2> QED BY <2>1, <2>3, <1>y, <1>k
<1>3. ASSUME NEW c \in Conns, TransmitDone(c) PROVE DelayedRemoved'
  <2>1. task' = task /\ task[c] = None /\ \A d \in Conns \ {c} : upload'[d] = upload[d]
    BY <1>3, <1>y DEF TransmitDone
  <2> QED BY <2>1, <1>k
<1>4. ASSUME NEW c \in Conns, ExpireDelayed(c) PROVE DelayedRemoved'
  <2>1. upload' = upload /\ upload[c].place = "delayed" /\ \A d \in Conns \ {c} : task'[d] = task[d]
    BY <1>4, <1>y DEF ExpireDelayed
  <2> QED BY <2>1, <1>k
<1>5. ASSUME NEW c \in Conns, RemoveDelayed(c) \/ Failed(c) PROVE DelayedRemoved'
  <2>1. task'[c] = None /\ \A d \in Conns \ {c} : upload'[d] = upload[d] /\ task'[d] = task[d]
    BY <1>5, <1>y DEF RemoveDelayed, Failed
  <2> QED BY <2>1, <1>k
<1>6. CASE Elsewhere BY <1>6, <1>s, Elsewheres
<1> QED BY <1>1, <1>2, <1>3, <1>4, <1>5, <1>6 DEF Next, Elsewhere

-----------------------------------------------------------------------------
\* The counters from which updateSlotCounts, removeSlot and getFreeSlots take the
\* free slots are exact whenever no change is under way, for any connections and
\* users, as long as changes of one counter do not overlap and the connections
\* are fewer than a byte can count.
THEOREM CountersFollowSlots == Spec /\ Bounded => []SlotCountsExact
<1>1. Init /\ Bounded => SInv /\ CInv BY InitSInv, InitCInv
<1>2. SInv /\ CInv /\ [Next]_vars => SInv' /\ CInv' BY NextSInv, NextCInv
<1>3. SInv /\ CInv => SlotCountsExact BY CountsExact
<1> QED BY <1>1, <1>2, <1>3, PTL DEF Spec

\* Between the decision of parseSlotHookedThrow and the counting of the slot no
\* other request is decided (slotCS), so the users with a permanent slot never
\* exceed the slots and the ones opened for low speed.
THEOREM SlotsWithinLimit == Spec /\ Bounded => []SlotsBounded
<1>1. Init /\ Bounded => SInv /\ CInv BY InitSInv, InitCInv
<1>2. Init => BoundInv
  <2>1. Slots \in Nat /\ AutoSlots \in Nat BY SlotsAssumption
  <2>2. Init => count["users"] = 0 /\ \A c \in Conns : pc[c] = "closed" BY DEF Init
  <2> QED BY <2>1, <2>2 DEF BoundInv
<1>3. SInv /\ CInv /\ BoundInv /\ [Next]_vars => SInv' /\ CInv' /\ BoundInv'
  BY NextSInv, NextCInv, NextBoundInv
<1>4. SInv /\ CInv /\ BoundInv => SlotsBounded BY WithinBounds
<1> QED BY <1>1, <1>2, <1>3, <1>4, PTL DEF Spec

\* The task that checkExpiredDelayUploads queues for a socket removes the delayed
\* upload or finds nothing: the next upload of the connection has another token
\* and a chunk does not end before the tasks queued earlier were carried out.
THEOREM TaskFindsDelayed == Spec => []DelayedRemoved
<1>1. Init => SInv /\ DelayedRemoved
  <2>1. Init => DelayedRemoved BY DEF Init, DelayedRemoved, None
  <2> QED BY <2>1, InitSInv
<1>2. SInv /\ DelayedRemoved /\ [Next]_vars => SInv' /\ DelayedRemoved' BY NextSInv, NextDelayed
<1> QED BY <1>1, <1>2, PTL DEF Spec
-----------------------------------------------------------------------------
(* Types.  A user waits once, however often he is refused, and the MCN      *)
(* connections with a slot are counted for their user one by one.           *)

OncePerUser(q) == q \in Seq(Users) /\ \A i, j \in DOMAIN q : q[i] = q[j] => i = j

LEMMA QueuedOnce ==
  ASSUME OncePerUser(waiting), NEW u \in Users
  PROVE  OncePerUser(Queued(u))
<1>1. CASE \E i \in DOMAIN waiting : waiting[i] = u BY <1>1 DEF Queued
<1>2. CASE ~\E i \in DOMAIN waiting : waiting[i] = u
  <2> DEFINE q == Append(waiting, u)
             n == Len(waiting)
  <2>1. waiting \in Seq(Users) /\ n \in Nat /\ DOMAIN waiting = 1 .. n BY DEF OncePerUser
  <2>2. /\ q \in Seq(Users) /\ DOMAIN q = 1 .. n + 1 /\ q[n + 1] = u
        /\ \A i \in 1 .. n : q[i] = waiting[i]
    BY <2>1
  <2> HIDE DEF q, n
  <2>3. \A i, j \in 1 .. n + 1 : q[i] = q[j] => i = j
    BY <1>2, <2>1, <2>2 DEF OncePerUser
  <2>4. OncePerUser(q) BY <2>2, <2>3 DEF OncePerUser
  <2> QED BY <1>2, <2>4 DEF Queued, q
<1> QED BY <1>1, <1>2

LEMMA WithoutOnce ==
  ASSUME OncePerUser(waiting), NEW u
  PROVE  OncePerUser(Without(waiting, u))
<1> DEFINE At == {i \in DOMAIN waiting : waiting[i] = u}
           first == CHOOSE i \in At : \A j \in At : i <= j
           n == Len(waiting)
           q == [i \in 1 .. n - 1 |-> IF i < first THEN waiting[i] ELSE waiting[i + 1]]
<1>1. waiting \in Seq(Users) /\ n \in Nat /\ DOMAIN waiting = 1 .. n BY DEF OncePerUser
<1>2. CASE At = {}
  <2>1. Without(waiting, u) = waiting BY <1>2 DEF Without
  <2> QED BY <2>1
<1>3. CASE At # {}
  <2>1. Without(waiting, u) = q BY <1>3 DEF Without
  <2>2. first \in At
    <3>1. PICK k \in At : TRUE BY <1>3
    <3>2. \A j \in At : j = k BY <3>1 DEF OncePerUser
    <3>3. k \in Nat BY <1>1, <3>1
    <3>4. \A j \in At : k <= j BY <3>2, <3>3
    <3> QED BY <3>1, <3>4
  <2>3. first \in 1 .. n BY <1>1, <2>2
  <2> HIDE DEF first, n, At
  <2>4. \A i \in 1 .. n - 1 : i \in 1 .. n /\ i + 1 \in 1 .. n BY <1>1
  <2>5. q \in Seq(Users) /\ DOMAIN q = 1 .. n - 1
    <3>1. \A i \in 1 .. n - 1 : q[i] \in Users BY <1>1, <2>4
    <3>2. n - 1 \in Nat BY <1>1, <2>3
    <3>3. q \in [1 .. n - 1 -> Users] BY <3>1
    <3> HIDE DEF q
    <3> QED BY <3>2, <3>3
  <2>6. ASSUME NEW i \in 1 .. n - 1, NEW j \in 1 .. n - 1, q[i] = q[j] PROVE i = j
    <3> DEFINE At2(k) == IF k < first THEN k ELSE k + 1
    <3>1. waiting[At2(i)] = waiting[At2(j)] BY <2>6
    <3>2. At2(i) \in DOMAIN waiting /\ At2(j) \in DOMAIN waiting BY <1>1, <2>4
    <3>3. At2(i) = At2(j) BY <3>1, <3>2 DEF OncePerUser
    <3> QED BY <3>3, <2>3, <1>1
  <2> HIDE DEF q
  <2>7. OncePerUser(q) BY <2>5, <2>6 DEF OncePerUser
  <2> QED BY <2>1, <2>7
<1> QED BY <1>2, <1>3

\* notifyQueuedUsers takes users from the front of the queue.
LEMMA RestOnce ==
  ASSUME OncePerUser(waiting), NEW n \in 0 .. Len(waiting)
  PROVE  OncePerUser(SubSeq(waiting, n + 1, Len(waiting)))
<1> DEFINE m == Len(waiting)
           q == SubSeq(waiting, n + 1, m)
<1>1. waiting \in Seq(Users) /\ m \in Nat /\ DOMAIN waiting = 1 .. m BY DEF OncePerUser
<1>2. q \in Seq(Users) /\ DOMAIN q = 1 .. m - n /\ \A i \in 1 .. m - n : q[i] = waiting[n + i]
  <2>0. n + 1 \in Int /\ m \in Int /\ \A i \in n + 1 .. m : waiting[i] \in Users BY <1>1
  <2> HIDE DEF m
  <2>1. q \in Seq(Users) /\ Len(q) = m - n
    <3>1. q \in Seq(Users) /\ Len(q) = IF n + 1 <= m THEN m - (n + 1) + 1 ELSE 0
      BY <2>0, SubSeqProperties
    <3> QED BY <3>1, <1>1
  <2>2. \A i \in 1 .. m - n : q[i] = waiting[n + i] BY <1>1
  <2> QED BY <2>1, <2>2
<1> HIDE DEF m, q
<1>3. ASSUME NEW i \in 1 .. m - n, NEW j \in 1 .. m - n, q[i] = q[j] PROVE i = j
  <2>1. n + i \in 1 .. m /\ n + j \in 1 .. m BY <1>1
  <2>2. n + i = n + j BY <1>1, <1>2, <1>3, <2>1 DEF OncePerUser
  <2> QED BY <2>2
<1>4. OncePerUser(q) BY <1>2, <1>3 DEF OncePerUser
<1> QED BY <1>4 DEF m, q

\* A set of natural numbers has a least element: the intervals 0 .. n - 1 are
\* finite sets, and strict inclusion of finite sets is well-founded.
LEMMA LeastNumber ==
  ASSUME NEW S \in SUBSET Nat, S # {}
  PROVE  \E n \in S : \A m \in S : n <= m
<1> DEFINE Below(n) == 0 .. (n - 1)
           F == {Below(n) : n \in S}
<1>1. F \subseteq FiniteSubsetsOf(Nat) /\ F # {}
  <2>1. ASSUME NEW n \in S PROVE Below(n) \in FiniteSubsetsOf(Nat)
    <3>1. IsFiniteSet(0 .. (n - 1)) BY FS_Interval, SMT
    <3>2. 0 .. (n - 1) \subseteq Nat BY SMT
    <3> QED BY <3>1, <3>2 DEF FiniteSubsetsOf
  <2> QED BY <2>1
<1>2. PICK X \in F : \A Y \in F : ~(<<Y, X>> \in StrictSubsetOrdering(Nat))
  <2>1. IsWellFoundedOn(StrictSubsetOrdering(Nat), FiniteSubsetsOf(Nat))
    BY FS_StrictSubsetOrderingWellFounded
  <2> HIDE DEF F
  <2> QED BY <1>1, <2>1, WFMin
<1>3. PICK n \in S : X = Below(n) BY <1>2
<1>4. ASSUME NEW m \in S PROVE n <= m
  <2> SUFFICES ASSUME m < n PROVE FALSE BY SMT
  <2>1. Below(m) \subseteq Below(n) BY SMT
  <2>2. m \in Below(n) /\ m \notin Below(m) BY SMT
  <2>3. Below(m) \in F /\ Below(m) \subseteq Nat /\ Below(n) \subseteq Nat BY SMT
  <2>4. <<Below(m), Below(n)>> \in StrictSubsetOrdering(Nat)
    BY <2>1, <2>2, <2>3 DEF StrictSubsetOrdering
  <2> QED BY <2>3, <2>4, <1>2, <1>3
<1> QED BY <1>4

\* The loop of notifyQueuedUsers ends: with the free slots used up by the last
\* user it took, or with the queue empty.
LEMMA TakenExists ==
  ASSUME waiting \in Seq(Users), NEW free \in Nat
  PROVE  /\ Taken(free) \in 0 .. Len(waiting)
         /\ \/ Cardinality(OnlineIn(Taken(free))) = free
            \/ Taken(free) = Len(waiting) /\ Cardinality(OnlineIn(Taken(free))) < free
<1> DEFINE len == Len(waiting)
           P(n) == \/ Cardinality(OnlineIn(n)) = free /\ (n > 0 => n \in OnlineIn(n))
                   \/ n = len /\ Cardinality(OnlineIn(n)) < free
           Enough == {n \in 0 .. len : Cardinality(OnlineIn(n)) >= free}
<1>0. len \in Nat OBVIOUS
<1>1. \A n \in Nat : IsFiniteSet(OnlineIn(n)) /\ Cardinality(OnlineIn(n)) \in Nat
  <2>1. \A n \in Nat : OnlineIn(n) \subseteq 1 .. n BY DEF OnlineIn
  <2>2. \A n \in Nat : IsFiniteSet(1 .. n) BY FS_Interval, SMT
  <2> QED BY <2>1, <2>2, FS_Subset, FS_CardinalityType
<1>2. \E n \in 0 .. len : P(n)
  <2>1. CASE Enough = {}
    <3>1. len \in 0 .. len BY <1>0
    <3>2. ~(Cardinality(OnlineIn(len)) >= free) BY <2>1, <3>1
    <3>3. Cardinality(OnlineIn(len)) \in Nat BY <1>0, <1>1
    <3>4. Cardinality(OnlineIn(len)) < free BY <3>2, <3>3
    <3> QED BY <3>1, <3>4
  <2>2. CASE Enough # {}
    <3>1. Enough \in SUBSET Nat BY <1>0
    <3>2. PICK n \in Enough : \A m \in Enough : n <= m
      <4> HIDE DEF Enough
      <4> QED BY <2>2, <3>1, LeastNumber
    <3>3. n \in 0 .. len /\ Cardinality(OnlineIn(n)) >= free BY <3>2
    <3>4. CASE n = 0
      <4>1. OnlineIn(0) = {} BY DEF OnlineIn
      <4>2. Cardinality(OnlineIn(n)) = 0 BY <3>4, <4>1, FS_EmptySet
      <4>3. P(n) BY <3>3, <3>4, <4>2
      <4> QED BY <3>3, <4>3
    <3>5. CASE n > 0
      <4>1. n - 1 \in 0 .. len /\ n - 1 \in Nat /\ ~(n <= n - 1) BY <1>0, <3>3, <3>5
      <4>2. n - 1 \notin Enough BY <3>2, <4>1
      <4>3. Cardinality(OnlineIn(n - 1)) < free BY <4>1, <4>2, <1>1
      <4>4. OnlineIn(n) \ {n} = OnlineIn(n - 1)
        <5>1. n \in Nat /\ n > 0 /\ 1 .. n - 1 = (1 .. n) \ {n} BY <3>3, <3>5, <1>0
        <5> QED BY <5>1 DEF OnlineIn
      <4>5. IsFiniteSet(OnlineIn(n)) /\ Cardinality(OnlineIn(n)) \in Nat BY <3>3, <1>0, <1>1
      <4>6. CASE n \notin OnlineIn(n)
        <5>1. OnlineIn(n) = OnlineIn(n - 1) BY <4>4, <4>6
        <5> QED BY <5>1, <4>3, <3>3, <4>5
      <4>7. CASE n \in OnlineIn(n)
        <5>1. Cardinality(OnlineIn(n - 1)) = Cardinality(OnlineIn(n)) - 1 BY <4>4, <4>5, <4>7, OneMore
        <5>2. Cardinality(OnlineIn(n)) = free BY <5>1, <4>3, <4>5, <3>3, <4>1, <1>1
        <5>3. P(n) BY <5>2, <4>7
        <5> QED BY <3>3, <5>3
      <4> QED BY <4>6, <4>7
    <3> QED BY <3>3, <3>4, <3>5, <1>0
  <2> QED BY <2>1, <2>2
<1>3. Taken(free) = CHOOSE n \in 0 .. len : P(n) BY DEF Taken
<1> HIDE DEF P, len
<1>4. Taken(free) \in 0 .. len /\ P(Taken(free)) BY <1>2, <1>3
<1> QED BY <1>4 DEF P, len

\* The connections of a user with multiple connections that have a slot are
\* counted, whatever becomes of the bytes of the other counters.
MultiExact == multi = [u \in Users |-> Cardinality(McnsOf(u))]

LEMMA NextMultiExact == SInv /\ MultiExact /\ [Next]_vars => MultiExact'
<1> SUFFICES ASSUME SInv, MultiExact, [Next]_vars PROVE MultiExact' OBVIOUS
<1>a. Types /\ (\A d \in Conns : ChangeOK(d)) BY DEF SInv
<1>1. CASE \A c \in Conns : ~ChangeCounter(c)
  <2>1. multi' = multi /\ \A d \in Conns : Booked(d)' = Booked(d) BY <1>1, SameBooked
  <2>2. \A u \in Users : McnsOf(u)' = McnsOf(u) BY <2>1 DEF McnsOf
  <2>3. MultiExact' <=> multi' = [u \in Users |-> Cardinality(McnsOf(u)')] BY DEF MultiExact
  <2> QED BY <2>1, <2>2, <2>3 DEF MultiExact
<1>2. ASSUME NEW c \in Conns, ChangeCounter(c) PROVE MultiExact'
  <2>0. UserOf[c] \in Users /\ multi = [u \in Users |-> multi[u]] BY SlotsAssumption DEF MultiExact
  <2>m. MultiExact' <=> multi' = [u \in Users |-> Cardinality(McnsOf(u)')] BY DEF MultiExact
  <2>1. multi' = IF Head(pending[c]).counter = "mcn"
                 THEN [multi EXCEPT ![UserOf[c]] = @ + Head(pending[c]).delta] ELSE multi
    BY <1>2, <1>a, CounterChanged
  <2>2. \A d \in Conns \ {c} : Booked(d)' = Booked(d) BY <1>2, OneBooked
  <2>3. PICK s \in Counted3, delta \in {-1, 1} :
           /\ Head(pending[c]) = Change(c, s, delta)
           /\ \/ delta = 1 /\ Booked(c) = "none" /\ Booked(c)' = s
              \/ delta = -1 /\ Booked(c) = s /\ Booked(c)' = "none"
    BY <1>2, OneBooked
  <2>4. Head(pending[c]).counter = Ctr(c, s) /\ Head(pending[c]).delta = delta BY <2>3 DEF Change
  <2>5. CASE s = "user" /\ IsMcn(c)
    <3> DEFINE u == UserOf[c]
    <3>1. Ctr(c, s) = "mcn" BY <2>5 DEF Ctr
    <3>2. multi' = [multi EXCEPT ![u] = @ + delta] BY <2>1, <2>4, <3>1
    <3>3. \A v \in Users \ {u} : McnsOf(v)' = McnsOf(v) BY <2>2 DEF McnsOf
    <3>4. \/ delta = 1 /\ McnsOf(u)' = McnsOf(u) \cup {c} /\ c \notin McnsOf(u)
          \/ delta = -1 /\ McnsOf(u)' = McnsOf(u) \ {c} /\ c \in McnsOf(u)
      BY <2>2, <2>3, <2>5 DEF McnsOf
    <3>5. McnsOf(u) \in SUBSET Conns BY DEF McnsOf
    <3>6. IsFiniteSet(McnsOf(u)) /\ Cardinality(McnsOf(u)) \in Nat BY <3>5, Sizes
    <3>7. Cardinality(McnsOf(u)') = Cardinality(McnsOf(u)) + delta BY <3>4, <3>6, OneMore
    <3>8. multi'[u] = Cardinality(McnsOf(u)') BY <2>0, <3>2, <3>7 DEF MultiExact
    <3>9. \A v \in Users \ {u} : multi'[v] = multi[v] BY <2>0, <3>2
    <3>10. multi' = [v \in Users |-> multi'[v]] BY <2>0, <3>2
    <3>11. \A v \in Users : multi'[v] = Cardinality(McnsOf(v)')
      <4>1. \A v \in Users : multi[v] = Cardinality(McnsOf(v)) BY DEF MultiExact
      <4> HIDE DEF u
      <4> QED BY <4>1, <3>3, <3>8, <3>9
    <3> QED BY <2>m, <3>10, <3>11
  <2>6. CASE ~(s = "user" /\ IsMcn(c))
    <3>1. Ctr(c, s) # "mcn" BY <2>6 DEF Ctr
    <3>2. multi' = multi BY <2>1, <2>4, <3>1
    <3>3. \A u \in Users : McnsOf(u)' = McnsOf(u) BY <2>2, <2>3, <2>6 DEF McnsOf
    <3> QED BY <2>m, <3>2, <3>3 DEF MultiExact
  <2> QED BY <2>5, <2>6
<1> QED BY <1>1, <1>2

QueueTypes ==
    /\ kicked \subseteq Conns /\ slotCS \in Conns \union {NoConn}
    /\ OncePerUser(waiting) /\ notified \subseteq Users
    /\ timer \in {None} \union 0 .. Slots
    /\ online \in [Users -> BOOLEAN]

LEMMA NextQueueTypes == SInv /\ QueueTypes /\ [Next]_vars => QueueTypes'
<1> SUFFICES ASSUME SInv, QueueTypes, [Next]_vars PROVE QueueTypes' OBVIOUS
<1>a. Types /\ (\A d \in Conns : ChangeOK(d)) BY DEF SInv
<1>u. \A c \in Conns : UserOf[c] \in Users BY SlotsAssumption
<1>1. ASSUME NEW c \in Conns, Connect(c) \/ LoadCounter(c) \/ ExpireDelayed(c) \/ RemoveDelayed(c)
             \/ TransmitDone(c) \/ Kick(c)
      PROVE  QueueTypes'
  BY <1>1 DEF Connect, LoadCounter, ExpireDelayed, RemoveDelayed, TransmitDone, Kick, slotVars,
     queueVars, QueueTypes
<1>2. ASSUME NEW c \in Conns, ParseSlot(c) PROVE QueueTypes'
  <2>1. /\ UNCHANGED queueVars
        /\ slotCS' = slotCS \/ slotCS' = c
        /\ kicked' = kicked \/ kicked' = kicked \union {c}
    BY <1>2 DEF ParseSlot
  <2> QED BY <2>1 DEF QueueTypes, queueVars
<1>3. ASSUME NEW c \in Conns, Refuse(c) PROVE QueueTypes'
  <2>1. waiting' = waiting \/ waiting' = Queued(UserOf[c]) BY <1>3 DEF Refuse
  <2>2. OncePerUser(waiting') BY <2>1, <1>u, QueuedOnce DEF QueueTypes
  <2> QED BY <1>3, <2>2 DEF Refuse, QueueTypes
<1>4. ASSUME NEW c \in Conns, OpenUpload(c) PROVE QueueTypes'
  <2>1. UNCHANGED << kicked, queueVars >> /\ (slotCS' = slotCS \/ slotCS' = NoConn)
    <3>1. slotCS' = slotCS \/ slotCS' = NoConn BY <1>4, <1>a, Opened
    <3> QED BY <1>4, <3>1 DEF OpenUpload
  <2> QED BY <2>1 DEF QueueTypes, queueVars
<1>5. ASSUME NEW c \in Conns, ChangeCounter(c) PROVE QueueTypes'
  <2>1. UNCHANGED << kicked, queueVars >> /\ (slotCS' = slotCS \/ slotCS' = NoConn)
    <3>1. slotCS' = slotCS \/ slotCS' = NoConn BY <1>5, <1>a, CounterChanged
    <3> QED BY <1>5, <3>1 DEF ChangeCounter
  <2> QED BY <2>1 DEF QueueTypes, queueVars
<1>6. ASSUME NEW c \in Conns, DisconnectExtra(c) PROVE QueueTypes'
  <2>1. UNCHANGED queueVars /\ slotCS' = NoConn
        /\ (kicked' = kicked \/ \E d \in Conns : kicked' = kicked \union {d})
    BY <1>6 DEF DisconnectExtra
  <2> QED BY <2>1 DEF QueueTypes, queueVars
<1>7. ASSUME NEW c \in Conns, RemoveQueue(c) PROVE QueueTypes'
  <2>1. OncePerUser(waiting') BY <1>7, WithoutOnce DEF RemoveQueue, QueueTypes
  <2> QED BY <1>7, <2>1 DEF RemoveQueue, QueueTypes, slotVars
<1>8. ASSUME NEW c \in Conns, Failed(c) PROVE QueueTypes'
  BY <1>8 DEF Failed, QueueTypes, queueVars
<1>9. ASSUME TimerSecond PROVE QueueTypes'
  <2>1. FreeSlots \in 0 .. Slots
    <3>1. count["users"] \in 0 .. 255 BY <1>a DEF Types, Counters
    <3>2. Slots \in Nat BY SlotsAssumption
    <3> DEFINE used == count["users"]
    <3>3. FreeSlots = IF Slots > used THEN Slots - used ELSE 0 BY DEF FreeSlots
    <3> HIDE DEF used
    <3>4. used \in Nat BY <3>1 DEF used
    <3> QED BY <3>2, <3>3, <3>4
  <2> QED BY <1>9, <2>1 DEF TimerSecond, QueueTypes, slotVars
<1>10. ASSUME NotifyQueuedUsers PROVE QueueTypes'
  <2> DEFINE free == Byte(timer - Cardinality(notified))
             n == Taken(free)
  <2>1. timer \in Nat BY <1>10, SlotsAssumption DEF NotifyQueuedUsers, QueueTypes
  <2>2. IsFiniteSet(notified) BY SlotsAssumption, FS_Subset DEF QueueTypes
  <2>3. free \in Nat BY <2>1, <2>2, FS_CardinalityType DEF Byte
  <2>4. waiting \in Seq(Users) BY DEF QueueTypes, OncePerUser
  <2> HIDE DEF free
  <2>5. n \in 0 .. Len(waiting) BY <2>3, <2>4, TakenExists
  <2>6. /\ waiting' = waiting \/ waiting' = SubSeq(waiting, n + 1, Len(waiting))
        /\ notified' = notified \/ notified' = notified \union {waiting[i] : i \in OnlineIn(n)}
        /\ timer' = None /\ UNCHANGED << kicked, slotVars, online >>
    BY <1>10, Zenon DEF NotifyQueuedUsers, free
  <2> HIDE DEF n
  <2>7. OncePerUser(waiting') BY <2>5, <2>6, RestOnce DEF QueueTypes
  <2>8. notified' \subseteq Users
    <3>1. \A i \in OnlineIn(n) : waiting[i] \in Users BY <2>4, <2>5 DEF OnlineIn
    <3> QED BY <2>6, <3>1 DEF QueueTypes
  <2> QED BY <2>6, <2>7, <2>8 DEF QueueTypes, slotVars
<1>11. ASSUME NEW u \in Users, ForgetNotified(u) \/ UserDisconnected(u) PROVE QueueTypes'
  <2>1. OncePerUser(waiting') BY <1>11, WithoutOnce DEF ForgetNotified, UserDisconnected, QueueTypes
  <2> QED BY <1>11, <2>1 DEF ForgetNotified, UserDisconnected, QueueTypes, slotVars
<1>12. ASSUME NEW u \in Users, UserConnected(u) PROVE QueueTypes'
  BY <1>12 DEF UserConnected, QueueTypes, slotVars
<1>13. CASE UNCHANGED vars BY <1>13 DEF vars, QueueTypes
<1> QED
  BY <1>1, <1>2, <1>3, <1>4, <1>5, <1>6, <1>7, <1>8, <1>9, <1>10, <1>11, <1>12, <1>13 DEF Next

\* Types: a user waits in one place of the queue only, notifyQueuedUsers never
\* runs off it, and changeMultiConnSlot counts no more connections of a user
\* than there are, also when the changes of the other counters overlap.
THEOREM TypeCorrect == Spec => []TypeOK
<1>1. Init => SInv BY InitSInv
<1>2. Init => MultiExact
  <2> SUFFICES ASSUME Init PROVE MultiExact OBVIOUS
  <2>1. \A u \in Users : McnsOf(u) = {} BY DEF Init, McnsOf, Booked, Counted3
  <2> QED BY <2>1, FS_EmptySet DEF MultiExact, Init
<1>3. Init => QueueTypes
  <2> SUFFICES ASSUME Init PROVE QueueTypes OBVIOUS
  <2>1. waiting = << >> BY DEF Init
  <2>2. OncePerUser(waiting) BY <2>1 DEF OncePerUser
  <2> QED BY <2>2 DEF Init, QueueTypes
<1>4. SInv /\ MultiExact /\ QueueTypes => TypeOK
  <2> SUFFICES ASSUME SInv, MultiExact, QueueTypes PROVE TypeOK OBVIOUS
  <2>1. \A u \in Users : McnsOf(u) \in SUBSET Conns BY DEF McnsOf
  <2>2. \A u \in Users : Cardinality(McnsOf(u)) \in 0 .. Cardinality(Conns) BY <2>1, Sizes
  <2>3. multi = [u \in Users |-> multi[u]] BY DEF MultiExact
  <2>4. \A u \in Users : multi[u] \in 0 .. Cardinality(Conns) BY <2>2 DEF MultiExact
  <2> QED BY <2>3, <2>4 DEF SInv, Types, QueueTypes, OncePerUser, TypeOK, PCs, SlotTypes, Counters
<1> QED BY <1>1, <1>2, <1>3, <1>4, NextSInv, NextMultiExact, NextQueueTypes, PTL DEF Spec

=============================================================================
