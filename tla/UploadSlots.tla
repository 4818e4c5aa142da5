----------------------------- MODULE UploadSlots -----------------------------
(***************************************************************************)
(* UploadManager and UploadQueueManager: the slots of upload connections,  *)
(* the counters free slots are computed from, running and delayed uploads, *)
(* the users who wait for a slot and those who were told that one is free. *)
(*                                                                         *)
(* One request of a connection is answered in steps, cut where prepareFile *)
(* takes or releases a lock: ParseSlot, then Refuse or OpenUpload, then    *)
(* the slot counters, then RemoveQueue.  slotCS is held from ParseSlot to  *)
(* the end of the counters; a connection that ends changes counters        *)
(* without it.  Files are abstracted to how they use slots, times (the     *)
(* delay of an upload, the age of a notice) to "it may have passed".       *)
(***************************************************************************)
EXTENDS Integers, Sequences, FiniteSets

CONSTANTS
    Conns,            \* upload connections
    Users,
    UserOf,           \* the user of each connection
    McnUsers,         \* users whose connections have FLAG_MCN1
    Operators,        \* users who are operators of a hub
    Kinds,            \* kinds of files asked for: "small", "list" (mini slot) or "file"
    Slots,            \* AutoLimitUtil::getSlots
    SlotsPerUser,     \* AutoLimitUtil::getSlotsPerUser, 0 for no limit
    ExtraSlots,       \* SETTING(EXTRA_SLOTS)
    SmallLimit,       \* the 8 of parseSlotHookedThrow
    AutoSlots,        \* AutoLimitUtil::getMaxAutoOpened, 0 also when no speed limit is set
    HookAnswers,      \* what the slot hooks answer: "none", "file", "user", "reject"
    AtomicCounters,   \* two changes of a counter never overlap
    Chunked,          \* files are asked for in chunks
    Kicks,            \* files may be unshared while they are uploaded
    GoesOffline,      \* users may leave the hubs and come back
    NoConn

ASSUME SlotsAssumption ==
    /\ IsFiniteSet(Conns) /\ IsFiniteSet(Users)
    /\ UserOf \in [Conns -> Users]
    /\ McnUsers \subseteq Users /\ Operators \subseteq Users
    /\ Kinds \subseteq {"small", "list", "file"}
    /\ HookAnswers \subseteq {"none", "file", "user", "reject"}
    /\ Slots \in 0 .. 255 /\ SlotsPerUser \in Nat /\ ExtraSlots \in Nat
    /\ SmallLimit \in 0 .. 254 /\ AutoSlots \in Nat
    /\ {AtomicCounters, Chunked, Kicks, GoesOffline} \subseteq BOOLEAN
    /\ NoConn \notin Conns

VARIABLES
    pc,          \* where each connection is
    slot,        \* its slot: type and source
    newSlot,     \* the slot prepareFile decided on
    upload,      \* its Upload object: where it is listed and its token
    task,        \* token of the upload whose removal is in its socket's task queue
    kicked,      \* connections with a disconnect in the task queue
    slotCS,      \* the connection that holds slotCS
    count,       \* runningUsers, extra, smallFileConnections, mcnConnections: uint8_t
    pending,     \* changes of the counters a connection still has to make
    loaded,      \* what it has read of the counter to change first
    multi,       \* multiUploads
    waiting,     \* uploadQueue
    notified,    \* notifiedUsers
    timer,       \* the free slots notifyQueuedUsers was called with
    online

vars == << pc, slot, newSlot, upload, task, kicked, slotCS, count, pending, loaded,
           multi, waiting, notified, timer, online >>

slotVars  == << slot, newSlot, slotCS, count, pending, loaded, multi >>
queueVars == << waiting, notified, timer, online >>

None == -1

\* TransferSlot: a per-file slot is "mini", "mcn" (small files) or from a hook.
TypeOf(s) == CASE s = "none" -> 0 [] s = "user" -> 2 [] OTHER -> 1

NoUpload == [place |-> "none", token |-> 0]

IsMcn(c) == UserOf[c] \in McnUsers

Byte(n) == n % 256

-----------------------------------------------------------------------------
(* Free slots and the decision which slot a request gets.                  *)

FreeSlots == IF Slots > count["users"] THEN Slots - count["users"] ELSE 0

AllowUser(u) == (waiting = << >> /\ notified = {}) \/ u \in notified

UploadingMcn == {u \in Users : multi[u] > 0}

FreeMultiConn == Slots - count["users"] - count["mcn"] + Cardinality(UploadingMcn)

\* lowSpeedSlotsRemaining: the speed and the time of the last grant are free.
LowSpeedGrants == IF AutoSlots > 0 /\ Slots + AutoSlots > count["users"] THEN BOOLEAN ELSE {FALSE}

AllowNewMultiConn(u) ==
    /\ \/ \E v \in UploadingMcn \ {u} : multi[v] > multi[u]
       \/ FreeMultiConn > 0 /\ AllowUser(u)
    /\ SlotsPerUser > 0 => multi[u] < SlotsPerUser

\* Mutant: a user who was told of a slot gets one in any case.
MutStandardSlotsRemaining(u, granted) == (FreeSlots > 0 /\ AllowUser(u)) \/ u \in notified \/ granted

StandardSlotsRemaining(u, granted) == (FreeSlots > 0 /\ AllowUser(u)) \/ granted

SmallSlotFree(c) == slot[c] = "mcn" \/ count["small"] <= SmallLimit

MiniSlotFree(c) == slot[c] = "mini" \/ UserOf[c] \in Operators \/ count["extra"] < ExtraSlots

\* parseSlotHookedThrow: the first condition that holds decides.
SlotFor(c, kind, hook, granted) ==
    LET u == UserOf[c]
    IN  CASE slot[c] = "user" -> "user"
          [] slot[c] # "user" /\ kind # "small" /\ u \in UploadingMcn /\ ~AllowNewMultiConn(u) -> "none"
          [] OTHER ->
             IF hook = "reject" THEN "rejected"
             ELSE IF IsMcn(c) /\ kind = "small" /\ SmallSlotFree(c) THEN "mcn"
             ELSE IF hook = "user" \/ StandardSlotsRemaining(u, granted) THEN "user"
             ELSE IF hook = "none" /\ kind # "file" /\ MiniSlotFree(c) THEN "mini"
             ELSE IF hook = "file" THEN "hooked" ELSE "none"

-----------------------------------------------------------------------------
Init ==
    /\ pc = [c \in Conns |-> "closed"]
    /\ slot = [c \in Conns |-> "none"] /\ newSlot = [c \in Conns |-> "none"]
    /\ upload = [c \in Conns |-> NoUpload]
    /\ task = [c \in Conns |-> None]
    /\ kicked = {} /\ slotCS = NoConn
    /\ count = [x \in {"users", "extra", "small", "mcn"} |-> 0]
    /\ pending = [c \in Conns |-> << >>] /\ loaded = [c \in Conns |-> None]
    /\ multi = [u \in Users |-> 0]
    /\ waiting = << >> /\ notified = {} /\ timer = None
    /\ online = [u \in Users |-> TRUE]

\* Mutant: a user may be queued for every file he asks for.
MutQueued(u) == Append(waiting, u)

\* addFailedUpload: a user waits once, however many files he asks for.
Queued(u) == IF \E i \in DOMAIN waiting : waiting[i] = u THEN waiting ELSE Append(waiting, u)

\* ConnectionManager::addUploadConnection: users without multiple connections
\* have one upload connection; the item of one that ends is gone by the time
\* UploadManager hears of the end.
Connect(c) ==
    /\ pc[c] = "closed" /\ online[UserOf[c]]
    /\ IsMcn(c) \/ \A d \in Conns : UserOf[d] = UserOf[c] => pc[d] \in {"closed", "closing"}
    /\ pc' = [pc EXCEPT ![c] = "get"]
    /\ UNCHANGED << upload, task, kicked, slotVars, queueVars >>

\* prepareFile: with slotCS held, the slot for the request is decided.
ParseSlot(c) ==
    /\ pc[c] = "get" /\ slotCS = NoConn /\ c \notin kicked
    /\ \E kind \in Kinds, hook \in HookAnswers, granted \in LowSpeedGrants :
          LET s == SlotFor(c, kind, hook, granted)
          IN  IF s = "rejected"
              THEN kicked' = kicked \union {c} /\ UNCHANGED << pc, newSlot, slotCS >>
              ELSE /\ pc' = [pc EXCEPT ![c] = IF s = "none" THEN "refuse" ELSE "open"]
                   /\ newSlot' = [newSlot EXCEPT ![c] = s]
                   /\ slotCS' = c
                   /\ UNCHANGED kicked
    /\ UNCHANGED << slot, upload, task, count, pending, loaded, multi, queueVars >>

\* No slot: the user is queued, unless he is uploading from us over other
\* connections already, and this connection is ended.
Refuse(c) ==
    /\ pc[c] = "refuse"
    /\ waiting' = IF UserOf[c] \in UploadingMcn THEN waiting ELSE Queued(UserOf[c])
    /\ kicked' = kicked \union {c}
    /\ slotCS' = NoConn
    /\ pc' = [pc EXCEPT ![c] = "get"]
    /\ UNCHANGED << slot, newSlot, upload, task, count, pending, loaded, multi,
                    notified, timer, online >>

\* The changes of counters that giving (+1) or taking (-1) slot s means.
Changes(c, s, delta) ==
    CASE s = "user" -> << [counter |-> IF IsMcn(c) THEN "mcn" ELSE "users", delta |-> delta] >>
      [] s = "mini" -> << [counter |-> "extra", delta |-> delta] >>
      [] s = "mcn"  -> << [counter |-> "small", delta |-> delta] >>
      [] OTHER -> << >>

\* Mutant: the old slot is not given back when a connection gets a better one.
MutChangesOfSlot(c, new) ==
    IF TypeOf(new) = TypeOf(slot[c]) THEN << >> ELSE Changes(c, new, 1)

\* updateSlotCounts: nothing happens when the type of the slot stays.
ChangesOfSlot(c, new) ==
    IF TypeOf(new) = TypeOf(slot[c]) THEN << >> ELSE Changes(c, slot[c], -1) \o Changes(c, new, 1)

\* What follows the counters: extra MCN connections are looked for after a
\* permanent slot was given, then slotCS is released.
AfterSlot(c, changed, new) ==
    /\ pc' = [pc EXCEPT ![c] = IF changed /\ new = "user" THEN "extra" ELSE "dequeue"]
    /\ slotCS' = IF changed /\ new = "user" THEN slotCS ELSE NoConn
    /\ newSlot' = [newSlot EXCEPT ![c] = "none"]

\* A token that the task in the socket's queue does not name.
NewToken(c) == IF task[c] = None THEN 0 ELSE 1 - task[c]

\* resumeStream deletes the delayed upload of the connection; then the file is
\* opened, which may fail, and the new upload is listed.
OpenUpload(c) ==
    LET changes == ChangesOfSlot(c, newSlot[c])
        retyped == TypeOf(newSlot[c]) # TypeOf(slot[c])
    IN  /\ pc[c] = "open"
        /\ \/ /\ upload' = [upload EXCEPT ![c] = NoUpload]
              /\ pc' = [pc EXCEPT ![c] = "get"]
              /\ slotCS' = NoConn
              /\ newSlot' = [newSlot EXCEPT ![c] = "none"]
              /\ UNCHANGED << slot, pending >>
           \/ /\ upload' = [upload EXCEPT ![c] = [place |-> "running", token |-> NewToken(c)]]
              /\ pending' = [pending EXCEPT ![c] = changes]
              /\ IF changes # << >>
                 THEN pc' = [pc EXCEPT ![c] = "count"] /\ UNCHANGED << slot, newSlot, slotCS >>
                 ELSE /\ slot' = IF retyped THEN [slot EXCEPT ![c] = newSlot[c]] ELSE slot
                      /\ AfterSlot(c, retyped, newSlot[c])
        /\ UNCHANGED << task, kicked, count, loaded, multi, queueVars >>

\* The counters are plain bytes: a change reads, adds and writes, and another
\* thread may write in between.
LoadCounter(c) ==
    /\ pending[c] # << >> /\ loaded[c] = None
    /\ AtomicCounters => \A d \in Conns : loaded[d] = None
    /\ LET counter == Head(pending[c]).counter
       IN  loaded' = [loaded EXCEPT ![c] = count[IF counter = "mcn" THEN "users" ELSE counter]]
    /\ UNCHANGED << pc, slot, newSlot, upload, task, kicked, slotCS, count, pending,
                    multi, queueVars >>

\* changeMultiConnSlot: all connections of a user share one of runningUsers.
Reserved(u, delta) ==
    IF multi[u] = 0 /\ delta = 1 THEN 1 ELSE IF multi[u] = 1 /\ delta = -1 THEN -1 ELSE 0

\* The counters after a change whose read returned old.
Counted(c, change, old) ==
    IF change.counter = "mcn"
    THEN LET r == Reserved(UserOf[c], change.delta)
         IN  [count EXCEPT !["mcn"] = Byte(@ + change.delta),
                           !["users"] = IF r = 0 THEN @ ELSE Byte(old + r)]
    ELSE [count EXCEPT ![change.counter] = Byte(old + change.delta)]

\* removeSlot and updateSlotCounts; the last change is followed by setSlot.
ChangeCounter(c) ==
    LET change == Head(pending[c])
        last == Len(pending[c]) = 1
    IN  /\ pending[c] # << >> /\ loaded[c] # None
        /\ count' = Counted(c, change, loaded[c])
        /\ multi' = IF change.counter = "mcn" THEN [multi EXCEPT ![UserOf[c]] = @ + change.delta] ELSE multi
        /\ pending' = [pending EXCEPT ![c] = Tail(@)]
        /\ loaded' = [loaded EXCEPT ![c] = None]
        /\ IF ~last
           THEN UNCHANGED << pc, slot, newSlot, slotCS >>
           ELSE IF pc[c] = "count"
           THEN slot' = [slot EXCEPT ![c] = newSlot[c]] /\ AfterSlot(c, TRUE, newSlot[c])
           ELSE /\ slot' = [slot EXCEPT ![c] = "none"]
                /\ pc' = [pc EXCEPT ![c] = "closed"]
                /\ UNCHANGED << newSlot, slotCS >>
        /\ UNCHANGED << upload, task, kicked, queueVars >>

\* disconnectExtraMultiConn: when there are more MCN connections than slots, a
\* running one of the user with the most is disconnected.
DisconnectExtra(c) ==
    LET Highest == {u \in UploadingMcn : multi[u] > 1 /\ \A v \in UploadingMcn : multi[v] <= multi[u]}
        Extra(u) == {d \in Conns : UserOf[d] = u /\ upload[d].place = "running" /\ slot[d] = "user"}
    IN  /\ pc[c] = "extra"
        /\ \/ /\ TRUE \in LowSpeedGrants \/ FreeMultiConn >= 0 \/ Highest = {}
                 \/ \E u \in Highest : Extra(u) = {}
              /\ UNCHANGED kicked
           \/ /\ FreeMultiConn < 0
              /\ \E u \in Highest : \E d \in Extra(u) : kicked' = kicked \union {d}
        /\ pc' = [pc EXCEPT ![c] = "dequeue"]
        /\ slotCS' = NoConn
        /\ UNCHANGED << slot, newSlot, upload, task, count, pending, loaded, multi, queueVars >>

\* clearUserFiles: the first entry of the user is erased.
Without(q, u) ==
    LET At == {i \in DOMAIN q : q[i] = u}
        first == CHOOSE i \in At : \A j \in At : i <= j
    IN  IF At = {} THEN q
        ELSE [i \in 1 .. Len(q) - 1 |-> IF i < first THEN q[i] ELSE q[i + 1]]

\* queue->removeQueue, after slotCS was released; then the transfer starts.
RemoveQueue(c) ==
    /\ pc[c] = "dequeue"
    /\ waiting' = Without(waiting, UserOf[c])
    /\ notified' = notified \ {UserOf[c]}
    /\ pc' = [pc EXCEPT ![c] = "send"]
    /\ UNCHANGED << upload, task, kicked, slotVars, timer, online >>

-----------------------------------------------------------------------------
(* The life of an upload and of its connection.  The socket's thread runs  *)
(* the handlers and, between them, the tasks that were queued before.      *)

\* on(TransmitDone): a chunk that does not end the file is kept for a while.
TransmitDone(c) ==
    /\ pc[c] = "send" /\ task[c] = None
    /\ \E place \in {"none"} \union (IF Chunked THEN {"delayed"} ELSE {}) : upload' = [upload EXCEPT ![c] = IF place = "none" THEN NoUpload ELSE [@ EXCEPT !.place = place]]
    /\ pc' = [pc EXCEPT ![c] = "get"]
    /\ UNCHANGED << task, kicked, slotVars, queueVars >>

\* checkExpiredDelayUploads: the removal becomes a task of the socket.
ExpireDelayed(c) ==
    /\ upload[c].place = "delayed" /\ task[c] = None
    /\ task' = [task EXCEPT ![c] = upload[c].token]
    /\ UNCHANGED << pc, upload, kicked, slotVars, queueVars >>

\* Mutant: the task does not look for the upload it was queued for.
MutFindUpload(c) == upload[c].place # "none"

\* getAsyncWrapper: the upload with the token of the task, if it is still there.
FindUpload(c) == upload[c].place # "none" /\ upload[c].token = task[c]

RemoveDelayed(c) ==
    /\ task[c] # None /\ pc[c] \in {"get", "send"}
    /\ upload' = IF FindUpload(c) THEN [upload EXCEPT ![c] = NoUpload] ELSE upload
    /\ task' = [task EXCEPT ![c] = None]
    /\ UNCHANGED << pc, kicked, slotVars, queueVars >>

\* on(Failed): the upload goes at once, then the slot.
Failed(c) ==
    LET changes == Changes(c, slot[c], -1)
    IN  /\ pc[c] \in {"get", "send"}
        /\ upload' = [upload EXCEPT ![c] = NoUpload]
        /\ task' = [task EXCEPT ![c] = None]
        /\ kicked' = kicked \ {c}
        /\ pending' = [pending EXCEPT ![c] = changes]
        /\ IF changes = << >>
           THEN pc' = [pc EXCEPT ![c] = "closed"] /\ slot' = [slot EXCEPT ![c] = "none"]
           ELSE pc' = [pc EXCEPT ![c] = "closing"] /\ UNCHANGED slot
        /\ UNCHANGED << newSlot, slotCS, count, loaded, multi, queueVars >>

\* disconnectOfflineUsers, and abortUpload for a file that is no longer shared.
Kick(c) ==
    /\ Kicks \/ ~online[UserOf[c]]
    /\ upload[c].place # "none" /\ c \notin kicked
    /\ kicked' = kicked \union {c}
    /\ UNCHANGED << pc, upload, task, slotVars, queueVars >>

-----------------------------------------------------------------------------
(* The queue of waiting users                                              *)

\* on(Second), first half: the free slots are computed without a lock.
TimerSecond ==
    /\ timer = None
    /\ timer' = FreeSlots
    /\ UNCHANGED << pc, upload, task, kicked, slotVars, waiting, notified, online >>

OnlineIn(n) == {i \in 1 .. n : online[waiting[i]]}

\* How many users are taken off the queue for so many free slots: offline ones
\* do not count.
Taken(free) ==
    CHOOSE n \in 0 .. Len(waiting) :
        /\ \/ Cardinality(OnlineIn(n)) = free /\ (n > 0 => n \in OnlineIn(n))
           \/ n = Len(waiting) /\ Cardinality(OnlineIn(n)) < free

\* notifyQueuedUsers: users who have been notified before use up free slots,
\* in the arithmetic of bytes.
NotifyQueuedUsers ==
    LET free == Byte(timer - Cardinality(notified))
        n == Taken(free)
    IN  /\ timer # None
        /\ IF timer > 0
           THEN /\ notified' = notified \union {waiting[i] : i \in OnlineIn(n)}
                /\ waiting' = SubSeq(waiting, n + 1, Len(waiting))
           ELSE UNCHANGED << waiting, notified >>
        /\ timer' = None
        /\ UNCHANGED << pc, upload, task, kicked, slotVars, online >>

\* Mutant: only users who have left are forgotten.
MutForgetNotified(u) ==
    /\ u \in notified /\ ~online[u]
    /\ notified' = notified \ {u}
    /\ waiting' = Without(waiting, u)
    /\ UNCHANGED << pc, upload, task, kicked, slotVars, timer, online >>

\* on(Minute): he did not ask for a file in time.
ForgetNotified(u) ==
    /\ u \in notified
    /\ notified' = notified \ {u}
    /\ waiting' = Without(waiting, u)
    /\ UNCHANGED << pc, upload, task, kicked, slotVars, timer, online >>

UserDisconnected(u) ==
    /\ GoesOffline /\ online[u]
    /\ online' = [online EXCEPT ![u] = FALSE]
    /\ waiting' = Without(waiting, u)
    /\ UNCHANGED << pc, upload, task, kicked, slotVars, notified, timer >>

UserConnected(u) ==
    /\ ~online[u]
    /\ online' = [online EXCEPT ![u] = TRUE]
    /\ UNCHANGED << pc, upload, task, kicked, slotVars, waiting, notified, timer >>

Counts(c) == LoadCounter(c) \/ ChangeCounter(c)

Handler(c) == Refuse(c) \/ OpenUpload(c) \/ Counts(c) \/ DisconnectExtra(c) \/ RemoveQueue(c)

Next ==
    \/ \E c \in Conns : Connect(c)
    \/ \E c \in Conns : ParseSlot(c)
    \/ \E c \in Conns : Refuse(c)
    \/ \E c \in Conns : OpenUpload(c)
    \/ \E c \in Conns : LoadCounter(c)
    \/ \E c \in Conns : ChangeCounter(c)
    \/ \E c \in Conns : DisconnectExtra(c)
    \/ \E c \in Conns : RemoveQueue(c)
    \/ \E c \in Conns : TransmitDone(c)
    \/ \E c \in Conns : ExpireDelayed(c)
    \/ \E c \in Conns : RemoveDelayed(c)
    \/ \E c \in Conns : Failed(c)
    \/ \E c \in Conns : Kick(c)
    \/ TimerSecond
    \/ NotifyQueuedUsers
    \/ \E u \in Users : ForgetNotified(u)
    \/ \E u \in Users : UserDisconnected(u)
    \/ \E u \in Users : UserConnected(u)

Spec == Init /\ [][Next]_vars

\* Threads that have begun a request finish it, queued tasks are carried out
\* and the timer ticks.
Fairness ==
    /\ \A c \in Conns : /\ WF_vars(Handler(c))
                        /\ WF_vars(c \in kicked /\ Failed(c))
    /\ WF_vars(TimerSecond \/ NotifyQueuedUsers)
    /\ \A u \in Users : WF_vars(ForgetNotified(u))

FairSpec == Spec /\ Fairness

-----------------------------------------------------------------------------
TypeOK ==
    /\ pc \in [Conns -> {"closed", "get", "refuse", "open", "count", "extra", "dequeue", "send", "closing"}]
    /\ slot \in [Conns -> {"none", "user", "mini", "mcn", "hooked"}]
    /\ newSlot \in [Conns -> {"none", "user", "mini", "mcn", "hooked"}]
    /\ upload \in [Conns -> [place : {"none", "running", "delayed"}, token : {0, 1}]]
    /\ task \in [Conns -> {None, 0, 1}]
    /\ kicked \subseteq Conns /\ slotCS \in Conns \union {NoConn}
    /\ count \in [{"users", "extra", "small", "mcn"} -> 0 .. 255]
    /\ loaded \in [Conns -> {None} \union 0 .. 255]
    /\ multi \in [Users -> 0 .. Cardinality(Conns)]
    /\ waiting \in Seq(Users) /\ notified \subseteq Users
    /\ \A i, j \in DOMAIN waiting : waiting[i] = waiting[j] => i = j
    /\ timer \in {None} \union 0 .. Slots
    /\ online \in [Users -> BOOLEAN]

Owners(s) == {c \in Conns : slot[c] = s}

\* Users with a permanent slot, whatever the counters say.
SlotUsers == {UserOf[c] : c \in Owners("user")}

\* getFreeSlots, getFreeExtraSlots and the MCN limits count what connections
\* really have, whenever no change of the counters is under way: each slot
\* given by updateSlotCounts is taken back once, by removeSlot, and the
\* connections of an MCN user hold one slot together.
SlotCountsExact ==
    (\A c \in Conns : pending[c] = << >>) =>
        /\ count["users"] = Cardinality(SlotUsers)
        /\ count["extra"] = Cardinality(Owners("mini"))
        /\ count["small"] = Cardinality(Owners("mcn"))
        /\ \A u \in Users : multi[u] = Cardinality({c \in Owners("user") : UserOf[c] = u /\ IsMcn(c)})
        /\ count["mcn"] = Cardinality({c \in Owners("user") : IsMcn(c)})

\* Without grants of hooks no more users have a slot than there are slots and
\* those opened for low speed, although slots are given back, users notified and
\* notices forgotten at any time between the decision of parseSlotHookedThrow
\* and the counting of updateSlotCounts.
SlotsBounded == "user" \notin HookAnswers => Cardinality(SlotUsers) <= Slots + AutoSlots

\* The assertions of the task that removes a delayed upload: an upload that it
\* finds is a delayed one, never the next upload of the connection.
DelayedRemoved == \A c \in Conns : (task[c] # None /\ FindUpload(c)) => upload[c].place = "delayed"

\* As long as connections come to an end, nobody waits in the queue for ever:
\* notifyQueuedUsers reaches him, whoever else is served in the meantime.
WaitingEnds ==
    (\A c \in Conns : []<>(pc[c] = "closed")) =>
        \A u \in Users : []<>(\A i \in DOMAIN waiting : waiting[i] # u)
=============================================================================
