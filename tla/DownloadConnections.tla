------------------------ MODULE DownloadConnections ------------------------
(***************************************************************************)
(* The download connections to one user.  ConnectionManager keeps a queue  *)
(* of connection items (downloads), attempts them from the timer thread    *)
(* and hands the sockets that log in over to DownloadManager, which asks   *)
(* QueueManager for work and keeps the connections without work as idlers. *)
(*                                                                         *)
(* Threads: the timer (attemptDownloads), one thread per socket, and the   *)
(* threads that queue files.  Steps are cut where a lock is released.      *)
(* ConnectionManager::cs is a shared mutex and attemptDownloads and        *)
(* addDownloadConnection change items while they hold it shared, so their  *)
(* steps interleave; Writable says that it can be taken exclusively.       *)
(*                                                                         *)
(* The queue holds at most one file that uses the small slot and one that  *)
(* does not.  Slots, priorities and limits of the queue are a free choice. *)
(* DOWNCONN_PER_SEC is not reached by the few items of one user.           *)
(***************************************************************************)
EXTENDS Integers, Sequences, FiniteSets

CONSTANTS
    Tokens,           \* connection tokens (bounds the items)
    Conns,            \* sockets (bounds the connections)
    Mcn,              \* the user supports multiple connections (MCN1)
    OwnLimit,         \* AutoLimitUtil::getSlotsPerUser, 0 for no limit
    RemoteLimit,      \* connections the user allows (CO), 0 for no limit
    NormalSegments,   \* connections the normal file can use at a time
    Outgoing,         \* we connect to the user, so the socket's token is known at once
    ProtocolErrors,   \* connecting may fail for good
    GoesOffline,      \* the user may leave the hubs and come back
    Forces,           \* somebody forces connection attempts
    QueuedFiles,      \* the files that may be queued
    ErrorBound,       \* bound of the error count of an item
    NoToken

ASSUME ConnectionsAssumption ==
    /\ IsFiniteSet(Tokens) /\ IsFiniteSet(Conns)
    /\ Mcn \in BOOLEAN /\ Outgoing \in BOOLEAN
    /\ ProtocolErrors \in BOOLEAN /\ GoesOffline \in BOOLEAN /\ Forces \in BOOLEAN
    /\ QueuedFiles \subseteq {"SMALL", "NORMAL"}
    /\ OwnLimit \in Nat /\ RemoteLimit \in Nat
    /\ NormalSegments \in Nat \ {0} /\ ErrorBound \in Nat
    /\ NoToken \notin Tokens

VARIABLES
    downloads,      \* ConnectionManager::downloads, the tokens of its items
    items,          \* the ConnectionQueueItem of each token
    removedTokens,  \* ConnectionManager::removedDownloadTokens
    offers,         \* tokens of connection requests the user has not answered yet
    timer,          \* where ConnectionManager::on(Second) is
    requests,       \* where getDownloadConnection is, for a normal and for a small slot
    uc,             \* the UserConnections
    idlers,         \* DownloadManager::idlers
    queue,          \* the files queued from the user
    online          \* User::isOnline

vars == << downloads, items, removedTokens, offers, timer, requests, uc, idlers, queue, online >>

-----------------------------------------------------------------------------
(* States *)

Files == {"SMALL", "NORMAL"}

\* Times of the last attempt: 0, less than 50 seconds ago, longer ago, and long
\* enough ago for another attempt.  MAX is the value -1 of resetFatalError.
Attempts == {"FORCED", "RECENT", "LATE", "ELAPSED", "MAX"}

Item == [state : {"WAITING", "CONNECTING", "ACTIVE"}, type : {"ANY", "SMALL", "MCN_NORMAL"},
         mcn : BOOLEAN, running : BOOLEAN, errors : -1 .. ErrorBound, attempt : Attempts,
         remote : {0, RemoteLimit}]

NewItem == [state |-> "WAITING", type |-> "ANY", mcn |-> FALSE, running |-> FALSE,
            errors |-> 0, attempt |-> "FORCED", remote |-> 0]

\* at: what the socket thread does next; "up" while it waits for an event.
\* st: UserConnection::state, where LOGIN stands for the states of the handshake.
\* tasks: the queue of the socket.
Places == {"none", "login", "found", "claim", "check", "idling", "up",
           "create", "fail", "put", "failcreate", "drop", "upload"}
Tasks == {"STATE", "REVIVE", "DISCONNECT"}

Connection == [at : Places, tok : Tokens \union {NoToken}, st : {"LOGIN", "SND", "RUNNING", "IDLE"},
               assoc : BOOLEAN, small : BOOLEAN, fatal : BOOLEAN, file : Files \union {"NONE"},
               tasks : Seq(Tasks)]

NoConnection == [at |-> "none", tok |-> NoToken, st |-> "LOGIN", assoc |-> FALSE, small |-> FALSE,
                 fatal |-> FALSE, file |-> "NONE", tasks |-> <<>>]

\* BufferedSocket::addTask.  A task that is queued already need not be queued again.
WithTask(u, task) ==
    [u EXCEPT !.tasks = IF \E k \in 1 .. Len(@) : @[k] = task THEN @ ELSE Append(@, task)]

\* UserConnection::setState: the listeners are told from the task queue.
WithState(u, st) == IF u.st = st THEN u ELSE WithTask([u EXCEPT !.st = st], "STATE")

Queued == {downloads[k] : k \in 1 .. Len(downloads)}

\* Mutant: a token may be handed out twice.
MutFresh == Tokens

\* TokenManager::createToken: a token nothing refers to any more.
Fresh == Tokens \ (Queued \union removedTokens \union offers \union {timer.tok}
                          \union {uc[c].tok : c \in Conns})

Writable == timer.at # "connect" /\ \A c \in Conns : uc[c].at # "claim"

More(errors) == IF errors < ErrorBound THEN errors + 1 ELSE errors

-----------------------------------------------------------------------------
(* What QueueManager::startDownload finds *)

\* A small file is downloaded by one connection, a normal one in segments.
Available(f) ==
    /\ f \in queue
    /\ Cardinality({c \in Conns : uc[c].file = f}) < (IF f = "SMALL" THEN 1 ELSE NormalSegments)

\* QueueItem::matchesDownloadType
Startable(type) ==
    {f \in Files : Available(f) /\ (type = "SMALL" => f = "SMALL") /\ (type = "MCN_NORMAL" => f = "NORMAL")}

\* UserConnection::getDownloadType
ConnType(c) == IF uc[c].small THEN "SMALL" ELSE IF Mcn THEN "MCN_NORMAL" ELSE "ANY"

-----------------------------------------------------------------------------
(* The items of ConnectionManager *)

\* ConnectionQueueItem::allowNewConnections
AllowNewConnections(item, running) ==
    /\ item.remote # 0 => running < item.remote
    /\ OwnLimit # 0 => running < OwnLimit

\* Mutant: only a running connection of a user without MCN is in the way.
MutAllowNewMCN(its, small) ==
    /\ \A t \in Queued : its[t].mcn \/ ~its[t].running
    /\ IF small
       THEN \A t \in Queued : its[t].type # "SMALL"
       ELSE \A t \in Queued : its[t].type = "MCN_NORMAL" => its[t].running

\* allowNewMCNUnsafe: one waiting item for normal files, one item for small
\* ones.  The limits are those of the last item of the queue.
AllowNewMCN(its, small) ==
    /\ \A t \in Queued : its[t].mcn
    /\ IF small
       THEN \A t \in Queued : its[t].type # "SMALL"
       ELSE /\ \A t \in Queued : its[t].type = "MCN_NORMAL" => its[t].running
            /\ downloads # <<>> =>
                 AllowNewConnections(its[downloads[Len(downloads)]],
                                     Cardinality({t \in Queued : its[t].type = "MCN_NORMAL"}))

\* ConnectionQueueItem::resetFatalError
ResetFatalError(item) == IF item.attempt = "MAX" THEN [item EXCEPT !.attempt = "FORCED"] ELSE item

Index(t) == CHOOSE k \in 1 .. Len(downloads) : downloads[k] = t

\* The waiting item that allowNewMCNUnsafe stops at and hands to its callback.
WaitingItems(small) ==
    LET Stops(t) == \/ ~items[t].mcn
                    \/ small /\ items[t].type = "SMALL"
                    \/ ~small /\ items[t].type = "MCN_NORMAL" /\ ~items[t].running
    IN  {t \in Queued :
            /\ Stops(t) /\ items[t].mcn /\ ~items[t].running
            /\ \A u \in Queued : Stops(u) => Index(t) <= Index(u)}

\* getCQIUnsafe and the flags its callers set
CreateItem(type, mcn) ==
    \E t \in Fresh :
        /\ downloads' = Append(downloads, t)
        /\ items' = [items EXCEPT ![t] = [NewItem EXCEPT !.type = type, !.mcn = mcn]]

\* The queue of items without the k-th one.
Erased(k) == SubSeq(downloads, 1, k - 1) \o SubSeq(downloads, k + 1, Len(downloads))

\* putCQIUnsafe for the item in gone, if there is one.  The token of an item
\* that is not active is remembered.
After(gone) ==
    /\ IF gone = {} THEN UNCHANGED downloads ELSE \E t \in gone : downloads' = Erased(Index(t))
    /\ removedTokens' = removedTokens \union {t \in gone : items[t].state # "ACTIVE"}

Without(gone, its) == [t \in Tokens |-> IF t \in gone THEN NewItem ELSE its[t]]

\* removeExtraMCNUnsafe: the first other normal item that is not active.
Extra(t) ==
    LET Idle == {u \in Queued \ {t} : items[u].type # "SMALL" /\ items[u].state # "ACTIVE"}
    IN  IF items[t].mcn /\ items[t].type = "MCN_NORMAL"
        THEN {u \in Idle : \A v \in Idle : Index(u) <= Index(v)}
        ELSE {}

\* findDownloadUnsafe: by token, or by user when the user has no MCN.
FindDownload(c) ==
    IF Mcn THEN Queued \intersect {uc[c].tok}
    ELSE IF downloads = <<>> THEN {} ELSE {downloads[1]}

-----------------------------------------------------------------------------
Init ==
    /\ downloads = <<>> /\ items = [t \in Tokens |-> NewItem]
    /\ removedTokens = {} /\ offers = {}
    /\ timer = [at |-> "idle", tok |-> NoToken]
    /\ requests = [small \in BOOLEAN |-> "no"]
    /\ uc = [c \in Conns |-> NoConnection]
    /\ idlers = {} /\ queue = {} /\ online = TRUE

\* Bound of the model: one request for a connection at a time.
NoRequest == \A small \in BOOLEAN : requests[small] = "no"

\* A file is queued from the user, who is asked for a connection when online.
AddFile(f) ==
    /\ f \in QueuedFiles \ queue /\ NoRequest
    /\ queue' = queue \union {f}
    /\ requests' = IF online THEN [requests EXCEPT ![f = "SMALL"] = "idle"] ELSE requests
    /\ UNCHANGED << downloads, items, removedTokens, offers, timer, uc, idlers, online >>

\* The file leaves the queue; its downloads are told to disconnect.
WithoutFile(f, conns) ==
    [c \in Conns |-> IF c \in conns /\ uc[c].file = f THEN WithTask(uc[c], "DISCONNECT") ELSE uc[c]]

RemoveFile(f) ==
    /\ f \in queue
    /\ queue' = queue \ {f}
    /\ uc' = WithoutFile(f, Conns)
    /\ UNCHANGED << downloads, items, removedTokens, offers, timer, requests, idlers, online >>

\* The user leaves the last hub, and putOffline may disconnect the sockets.
UserDisconnected ==
    /\ online /\ GoesOffline
    /\ online' = FALSE
    /\ \E transfers \in BOOLEAN :
          uc' = [c \in Conns |-> IF transfers /\ uc[c].at \notin {"none", "login"}
                                THEN WithTask(uc[c], "DISCONNECT") ELSE uc[c]]
    /\ UNCHANGED << downloads, items, removedTokens, offers, timer, requests, idlers, queue >>

UserConnected ==
    /\ ~online /\ NoRequest
    /\ online' = TRUE
    /\ requests' = IF queue # {} THEN [requests EXCEPT ![FALSE] = "idle"] ELSE requests
    /\ UNCHANGED << downloads, items, removedTokens, offers, timer, uc, idlers, queue >>

\* DownloadManager::checkIdle
Idlers(small) == {c \in idlers : Mcn => uc[c].small = small}

\* getDownloadConnection asks for an idler first ...
CheckIdle(small) ==
    /\ requests[small] = "idle"
    /\ IF Idlers(small) # {}
       THEN /\ requests' = [requests EXCEPT ![small] = "no"]
            /\ \E c \in Idlers(small) : uc' = [uc EXCEPT ![c] = WithTask(@, "REVIVE")]
       ELSE /\ requests' = [requests EXCEPT ![small] = "queue"]
            /\ UNCHANGED uc
    /\ UNCHANGED << downloads, items, removedTokens, offers, timer, idlers, queue, online >>

\* ... and then, under the write lock, sees whether another item is allowed.
GetDownloadConnection(small) ==
    /\ requests[small] = "queue" /\ Writable
    /\ requests' = [requests EXCEPT ![small] = "no"]
    /\ IF AllowNewMCN(items, small)
       THEN CreateItem(IF small THEN "SMALL" ELSE "ANY", FALSE)
       ELSE /\ items' = [t \in Tokens |-> IF t \in WaitingItems(small) THEN ResetFatalError(items[t])
                                          ELSE items[t]]
            /\ UNCHANGED downloads
    /\ UNCHANGED << removedTokens, offers, timer, uc, idlers, queue, online >>

\* force, by the user: an idler is revived, or the item is attempted again at once.
ForceItem(t) ==
    /\ Forces /\ t \in Queued
    /\ IF \E c \in idlers : uc[c].tok = t
       THEN /\ \E c \in idlers : uc[c].tok = t /\ uc' = [uc EXCEPT ![c] = WithTask(@, "REVIVE")]
            /\ UNCHANGED items
       ELSE /\ items' = [items EXCEPT ![t].attempt = "FORCED"]
            /\ UNCHANGED uc
    /\ UNCHANGED << downloads, removedTokens, offers, timer, requests, idlers, queue, online >>

-----------------------------------------------------------------------------
(* The timer: on(Second), attemptDownloads *)

Timer(at, tok) == timer' = [at |-> at, tok |-> tok]

AllowConnect(item) == item.attempt \in {"FORCED", "ELAPSED"}

\* Mutant: a timeout is due only when another attempt is.
MutIsTimeout(item) == item.state = "CONNECTING" /\ item.attempt = "ELAPSED"

IsTimeout(item) == item.state = "CONNECTING" /\ item.attempt \in {"LATE", "ELAPSED"}

\* The loop holds the lock shared and passes over active items; the test and
\* what follows for the item are one step.
Visits(t) == timer.at = "idle" /\ t \in Queued /\ items[t].state # "ACTIVE"

\* An item that waits after a protocol error, for its time, or times out.
TimerWait(t) ==
    LET item == items[t]
        fatal == item.errors = -1 /\ item.attempt # "FORCED"
    IN  /\ Visits(t) /\ online
        /\ fatal \/ ~AllowConnect(item)
        /\ items' = IF ~fatal /\ IsTimeout(item)
                    THEN [items EXCEPT ![t].errors = More(@), ![t].state = "WAITING"]
                    ELSE items
        /\ UNCHANGED << downloads, removedTokens, offers, timer, requests, uc, idlers, queue, online >>

\* The sockets that are found with the item's token.
SocketsOf(t) == {c \in Conns : uc[c].tok = t /\ (Outgoing \/ uc[c].at # "login")}

\* attemptDownloadUnsafe: an item for the small slot may turn into one for any
\* file and the other way round.  The second test of the code asks the item
\* itself, not the other items, whether it has the small slot.
TypeToTry(t, f) ==
    IF items[t].type = "SMALL" /\ Startable("SMALL") = {} /\ Queued = {t} THEN "ANY"
    ELSE IF items[t].type = "ANY" /\ f = "SMALL" /\ ~(\E u \in Queued : items[t].type = "SMALL")
    THEN "SMALL"
    ELSE items[t].type

TriedFiles(t) ==
    IF items[t].type = "SMALL" /\ Queued = {t} /\ Startable("SMALL") = {}
    THEN Startable("ANY")
    ELSE Startable(items[t].type)

\* An item without anything to download, or whose user is offline, is removed
\* when the loop is over.
TimerGiveUp(t) ==
    LET item == items[t]
    IN  /\ Visits(t)
        /\ \/ /\ ~online /\ UNCHANGED items
           \/ /\ online /\ AllowConnect(item) /\ (item.errors = -1 => item.attempt = "FORCED")
              /\ TriedFiles(t) = {}
              /\ items' = [items EXCEPT ![t].attempt = "RECENT",
                                        ![t].type = TypeToTry(t, "NORMAL")]
        /\ Timer("remove", t)
        /\ UNCHANGED << downloads, removedTokens, offers, requests, uc, idlers, queue, online >>

\* There is something to download.  A waiting item, or a forced one that no
\* socket belongs to yet, connects if the queue has a slot for the file.
TimerAttempt(t) ==
    LET item == items[t]
        free == \/ item.state = "WAITING"
                \/ item.state = "CONNECTING" /\ item.attempt = "FORCED" /\ SocketsOf(t) = {}
    IN  /\ Visits(t) /\ online
        /\ AllowConnect(item) /\ (item.errors = -1 => item.attempt = "FORCED")
        /\ \E f \in TriedFiles(t), slot \in BOOLEAN :
              /\ f = "SMALL" => slot
              /\ IF free /\ slot
                 THEN /\ items' = [items EXCEPT ![t].type = TypeToTry(t, f), ![t].state = "CONNECTING"]
                      /\ Timer("connect", t)
                 ELSE /\ items' = [items EXCEPT ![t].type = TypeToTry(t, f), ![t].attempt = "RECENT"]
                      /\ UNCHANGED timer
        /\ UNCHANGED << downloads, removedTokens, offers, requests, uc, idlers, queue, online >>

\* connectUnsafe: the request goes to the user through a hub, or that fails.
TimerConnect ==
    LET t == timer.tok
    IN  /\ timer.at = "connect"
        /\ \/ /\ offers' = offers \union {t}
              /\ items' = [items EXCEPT ![t].attempt = "RECENT"]
           \/ /\ \E errors \in {More(items[t].errors)} \union (IF ProtocolErrors THEN {-1} ELSE {}) :
                    items' = [items EXCEPT ![t].attempt = "RECENT", ![t].state = "WAITING",
                                           ![t].errors = errors]
              /\ UNCHANGED offers
        /\ Timer("idle", NoToken)
        /\ UNCHANGED << downloads, removedTokens, requests, uc, idlers, queue, online >>

\* With the write lock taken anew: what was found is removed, active or not.
TimerRemove ==
    /\ timer.at = "remove" /\ Writable
    /\ After(Queued \intersect {timer.tok})
    /\ items' = Without({timer.tok}, items)
    /\ Timer("idle", NoToken)
    /\ UNCHANGED << offers, requests, uc, idlers, queue, online >>

\* Time since the last attempt.  The timer visits every item between 50 and 60
\* seconds, which only mean something while the item connects.  Nobody looks at
\* the last attempt of an active item.
Elapse(t) ==
    /\ t \in Queued /\ items[t].state # "ACTIVE"
    /\ \/ /\ items[t].attempt = "RECENT"
          /\ items' = [items EXCEPT ![t].attempt = IF items[t].state = "CONNECTING" THEN "LATE" ELSE "ELAPSED"]
       \/ /\ items[t].attempt = "LATE" /\ items[t].state # "CONNECTING"
          /\ items' = [items EXCEPT ![t].attempt = "ELAPSED"]
    /\ UNCHANGED << downloads, removedTokens, offers, timer, requests, uc, idlers, queue, online >>

\* on(Minute): removed tokens are forgotten after 90 seconds.  Requests with
\* them are taken to be answered, and sockets to log in, before that, if at all.
ForgetToken(t) ==
    /\ t \in removedTokens /\ \A c \in Conns : uc[c].tok # t
    /\ removedTokens' = removedTokens \ {t}
    /\ offers' = offers \ {t}
    /\ UNCHANGED << downloads, items, timer, requests, uc, idlers, queue, online >>

-----------------------------------------------------------------------------
(* Logging in *)

Step(c, u) == uc' = [uc EXCEPT ![c] = u]

\* The user answers a connection request, or never does.
PeerConnects(c, t) ==
    /\ uc[c].at = "none" /\ t \in offers
    /\ offers' = offers \ {t}
    /\ Step(c, [NoConnection EXCEPT !.at = "login", !.tok = t])
    /\ UNCHANGED << downloads, items, removedTokens, timer, requests, idlers, queue, online >>

\* on(INF): the token tells whether the socket is a download of ours.
Inf(c) ==
    LET t == uc[c].tok
    IN  /\ uc[c].at = "login"
        /\ \/ /\ t \in Queued
              /\ items' = [items EXCEPT ![t].errors = 0, ![t].remote = IF Mcn THEN RemoteLimit ELSE @]
              /\ Step(c, [uc[c] EXCEPT !.at = "found"])
           \/ /\ t \in removedTokens \ Queued
              /\ Step(c, NoConnection)
              /\ UNCHANGED items
           \/ /\ t \notin removedTokens \union Queued
              /\ Step(c, [uc[c] EXCEPT !.at = "upload"])
              /\ UNCHANGED items
        /\ UNCHANGED << downloads, removedTokens, offers, timer, requests, idlers, queue, online >>

\* addDownloadConnection, with the lock held shared, looks its item up ...
LookUpItem(c) ==
    LET free == {i \in FindDownload(c) : items[i].state # "ACTIVE"}
    IN  /\ uc[c].at = "found"
        /\ IF free = {} THEN Step(c, NoConnection)
           ELSE \E i \in free : Step(c, [uc[c] EXCEPT !.at = "claim", !.tok = i])
        /\ UNCHANGED << downloads, items, removedTokens, offers, timer, requests, idlers, queue, online >>

\* ... and becomes the item of this socket.
ClaimItem(c) ==
    LET t == uc[c].tok
        small == Mcn /\ items[t].type = "SMALL"
    IN  /\ uc[c].at = "claim"
        /\ items' = [items EXCEPT ![t].state = "ACTIVE", ![t].mcn = Mcn \/ @,
                                  ![t].type = IF Mcn /\ ~small THEN "MCN_NORMAL" ELSE @]
        /\ Step(c, [uc[c] EXCEPT !.at = "check", !.assoc = TRUE, !.small = small])
        /\ UNCHANGED << downloads, removedTokens, offers, timer, requests, idlers, queue, online >>

\* A socket that was taken for an upload.
UploadEnds(c) ==
    /\ uc[c].at = "upload"
    /\ Step(c, NoConnection)
    /\ UNCHANGED << downloads, items, removedTokens, offers, timer, requests, idlers, queue, online >>

-----------------------------------------------------------------------------
(* DownloadManager, on the thread of the socket *)

\* checkDownloads: QueueManager::getDownload assigns a file.
GetDownload(c) ==
    /\ uc[c].at = "check"
    /\ \E f \in Startable(ConnType(c)) :
          Step(c, WithState([uc[c] EXCEPT !.at = "up", !.file = f], "SND"))
    /\ UNCHANGED << downloads, items, removedTokens, offers, timer, requests, idlers, queue, online >>

\* Nothing to download: a socket that has not just finished a download goes.
NothingToDownload(c) ==
    /\ uc[c].at = "check" /\ Startable(ConnType(c)) = {} /\ uc[c].st # "RUNNING"
    /\ Step(c, WithTask([uc[c] EXCEPT !.at = "up"], "DISCONNECT"))
    /\ UNCHANGED << downloads, items, removedTokens, offers, timer, requests, idlers, queue, online >>

\* Nothing to download after a download, or what there is cannot be started:
\* the socket becomes idle, unless there is an idler of its kind already.
BecomeIdle(c) ==
    LET files == Startable(ConnType(c))
    IN  /\ uc[c].at = "check"
        /\ IF files = {} THEN uc[c].st = "RUNNING" ELSE "NORMAL" \in files
        /\ Step(c, IF Idlers(uc[c].small) = {}
                   THEN WithState([uc[c] EXCEPT !.at = "idling"], "IDLE")
                   ELSE WithTask([uc[c] EXCEPT !.at = "up"], "DISCONNECT"))
        /\ UNCHANGED << downloads, items, removedTokens, offers, timer, requests, idlers, queue, online >>

EnterIdlers(c) ==
    /\ uc[c].at = "idling"
    /\ idlers' = idlers \union {c}
    /\ Step(c, [uc[c] EXCEPT !.at = "up"])
    /\ UNCHANGED << downloads, items, removedTokens, offers, timer, requests, queue, online >>

\* Data from the user is read when no task is queued.
Reads(c) == uc[c].at = "up" /\ uc[c].tasks = <<>>

StartData(c) ==
    /\ Reads(c) /\ uc[c].st = "SND" /\ uc[c].file # "NONE"
    /\ Step(c, WithState(uc[c], "RUNNING"))
    /\ UNCHANGED << downloads, items, removedTokens, offers, timer, requests, idlers, queue, online >>

\* endData: a segment of the file is finished, or all of it.
EndData(c) ==
    LET f == uc[c].file
    IN  /\ Reads(c) /\ uc[c].st = "RUNNING" /\ f # "NONE"
        /\ \/ /\ f = "NORMAL" /\ UNCHANGED queue
              /\ Step(c, [uc[c] EXCEPT !.at = "check", !.file = "NONE"])
           \/ /\ queue' = queue \ {f}
              /\ uc' = [WithoutFile(f, Conns \ {c}) EXCEPT ![c] = [uc[c] EXCEPT !.at = "check", !.file = "NONE"]]
        /\ UNCHANGED << downloads, items, removedTokens, offers, timer, requests, idlers, online >>

\* fileNotAvailable: the user is no source of the file any more, and the
\* socket is left without a download.
FileNotAvailable(c) ==
    /\ Reads(c) /\ uc[c].st = "SND" /\ uc[c].file # "NONE"
    /\ queue' = queue \ {uc[c].file}
    /\ Step(c, [uc[c] EXCEPT !.file = "NONE"])
    /\ UNCHANGED << downloads, items, removedTokens, offers, timer, requests, idlers, online >>

\* noSlots: DownloadManager::failDownload drops the download, then the socket.
NoSlots(c) ==
    /\ Reads(c) /\ uc[c].st = "SND" /\ uc[c].file # "NONE"
    /\ Step(c, WithTask([uc[c] EXCEPT !.file = "NONE"], "DISCONNECT"))
    /\ UNCHANGED << downloads, items, removedTokens, offers, timer, requests, idlers, queue, online >>

-----------------------------------------------------------------------------
(* Tasks of a socket: a new state, a revival, a disconnection *)

NextTask(c, task) == uc[c].at = "up" /\ uc[c].tasks # <<>> /\ Head(uc[c].tasks) = task

TaskDone(c) == [uc[c] EXCEPT !.tasks = Tail(@)]

\* Mutant: the socket stays among the idlers.
MutRevive(c) ==
    /\ NextTask(c, "REVIVE")
    /\ Step(c, IF c \in idlers THEN [TaskDone(c) EXCEPT !.at = "check"] ELSE TaskDone(c))
    /\ UNCHANGED << idlers, downloads, items, removedTokens, offers, timer, requests, queue, online >>

\* reviveThreaded
Revive(c) ==
    /\ NextTask(c, "REVIVE")
    /\ idlers' = idlers \ {c}
    /\ Step(c, IF c \in idlers THEN [TaskDone(c) EXCEPT !.at = "check"] ELSE TaskDone(c))
    /\ UNCHANGED << downloads, items, removedTokens, offers, timer, requests, queue, online >>

\* on(State) of a socket that is downloading, onDownloadRunning: its item is
\* running now, and another item may be allowed, which is created after the
\* lock was released.
OnDownloadRunning(c) ==
    /\ NextTask(c, "STATE") /\ uc[c].st = "RUNNING"
    /\ items' = [t \in Tokens |-> IF t \in FindDownload(c) THEN [items[t] EXCEPT !.running = TRUE] ELSE items[t]]
    /\ LET started == {t \in FindDownload(c) : ~items[t].running /\ items[t].mcn}
       IN  Step(c, IF started # {} /\ AllowNewMCN(items', FALSE) THEN [TaskDone(c) EXCEPT !.at = "create"]
                   ELSE TaskDone(c))
    /\ UNCHANGED << downloads, removedTokens, offers, timer, requests, idlers, queue, online >>

\* onIdle: an idle connection may wait in place of an item that waits.
OnIdle(c) ==
    LET was == {t \in FindDownload(c) : items[t].running}
    IN  /\ NextTask(c, "STATE") /\ uc[c].st = "IDLE" /\ Writable
        /\ Step(c, TaskDone(c))
        /\ LET gone == UNION {Extra(t) : t \in was}
           IN  /\ After(gone)
               /\ items' = Without(gone, [t \in Tokens |-> IF t \in was THEN [items[t] EXCEPT !.running = FALSE]
                                                           ELSE items[t]])
        /\ UNCHANGED << offers, timer, requests, idlers, queue, online >>

OtherState(c) ==
    /\ NextTask(c, "STATE") /\ uc[c].st \notin {"RUNNING", "IDLE"}
    /\ Step(c, TaskDone(c))
    /\ UNCHANGED << downloads, items, removedTokens, offers, timer, requests, idlers, queue, online >>

\* createNewMCN, if the queue has something for another connection.
CreateNewMCN(c) ==
    /\ uc[c].at \in {"create", "failcreate"} /\ Writable
    /\ IF online /\ Startable("MCN_NORMAL") # {}
       THEN CreateItem("MCN_NORMAL", TRUE)
       ELSE UNCHANGED << downloads, items >>
    /\ Step(c, [uc[c] EXCEPT !.at = IF @ = "create" THEN "up" ELSE "drop"])
    /\ UNCHANGED << removedTokens, offers, timer, requests, idlers, queue, online >>

-----------------------------------------------------------------------------
(* The end of a socket: ConnectionManager::failed, then DownloadManager::onFailed *)

\* Mutant: the item of an idle socket without files is forgotten.
MutFailed(c, fatal) ==
    /\ uc[c].at \in {"login", "up"}
    /\ Step(c, IF ~uc[c].assoc THEN NoConnection
               ELSE [uc[c] EXCEPT !.tasks = <<>>, !.fatal = fatal,
                                  !.at = IF uc[c].st = "IDLE" /\ ~(online /\ Startable(ConnType(c)) # {})
                                         THEN "drop" ELSE "fail"])
    /\ UNCHANGED << downloads, items, removedTokens, offers, timer, requests, idlers, queue, online >>

\* An idle socket's item is removed at once unless the queue has a file for it.
Failed(c, fatal) ==
    /\ uc[c].at \in {"login", "up"}
    /\ Step(c, IF ~uc[c].assoc THEN NoConnection
               ELSE [uc[c] EXCEPT !.tasks = <<>>, !.fatal = fatal,
                                  !.at = IF uc[c].st = "IDLE" /\ ~(online /\ Startable(ConnType(c)) # {})
                                         THEN "put" ELSE "fail"])
    /\ UNCHANGED << downloads, items, removedTokens, offers, timer, requests, idlers, queue, online >>

\* A disconnect task, an error of the connection, or three minutes without
\* activity (on(Minute)).
Disconnect(c) == NextTask(c, "DISCONNECT") /\ Failed(c, FALSE)

ConnectionFails(c) ==
    /\ uc[c].tasks = <<>>
    /\ \E fatal \in IF ProtocolErrors THEN BOOLEAN ELSE {FALSE} : Failed(c, fatal)

\* Mutant: only idlers are looked at.
MutDisconnectInactive(c) ==
    /\ uc[c].tasks = <<>> /\ c \in idlers
    /\ Failed(c, FALSE)

DisconnectInactive(c) ==
    /\ uc[c].tasks = <<>> /\ uc[c].file = "NONE"
    /\ Failed(c, FALSE)

\* failDownload: the item waits again; a normal item that waits already goes.
\* In place of a small one that was never used a normal one may be created.
FailDownload(c) ==
    LET t == uc[c].tok
        item == items[t]
        gone == IF t \in Queued THEN Extra(t) ELSE {}
        replace == item.mcn /\ item.type = "SMALL" /\ item.state = "ACTIVE" /\ AllowNewMCN(items, FALSE)
    IN  /\ uc[c].at = "fail" /\ Writable
        /\ After(gone)
        /\ items' = Without(gone,
                IF t \notin Queued THEN items
                ELSE IF item.state = "WAITING" THEN [items EXCEPT ![t].running = FALSE]
                ELSE [items EXCEPT ![t].running = FALSE, ![t].state = "WAITING", ![t].attempt = "RECENT",
                                   ![t].errors = IF uc[c].fatal THEN -1 ELSE More(@)])
        /\ Step(c, [uc[c] EXCEPT !.at = IF t \in Queued /\ replace THEN "failcreate" ELSE "drop"])
        /\ UNCHANGED << offers, timer, requests, idlers, queue, online >>

\* putCQI, which takes for granted that the item is there.
PutCQI(c) ==
    /\ uc[c].at = "put" /\ Writable
    /\ After(Queued \intersect {uc[c].tok})
    /\ items' = Without({uc[c].tok}, items)
    /\ Step(c, [uc[c] EXCEPT !.at = "drop"])
    /\ UNCHANGED << offers, timer, requests, idlers, queue, online >>

\* putConnection, and DownloadManager::onFailed takes it from the idlers and
\* drops its download.
DropConnection(c) ==
    /\ uc[c].at = "drop"
    /\ Step(c, NoConnection)
    /\ idlers' = idlers \ {c}
    /\ UNCHANGED << downloads, items, removedTokens, offers, timer, requests, queue, online >>

-----------------------------------------------------------------------------
\* The threads of the program.
QueueThread == \E small \in BOOLEAN : CheckIdle(small) \/ GetDownloadConnection(small)

TimerVisit(t) == TimerWait(t) \/ TimerGiveUp(t) \/ TimerAttempt(t)

SocketThread(c) ==
    \/ LookUpItem(c) \/ ClaimItem(c) \/ UploadEnds(c)
    \/ GetDownload(c) \/ NothingToDownload(c) \/ BecomeIdle(c) \/ EnterIdlers(c)
    \/ Revive(c) \/ OnDownloadRunning(c) \/ OnIdle(c) \/ OtherState(c) \/ CreateNewMCN(c)
    \/ Disconnect(c) \/ FailDownload(c) \/ PutCQI(c) \/ DropConnection(c)

\* What the user's client and the network do to a socket.
Peer(c) == Inf(c) \/ StartData(c) \/ EndData(c) \/ FileNotAvailable(c) \/ NoSlots(c) \/ ConnectionFails(c)

Next ==
    \/ \E f \in Files : AddFile(f) \/ RemoveFile(f)
    \/ UserDisconnected \/ UserConnected
    \/ QueueThread
    \/ \E t \in Tokens : ForceItem(t) \/ TimerVisit(t) \/ Elapse(t) \/ ForgetToken(t)
    \/ TimerConnect \/ TimerRemove
    \/ \E c \in Conns : DisconnectInactive(c) \/ SocketThread(c) \/ Peer(c)
    \/ \E c \in Conns, t \in Tokens : PeerConnects(c, t)

Spec == Init /\ [][Next]_vars

\* Threads go on and get the write lock at last, the timer visits every item,
\* time passes and sockets that nothing happens on are disconnected.  Neither
\* the user's client nor the network owes us anything.
Fairness ==
    /\ SF_vars(QueueThread) /\ SF_vars(TimerRemove) /\ WF_vars(TimerConnect)
    /\ \A t \in Tokens : SF_vars(TimerVisit(t)) /\ WF_vars(Elapse(t)) /\ WF_vars(ForgetToken(t))
    /\ \A c \in Conns : SF_vars(SocketThread(c)) /\ WF_vars(DisconnectInactive(c))

FairSpec == Spec /\ Fairness

-----------------------------------------------------------------------------
\* Types; no two items have one token.
TypeOK ==
    /\ downloads \in Seq(Tokens) /\ Cardinality(Queued) = Len(downloads)
    /\ items \in [Tokens -> Item]
    /\ removedTokens \subseteq Tokens /\ offers \subseteq Tokens
    /\ timer \in [at : {"idle", "connect", "remove"}, tok : Tokens \union {NoToken}]
    /\ requests \in [BOOLEAN -> {"no", "idle", "queue"}]
    /\ uc \in [Conns -> Connection]
    /\ idlers \subseteq Conns /\ queue \subseteq Files /\ online \in BOOLEAN

\* An item in the state ACTIVE is passed over by the timer and stands in the way
\* of new items for its user, so it must have a live socket whose end will
\* bring it back to WAITING (failDownload) or remove it (putCQI).
ActiveItemHasSocket ==
    \A t \in Queued : items[t].state = "ACTIVE" =>
        \E c \in Conns : uc[c].assoc /\ uc[c].tok = t /\ uc[c].at \notin {"failcreate", "drop"}

\* A socket among the idlers has no download and asks for none, so a revival
\* (reviveThreaded, checkDownloads) never assigns a second download to it.
IdlersIdle ==
    \A c \in idlers : uc[c].file = "NONE" /\ uc[c].st = "IDLE" /\ uc[c].at \notin {"none", "check"}

\* A download request is made on a socket without a download only.
OneDownloadAtATime == \A c \in Conns : uc[c].at \in {"check", "idling"} => uc[c].file = "NONE"

\* "We already have a connection, no need to continue" (allowNewMCNUnsafe): a
\* user without MCN never has a second item.
OneItemWithoutMcn == ~Mcn => Len(downloads) <= 1

\* "CONNECTING, // Recently sent request to connect": when nobody forces it any
\* more an item does not stay in that state, unless it had a protocol error: the
\* timer passes over such an item before it looks at the timeout.
ConnectingEnds ==
    <>[][\A t \in Tokens : ~ForceItem(t)]_vars =>
        \A t \in Tokens : (items[t].state = "CONNECTING" /\ items[t].errors # -1)
                              ~> (items[t].state # "CONNECTING" \/ items[t].errors = -1)

\* A socket without a download is not kept for ever (fileNotAvailable leaves one
\* behind): once no file comes or goes and nobody forces connections any more
\* it gets a download or ends.
IdleSocketsEnd ==
    <>[][queue' = queue /\ \A t \in Tokens : ~ForceItem(t)]_vars =>
        \A c \in Conns : (uc[c].at # "none" /\ uc[c].file = "NONE") ~> (uc[c].at = "none" \/ uc[c].file # "NONE")
=============================================================================
