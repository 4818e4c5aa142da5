# AirDC++ in TLA+

AirDC++ (here the daemon, `airdcppd`) is a file sharing client for Advanced Direct
Connect hubs.  This directory holds TLA+ models of parts of it, the TLC runs that
check them on small instances and the TLAPS proofs about them.  All paths below are
relative to `src/airdcpp-core/airdcpp/` unless they begin with `src/`.

Contents

1. The system: components, state, interactions, what is hard about them
2. What is modelled, and how it corresponds to the code
3. The runs: what they check, bounds, fairness
4. What the models show about the code
5. What is proved
6. What is only model checked, and what is not modelled
7. Plan

## 1. The system

### 1.1 Components

| Component | State | Operations | Hard parts |
|---|---|---|---|
| Hubs: `hub/Client`, `AdcHub`, `NmdcHub`, `ClientManager` | hub connections and their login state, users per hub, online and offline users | login, reconnect, closing, searches, connection requests (CTM/RCM), users joining and leaving | a user is on several hubs at once; reconnect timers; messages of a hub that has gone |
| Connection management: `connection/ConnectionManager` | queue items (`ConnectionQueueItem`) for downloads, uploads and chats, user connections, tokens, expected connections, tokens of removed downloads | request a connection, attempt (timer), log in (SUP, INF or the NMDC handshake), fail, force, time out | timer, socket and queue threads change items under a *shared* lock; requests are answered late, twice or never |
| User connections: `connection/UserConnection`, `connection/socket/BufferedSocket` | connection state, flags, task queue of the socket thread | connect, accept, send, call asynchronously, disconnect, fail | every socket has its thread; notifications are queued and arrive later |
| Downloads: `transfer/download/DownloadManager`, `Download` | running downloads, idlers | ask for work, start data, data, end of a segment, slot and file errors, revive an idler | socket threads race for segments; idlers are revived while they end |
| Queue: `queue/QueueManager`, `FileQueue`, `UserQueue`, `BundleQueue` | files, bundles, their sources, per-user queues | add, remove, prioritise, `startDownload`, `getDownload`, `putDownload`, recheck, auto search | decisions are made under one lock and used under the next; events fire without a lock |
| Queue item: `queue/QueueItem`, `core/classes/Segment` | finished ranges, running downloads, sources and bad sources, temporary file | next segment, add a finished segment, overlap slow chunks | range arithmetic with partial blocks; overlapping chunks end in any order |
| Bundle: `queue/Bundle` | status, files, byte counts, user queues | status changes, adding and removing files, saving | counts are kept incrementally; saving is delete and rename |
| Partial sharing: `queue/partial_sharing` | requests and parts information of partial sources | exchange of parts over UDP and hubs | lost and late messages |
| Uploads: `transfer/upload/UploadManager`, `UploadQueueManager` | slot counters, uploads, delayed uploads, waiting users | slot assignment, start, end, delayed end, extra and MCN slots | counters follow several threads; delayed uploads; grants |
| Upload bundles: `transfer/upload/upload_bundles` | bundles a user uploads, tokens of their connections | UBD and UBN messages | order of messages against connections |
| Share: `share/*` | roots, directory tree, profiles, refresh tasks | refresh, validation, hashing results, file lists | long tasks that are aborted; results arrive after roots are gone |
| Hashing: `hash/*` | queue per device, hasher threads, hash database | hash, pause, stop, merge hashers | threads appear and end; stop while a file is hashed |
| Searching: `search/*` | search queue of a hub, search instances, results | queue a search, pop, match | priorities against minimum intervals |
| File lists: `filelist/*` | open lists, directory downloads | load, match, queue directories | asynchronous load, lists that arrive after removal |
| Private chats: `private_chat/*` | chats, state of the encrypted connection | connect, time out, disconnect | connect timeout against a late connection |
| Connectivity: `connectivity/*` | mapping state per protocol | detect, map, renew | detection threads against settings |
| Threads, timers, I/O, settings, messages, utilities: `core`, `settings`, `message`, `util`, `protocol` | - | libraries | - |
| Web server and API: `src/airdcpp-webapi` | sessions, users, sockets, extensions, subscriptions, hooks | requests, expiry, hooks with a completion deadline | a hook's answer against its deadline; sessions that expire in use |
| Daemon: `src/airdcppd` | - | start, signals | - |

`PROJECT.json` lists every component with its sources, its status and, when it is not
modelled, the reason.

### 1.2 Interactions of the parts modelled first

    queue a file ----> ConnectionManager::getDownloadConnection
                          | an idler?  -> DownloadManager::checkIdle -> (task) reviveThreaded
                          | else a ConnectionQueueItem, state WAITING
    timer, every second -> attemptDownloads -> QueueManager::startDownload (anything to do?)
                          -> connectUnsafe -> hub -> CTM/RCM to the user        CONNECTING
    user connects -------> SUP, INF (token) -> addDownloadConnection              ACTIVE
                          -> DownloadManager::addConnection -> checkDownloads
                          -> QueueManager::getDownload -> a Download with a Segment of a QueueItem
    SND, data, end ------> startData, on(Data), endData -> QueueManager::putDownloadHooked
                          -> QueueItem::addFinishedSegment -> checkDownloads again, or idlers
    failure -------------> ConnectionManager::failed -> failDownload | putCQI
                          -> DownloadManager::onFailed -> putDownloadHooked (unfinished)

Threads: one per socket (`BufferedSocket::run`, with a queue of tasks), the timer thread,
the threads that add files (hub sockets, web API, file list loaders) and the queue's own
dispatcher.  Locks: `ConnectionManager::cs`, `DownloadManager::cs` and `QueueManager::cs`
are shared mutexes, `QueueManager::slotAssignCS` serialises the assignment of segments.

### 1.3 Interactions of the other parts

    hub socket --INF/QUI--> AdcHub::users --putOnline/putOffline--> ClientManager's maps, flag ONLINE
    SearchInstance::hubSearch --for each hub--> Client::search -> SearchQueue::add
    timer, every second --on each Client--> SearchQueue::maybePop -> AdcHub::search, OutgoingSearch
                                                            -> SearchInstance (one hub less to wait for)
    lost connection --> Client::on(Failed): clearUsers, state, ClientDisconnected -> SearchInstance
    GET of a peer --> UploadManager::prepareFile: parseSlotHookedThrow (a slot?) -> counters, running
                      upload | addFailedUpload (the waiting queue) and disconnect
    timer --> UploadQueueManager::notifyQueuedUsers -> a connection to the first waiting users
    last segment of a file --> QueueManager::onFileDownloadCompleted -> removeBundleItem -> rename
                     -> task thread: file hooks -> checkBundleFinished -> bundle hooks -> share refresh
                     -> checkCompletedBundles (shared)
    timer --> task thread: save the queue;  program start --> loadQueue

### 1.4 Hazards and the properties that make the parts correct

The full list, with lines, is in `PROJECT.json` under `hazards`.  In short:

* Segments.  The finished ranges are disjoint and consolidated; a finished byte stays
  finished; no two downloads write the same bytes unless the user asked for overlapping;
  a bundle counts what its files have; a file with a source can always go on and is
  completed.
* Connections.  An item that is ACTIVE has a socket that will free it; a socket gets one
  download at a time; idlers have none; nothing waits for ever.
* Uploads.  Counters equal the slots connections have, no slot is given twice, a
  delayed upload is not mistaken for its successor, nobody waits for ever.
* Bundles.  The status fits the files; what is validated is in its place; a finished
  bundle is validated; a restart brings back what was saved.
* Hashing and the share (not modelled).  A refresh or a file that was queued is not left
  waiting; pausing and resuming fit.
* Hubs.  A user is found as long as he is known, his flag fits the hubs he is on; nothing
  of a lost connection is left; a search is reported for every hub it was queued on.

## 2. Modules

| Module | What it is |
|---|---|
| `FileSegments` | one queued file with several connections: segments, downloads, temporary file, bundle count |
| `BundleFile` | abstract: the bytes of one file that are held, and whether it is complete; `FileSegments` implements it |
| `SegmentLoops` | the two loops of `QueueItem` step by step, against the closed forms `FileSegments` uses |
| `DownloadConnections` | all download connections to one user: items, timer, sockets, idlers |
| `UploadSlots` | upload connections: slots and their counters, running and delayed uploads, waiting and notified users |
| `BundleStatus` | a directory bundle from its first file to being shared, with saving and restarts |
| `HubUsers` | the users of several hubs and `ClientManager`'s maps of them |
| `HubSearches` | the search queues of the hubs and the search instances |
| `Hubs` | sessions of the hubs, composed with `HubUsers` and `HubSearches` |
| `FileSegments_proofs`, `FileDownloads_proofs`, `FilePromise_proofs` | theorems about `FileSegments`, the last ones with the refinement of `BundleFile` |
| `SegmentLoops_proofs` | theorems about `SegmentLoops`: the loops compute the closed forms of `FileSegments` |
| `Hubs_proofs` | theorems about `Hubs`, `HubUsers` and `HubSearches` |
| `BundleStatus_proofs` | theorems about `BundleStatus` |
| `UploadSlots_proofs` | theorems about `UploadSlots` |
| `DownloadConnections_proofs` | theorems about `DownloadConnections` |
| `MCFileSegments`, `MCSegmentLoops`, `MCDownloadConnections`, `MCUploadSlots`, `MCBundleStatus`, `MCHubs` | instances for TLC |

### 2.1 FileSegments

State: `done` is `QueueItem::done`; `attached` the connections in `QueueItem::downloads`;
`dl[c]` the `Download` object of connection `c` (type, segment, position, flags);
`slotAssign` the connection between the two critical sections of `getDownload`, which
`slotAssignCS` keeps exclusive; `sources` and `noTree` the sources and those with
`FLAG_NO_TREE`, `downloaded`, `tree` (the hash tree is known), `blockSize` the cached
`QueueItem::blockSize`, `paused` (`isPausedPrio`), `finishedSegments` (the bundle's count),
`temp` and `disk` the temporary file and the bytes in it, `disconnecting` the sockets with a
queued disconnect.  `Treeless` are sources that are not asked for the tree (no TTHL, or the
file has no tree to ask for), `TreeRefusers` peers that do not have it, `SmallFile` says
whether a source that refuses the tree stays one (`removeFileSource`).

Actions and code:

| Action | Code |
|---|---|
| `StartDownload` | `QueueManager::startDownload`, `QueueItem::hasSegment` under the read lock |
| `GetDownload`, `NoNeededPart`, `GetDownloadRemovedSource` | the write lock part of `QueueManager::getDownload` and `Download::Download`; `InitSegment` has the three branches of `Download::initSegment`: a segment, the tree, or all that is left from a source without the tree |
| `ReadBlockSize` | whoever asks for `QueueItem::getBlockSize` first, which caches it |
| `StartData`, `OpenFails` | `DownloadManager::startData`, `Download::open` |
| `Data` | `DownloadManager::on(Data)` |
| `EndData`, `EndTree` | `DownloadManager::endData`, `QueueManager::onFileDownloadCompleted`, `onTreeDownloadCompleted` |
| `Failed`, `FailDownload` | `DownloadManager::failDownload`, `QueueManager::onDownloadFailed` |
| `FileNotAvailable` | `DownloadManager::fileNotAvailable`: the peer has no tree, or refuses a request for nothing |
| `RemoveFileSource` | `QueueManager::removeFileSource` |
| `Pause`, `Resume` | `QueueManager::setBundlePriority` and `setQIPriority` |
| `Disconnected` | the socket carries out a queued disconnect |
| `LoseTempFile` | the user deletes the temporary file (the code looks for that) |

Data abstraction: positions are small numbers; speeds and the time left, on which chunk
sizes and overlapping depend, are free choices (`WantedSizes`, the choice of the chunk to
overlap); a partial source's parts are a constant; which download is the first of the list,
which decides whether anything may be started beside a tree, is left open.  `NextSegments` gives the *set* of
segments `getNextSegment` may return, since the code shuffles needed parts and the sizes
are free; `AddFinishedSegment` is stated in closed form (merge with everything the new
range touches).  `SegmentLoops` runs the code's loops for those two, from every state of
a small file, and shows that they end with exactly these results.

### 2.2 DownloadConnections

State: `downloads` the list of items by token, `items` their fields, `removedTokens`,
`offers` the requests sent to the user and not answered, `timer` the place of
`on(Second)`, `requests` the place of `getDownloadConnection` (one caller for normal, one
for small files), `uc` the user connections with their task queues, `idlers`, the files
in the `queue` (one that uses the small slot, one that does not) and `online`.

Steps are cut where the code releases a lock, and additionally where an item is changed
under the *shared* lock (`attemptDownloads`, `addDownloadConnection`), because another
thread may hold it too: `TimerAttempt` and `TimerConnect`, `LookUpItem` and `ClaimItem`.
`Writable` is the condition for taking the lock exclusively.

| Action | Code |
|---|---|
| `AddFile`, `RemoveFile` | files entering and leaving the queue of the user |
| `CheckIdle`, `GetDownloadConnection` | the two halves of `getDownloadConnection` |
| `ForceItem` | `ConnectionManager::force` |
| `TimerWait`, `TimerGiveUp`, `TimerAttempt`, `TimerConnect`, `TimerRemove` | `attemptDownloads`, `attemptDownloadUnsafe`, `connectUnsafe`, the removal in `on(Second)` |
| `Elapse`, `ForgetToken`, `DisconnectInactive` | time, and `on(Minute)` |
| `PeerConnects`, `Inf`, `LookUpItem`, `ClaimItem`, `UploadEnds` | a socket, `on(INF)`, `addDownloadConnection`, the socket taken for an upload |
| `GetDownload`, `NothingToDownload`, `BecomeIdle`, `EnterIdlers` | `DownloadManager::checkDownloads` |
| `StartData`, `EndData`, `FileNotAvailable`, `NoSlots` | messages of the user's client |
| `Revive`, `OnDownloadRunning`, `OnIdle`, `OtherState`, `Disconnect` | tasks of the socket |
| `CreateNewMCN` | `createNewMCN`, after the lock of `onDownloadRunning` or `failDownload` was released |
| `ConnectionFails`, `FailDownload`, `PutCQI`, `DropConnection` | `failed`, `failDownload`, `putCQI`, `onFailed` |

Abstractions: one user, so limits that the code takes from the last item of the list
(line 254, possibly another user's) are this user's; the handshake before INF is the
state `login`; times are the four classes the code distinguishes (`Attempts`);
`DOWNCONN_PER_SEC` is large enough; whether the queue has a slot for a file is free,
except that the small slot is always given.  `putCQI` of an item that is gone
dereferences the end iterator: that outcome is not modelled beyond the fact that it
happens (`PutCQIFindsItem`); the model lets the socket go on.

### 2.3 UploadSlots

State: `pc[c]` is where the socket's thread of connection `c` is in `prepareFile` or at the
end of the connection; `slot`, `newSlot`, `upload` are the slot it has, the one just
decided on and its `Upload` (running or in `delayUploads`, with its token); `task` the
token in a queued removal; `count` the four `uint8_t` counters (`runningUsers`, `extra`,
`smallFileConnections`, `mcnConnections`), `multi` is `multiUploads`, `pending` and
`loaded` the changes of counters under way; `waiting` and `notified` the queue's lists,
`timer` the free slots `notifyQueuedUsers` was called with.

| Action | Code |
|---|---|
| `Connect` | `ConnectionManager::addUploadConnection` |
| `ParseSlot`, `Refuse`, `OpenUpload` | `UploadManager::prepareFile`: `parseSlotHookedThrow`, no slot, the upload itself |
| `LoadCounter`, `ChangeCounter` | the reads and writes of `updateSlotCounts`, `removeSlot`, `changeMultiConnSlot` |
| `DisconnectExtra` | `disconnectExtraMultiConn` |
| `RemoveQueue` | `UploadQueueManager::removeQueue` after the lock was released |
| `TransmitDone`, `ExpireDelayed`, `RemoveDelayed` | `on(TransmitDone)`, `checkExpiredDelayUploads`, the task it queues |
| `Failed`, `Kick` | `on(Failed)`, `disconnectOfflineUsers` and `abortUpload` |
| `TimerSecond`, `NotifyQueuedUsers`, `ForgetNotified` | the timer of `UploadManager` and `UploadQueueManager` |
| `UserDisconnected`, `UserConnected` | users leaving the hubs and coming back |

A counter is a byte and is changed without a common lock; `AtomicCounters` says whether two
changes may overlap.  Speeds and the last grant are a free choice where low-speed slots
are enabled (`AutoSlots`).  Files are kinds: `small`, `list` (mini slot) and `file`.

### 2.4 BundleStatus

State: `status`, `queued` and `finished` of the bundle, `known` what the file queue finds,
`fileStatus` and `place` of each file (nowhere, temporary, target), `paused`, `forced`,
`dirty` and `xml` (what is saved), and where each thread is: `dl` (connections that finish
a file), `tasks` and `work` (the task thread), `remover`, `delayed` (`DelayedEvents`),
`refresh` and `shared` (the share).

| Action | Code |
|---|---|
| `FinishFile`, `TakeFile`, `FinishBundle`, `MoveFile` | `onFileDownloadCompleted`, `removeBundleItem` under the lock and after it, `renameDownloadedFile` |
| `StartTask` | `DispatcherQueue::dispatch` |
| `RunFileHooks`, `FileHooksAnswer`, `CheckFinished`, `FailBundle` | `runFileCompletionHooks`, `checkBundleFinishedHooked`, `checkFailedBundleFilesHooked` |
| `StartShare`, `RevalidateFiles`, `RunBundleHooks`, `BundleHooksAnswer`, `ShareBundle` | `shareBundle` and its task, `runBundleCompletionHooks` |
| `RunUpdate`, `RunPause`, `RunResume`, `StartCheck` | the other tasks |
| `SaveTick`, `StartSave`, `RenameSaved` | `saveQueue`, `Bundle::save` |
| `DelayedEvent`, `MinuteTick` | `DelayedEvents::on(Second)`, `on(Minute)` |
| `ShareRefreshed`, `SetShared` | `checkCompletedBundles` |
| `DownloadError`, `CheckDiskSpace`, `RequestShare` | `onDownloadError`, `checkDiskSpace`, `handleShareBundle` |
| `AddFile`, `RemoveFile`, `RemoveBundleItem` | `addBundle` (merging, `readdBundle`), `removeQI`, `removeBundleItem` |
| `Restart` | the program ends; `loadQueue` and `QueueLoader` |

Hooks always have a subscriber and answer what `HookAnswers` allows; `MoveResults` says
whether moving to the target may fail, after which the file is where it was or has got
its name there.  One directory bundle is modelled; priorities set
by users and the renaming of a file bundle are left out.

### 2.5 Hubs, HubUsers, HubSearches

`Hubs` extends both others; each of its actions is a step of the session, of the users or
of the searches, or one that several parts take together: `SocketFails` ends the
session and takes the list of users, `FireDisconnected` and `AnnounceClosing` also tell the
search instances.

| Action | Code |
|---|---|
| `Connected`, `SessionId`, `GetPassword`, `OwnInf`, `QuitMe` | `AdcHub` handlers of SID, GPA, INF and QUI |
| `UserInf`, `UserQuit` | INF and QUI of others: `parseInfUser`, `putUser` |
| `PutOnline`, `FlagOnline`, `ForgetOffline` | `ClientManager::putOnline` under the lock, and the two things after it |
| `PutOffline`, `Unflag` | `putOffline` under the lock, and after it |
| `ClearUsers`, `NextLeaving` | `AdcHub::clearUsers` |
| `CleanUserMap` | `ClientManager::cleanUserMap` |
| `SocketFails`, `SetDisconnected`, `FireDisconnected` | `Client::on(Failed)` |
| `TimerConnect`, `Reconnect` | `Client::on(Second)`, `Client::reconnect` |
| `AnnounceClosing`, `Shutdown` | `ClientManager::putClient` |
| `Reset`, `AskHub`, `Record` | `SearchInstance::reset`, the loop over the hubs and the end of `hubSearch` |
| `PopCheck`, `Pop`, `OutgoingSearch` | `SearchQueue::maybePop`, under two locks, and the event |

Only ADC hubs are modelled.  Search times are counted in units of five seconds.

## 3. Runs

| Run | Question | Instance |
|---|---|---|
| `segments_plain` | is the bookkeeping exact without overlapping, is the tree downloaded alone, is nobody asked for nothing, and is the promise of `BundleFile` kept? | 3 connections (one to a partial source; one is not asked for the tree, the others may refuse it), 5 positions in 3 blocks, tree unknown at first |
| `segments_overlap` | do chunks only share their tails, and is nothing finished lost, with two segments at a time? | 3 connections, one of them removable, 4 blocks of one position, tree known, the file may be paused, `OVERLAP_SLOW_SOURCES` |
| `segments_single` | is every finished byte in the temporary file, and is the file completed? | 2 connections (one partial, which refuses the tree and stays a source, one removable), one segment at a time, the file may vanish once |
| `segment_loops` | do the loops compute what the closed forms say, and do they end? | every set of ranges of a file of three and a half blocks |
| `connections_sockets` | ACTIVE items have a socket, one download per socket, idlers idle | 1 item, 2 sockets, a small and a normal file |
| `connections_plain` | one item for a user without MCN | normal file, outgoing connections, protocol errors, the user leaves, forced attempts |
| `connections_live` | CONNECTING ends; sockets without work end | 2 items, 1 socket, normal file |
| `upload_counts` | do the counters equal the slots connections have? | a user with one connection and an MCN user with two, 2 slots, one low-speed grant |
| `upload_queue` | is the slot given once, is a delayed upload removed by its own task, does nobody wait for ever? | 2 users, 1 slot, chunks, unshared files, users leave and come back, hooks may reject |
| `bundle_finish` | do the statuses mean what they say, and is a finished bundle validated? | 2 files, one of them added later, hooks that reject, download errors, one restart |
| `bundle_restart` | is a validated file in its place, and does a restart bring back what was saved? | 2 files, moved or not, removed and added again, one restart at any point |
| `hubs` | are users found, is nobody flagged who is on no hub, whatever two hubs' threads do to him, is nothing left of a connection, is a search reported? | 2 hubs, one that asks for a password and sends us away and one that is closed, 1 user, 1 search instance |

`TypeOK` is the one type invariant per module.  Every other property is stated with its
code in the comment above it.  For each property a mutated definition (`Mut...`, next to
the original) stands for a plausible bug in the code, and TLC finds the property violated
with it.

Bounds.  A small instance shows the interesting cases because nearly every conflict in
this code is between two: two chunks that touch or overlap, two sockets with one token, a
timer and a socket, two hubs and one user, a task and a request.  Three connections let a
chunk end between two others.  Three blocks make a first, a middle and a last one, and
positions finer than blocks give partial blocks.  Tokens bound the items of
`DownloadConnections`: a step that creates an item needs a token nothing refers to any
more.  `ErrorBound` stops the error count, which only lengthens a wait.  `MaxTasks` bounds
the queue of tasks when another *request* comes, never the tasks that other tasks queue;
`MaxCrashes` the restarts.  `LastAge` stops the clock of a hub's searches where no search
has to wait any more.  Symmetry is used in `connections_sockets` and `connections_plain`.
`CHECK_DEADLOCK FALSE` is set where the system may come to rest: a file is complete, a
bundle is shared or gone, all hubs are closed.

Some constants close a window that the code leaves open, so that the rest can be checked
behind it: `OverlapSlowSources` (a setting), `AtomicCounters`, and `Overlap` and
`Interleaved` (threads meeting in the windows named next to them).  `hubs` keeps the window
of `Overlap` open: both hubs' threads meet on the one user.  Where a property needs
one of them closed its comment says so, and section 4 says what happens with it open.

Fairness.

* `FileSegments!Fairness`: a connection with a download goes on and a queued disconnect is
  carried out (weak); a connection that may ask for work does so in the end although
  `slotAssignCS` is taken by others again and again (strong: the lock is released
  infinitely often); downloads stop failing at some time (the antecedent of
  `Completes`), as nothing in the code can make an unwilling source deliver.
* `DownloadConnections!Fairness`: threads with something to do go on (weak), those that
  need the write lock get it at last (strong), the timer visits every item (strong per
  item: the loop runs every second over all of them), time passes (weak), and a socket
  nothing happens on is disconnected by `on(Minute)` (weak).  Neither the peer's client
  nor the network is fair: a request may never be answered.
* `UploadSlots!Fairness`: a handler that has begun goes on, a queued disconnect is carried
  out, the timer ticks, a notice expires (weak).  `WaitingEnds` assumes that
  connections come to an end.
* `BundleStatus!FairSpec`: a connection that finishes a file, the task thread, the timers,
  the refresh of the share and a removal that has begun carry on (weak).  Users, failures
  and crashes owe nothing.
* `Hubs!Fairness`: the thread of a socket goes on with a command it has begun, the timer
  looks at the search queues, a shutdown that has begun goes on, the thread of a search instance visits its
  hubs, time passes (weak).  Hubs owe us nothing, and no connection need be made again.

## 4. What the models show about the code

Each of these was found with the models, mostly as a counterexample of a property when a
constant is set the other way, and read in the code again.  No run of the project expects a
violation: the properties are stated so that they hold, and say where.

Segments

* With overlapping, two failed chunks with the same range are one range in `done` and two
  in the bundle's count (`queue/QueueItem.cpp:605`), which the assertion in
  `queue/Bundle.cpp:160` does not expect (`BundleCountExact`).
* With overlapping, the partial bytes of a failed chunk may complete `done` without the item
  being marked as downloaded (`queue/QueueManager.cpp:1732`).  With three or more segments
  a file may also be completed between the two critical sections of `getDownload`, whose
  second half then finds no temporary file and forgets what is finished
  (`ImplementsBundleFile`).
* With overlapping and an unknown tree that takes two segments only: a source which is not
  asked for the tree downloads the file, the request of another one is empty and fails,
  which deletes the temporary file, and the file is completed between the two halves.
  `segments_overlap` therefore begins with the tree.
* With overlapping, the tree of a file may be downloaded beside a chunk of it: a source that
  is not asked for the tree (line 85 of `transfer/download/Download.cpp`: no TTHL, or
  `FLAG_NO_TREE`) downloads the file, `hasSegment` finds a tail of its chunk for a faster
  source to overlap, and `initSegment` asks that one for the tree.  "No segmented
  downloading when getting the tree" (`queue/QueueItem.cpp:701`) looks only at a tree
  that is there already, so `TreeAlone` is stated for `~OverlapSlowSources`.
* A connection may ask for nothing: when the file is paused, or with overlapping the chunk
  to overlap has ended, between the two halves of `getDownload`, `getNextSegment` returns
  `Segment(-1, 0)` or `Segment(0, 0)` and the `Download` is created all the same.  The peer
  refuses the request (`UploadRequest::validate`) with the default of `sendError`, file
  not available, and `fileNotAvailable` removes the source from the file
  (`transfer/download/DownloadManager.cpp:692`).  `NoEmptyRequest` is stated without the two.
* With overlapping and three or more segments `addFinishedSegment` may lose finished bytes: it
  merges a range with the one before it as if the new range ended last
  (`queue/QueueItem.cpp:586`).  When the chunk [0, 3) is finished and the download that
  overlapped its tail then fails with [1, 2), `done` becomes [0, 2) and byte 2 is
  downloaded again.  So `KeepsPromise` needs `~OverlapSlowSources`, and
  `segments_overlap` checks `ImplementsBundleFile` with two segments.
* `onDownloadFailed` deletes the temporary file without a lock when nothing is finished
  (line 1716).  With several segments, another download that has received nothing yet
  may keep the deleted file open while a third one creates it anew: its bytes count as
  finished and are not there.  `DoneOnDisk` is therefore checked and proved with one
  segment at a time.
* `getDownload` dereferences a source that may have been removed since the lock was
  released (line 1177; the step `GetDownloadRemovedSource`).  A source that is removed
  while it downloads leaves its `Download` in the item after the end of the file
  (`queue/UserQueue.cpp:148`): `NoDanglingDownload` is checked and proved without
  removable sources.

Connections (`connection/ConnectionManager.cpp`)

* The timer removes an item that has become active since the decision (line 361), and the
  assertion of `putCQI` (line 1299) fails for its socket.
* After a protocol error and a forced attempt an item stays CONNECTING, since line 388
  passes it over before its timeout is looked at: `ConnectingEnds` exempts such items.
* A request that relies on a waiting item is lost when its removal was decided already
  (lines 192 and 362).
* There may be two waiting MCN items, where `ConnectionManager.h:194` wants one:
  `onDownloadRunning` decides under the lock and `createNewMCN` adds the item after it
  was released (line 495).
* There may be two items for the small slot, where line 241 wants one: the lambda at line
  425 asks the item itself (`cqi`) and not the others (`aCQI`).
* Our own download can be taken for an upload, which `ConnectionManager.h:232` means to
  prevent: `putCQIUnsafe` (line 279) does not remember the token of an ACTIVE item, though
  a second socket may carry it after a timeout and another attempt.
* `resetFatalError` (line 172) tests `lastAttempt` for -1, which only `errors` can be, so a
  new request never restarts an item that waits after a protocol error.

Uploads

* The counters are plain bytes that several threads change (`AtomicCounters` FALSE): a lost
  update leaves a slot taken for good or wraps a counter below zero.
* `notifyQueuedUsers` takes the free slots it was called with, which may be stale, as a
  `uint8_t` and subtracts the users that were notified: below zero it notifies everybody
  (`transfer/upload/UploadQueueManager.cpp:150`).
* Slots granted for low speed pass the queue by: with them and MCN users a waiting user
  may never be served (`WaitingEnds` is checked with `AutoSlots` = 0).
* `smallFileConnections <= 8` allows nine.

Bundles (`queue/QueueManager.cpp` unless named)

* A file added between the removal of the last queued file and `setBundleStatus` (line
  3602) leaves a bundle DOWNLOADED with queued files, which `queue/Bundle.h:53` rules
  out (`StatusAsStated`, `Overlap` TRUE).
* When the last queued file is *removed*, the others being finished, nobody looks at the
  bundle again if an event with its key is pending already: it stays QUEUED (lines
  3606-3614, `core/queue/DelayedEvents.h:87`).
* A pause that is queued by a download error may run after `checkDiskSpace` has reset the
  status (line 1660): the bundle stays paused, and `checkResumeBundles` passes it over.
  An error that arrives when the last file is finished already sets a finished bundle to
  DOWNLOAD_ERROR (line 1664).
* `readdBundle` drops finished files that have not been moved yet (line 3494).
* A file that could not be moved (lines 1484-1493: it stays in the temporary directory, or is
  renamed there) passes its hooks and is COMPLETED like the others, since line 1497 queues
  them in any case.  The comment of line 1531 speaks of "non-moved files remaining", but
  `filesCompleted` knows statuses only.  So the bundle is completed and shared without the
  file; when the queue is loaded again `loadFinishedFile` does not find it at its target and
  drops it (line 2651).  `ValidatedInPlace` and `RestartKeepsFiles` say so.
* A file that hooks have rejected is COMPLETED after a restart.  A bundle that was paused
  comes back QUEUED with the priority PAUSED_FORCE.
* A crash between saving and moving a file loses it; one between deleting and renaming the
  file of a bundle loses the bundle (`queue/Bundle.cpp:692`); a file that is finished
  and moved, but not saved as such, is dropped when the queue is loaded.

Hubs and searches

* A user who leaves one hub while he joins another one may stay without the flag ONLINE,
  and in `offlineUsers` (`hub/ClientManager.cpp:319`).  So the second part of
  `OnlineAsFlagged`, that a user on a hub has the flag, is claimed for `Overlap` FALSE only;
  the first one, that nobody else has it, holds and is checked with the window open.
* `hubSearch` assigns `queuedHubUrls` after the searches were queued
  (`search/SearchInstance.cpp:109`).  A hub that has sent its search or is
  disconnected by then is waited for in vain and `HubSearchSent` is never fired; so is a
  hub that `putClient` has announced as disconnected and not shut down
  (`SearchReported`, `Interleaved` TRUE).
* `maybePop` looks at the time under one lock and pops under another one
  (`search/SearchQueue.cpp:131`): a search queued in between may be sent too early.  A
  search that is popped before the login is complete is dropped by `AdcHub::search` and
  counted as sent.  Searches of a low priority may starve.  A hub that does not answer
  during the login is never left.

## 5. What is proved

Each theorem holds for every value of the constants that satisfies the module's named
assumption, and for the hypotheses in its statement; `tlapm` checks every leaf.

`FileSegments`, under `SegmentsAssumption`: types of the constants, and that the parts of
partial sources are not empty, as `getPartialInfo` sends them.

* `TypeCorrect`: `Spec => []TypeOK`.
* `SegmentsSeparated`: `Spec => []DoneSeparated`.  This is not inductive alone: a range is
  only added inside the file if the download's segment is in it, and a partial range only
  if the download has not accepted more bytes than its segment has.  The inductive
  invariant `IInv` is `TypeOK`, `DoneSeparated`, `DownloadsInFile` (every download lies in
  the file with its position inside its segment, or asks for nothing and never runs).  One lemma per action; the arithmetic
  is in lemmas about `Merged`, `Predecessors` and `Successors` (what touches a new range is
  absorbed by it, what does not stays apart) and about the segments `NextSegments` returns.
* `TreeDownloadedAlone` and `DownloadsNested` (`FileDownloads_proofs`).  `TInv` adds to
  `TreeAlone` that while the tree is unknown the cached block size is that of the file
  (`NoTreeOneBlock`), so that without overlapping `getNextSegment` has nothing to offer beside
  any download, be it of the tree or of a source without it, and that whoever holds the slot
  assignment then is alone (`SlotTree`).  `RunningNested` is inductive above `IInv`: the tail of an
  overlapped chunk ends where the chunk ends, and a free block has no byte of a running one.
* `KeepsPromise` (`FilePromise_proofs`): `Spec /\ ~OverlapSlowSources` implements
  `BundleFile`; `CountExact`, `NoneDangling` (without removable sources too) and `GoesOn`
  are the invariants `BundleCountExact`, `NoDanglingDownload` and `NoStall`.  The invariant
  `PInv` says that finished ranges and the segments of downloads are cut at the borders of
  blocks, so that a block is finished wholly or not at all, that a download has no finished
  byte or asks for nothing (`CutOrNone`), and that the first half of `getDownload` leaves a position nobody else brings.
  `WInv` covers the time without the tree, when the block is the
  whole file: nothing but all of it is finished or downloaded.  `QInv`, for `GoesOn`, says that
  a file is complete only when it has been taken off the queue.  So a file cannot be completed between the two halves, merging never swallows a byte
  twice, and the bytes reported to the bundle are the size of what is new.  All these
  theorems but `NoneDangling` allow removed sources and a lost temporary file.
* `FinishedOnDisk` (`FilePromise_proofs`): `Spec /\ OneAtATime => []DoneOnDisk`.  `OneAtATime`
  says that a file is downloaded by one connection at a time: MULTI_CHUNK is off, or the limit
  of segments is one, or the file is one block; with several segments the property is
  false (section 4).  The invariant `DInv` adds that whoever holds the slot assignment is alone,
  that no two downloads are attached, and that the bytes a running download has received are
  in the temporary file too, since they become finished when it fails.

`SegmentLoops`, under `SegmentsAssumption`: the same theorems for every file size and block
size, set of finished ranges, running downloads and parts of a partial source.  Each loop
has its invariant, which says what the code has done so far in terms of what it started
from; the results follow where the loop ends, so no induction over data is needed.

* `MergeLoopStated` and `MergeCountsNew`: `MergeAsStated` and `MergeOfNewBytes`.  `MergeInv`
  follows the iterator: before it reaches the new range (`AtFront`), the pass that may join
  it with its predecessor, the one that joins it with its successor (`AtBack`), and
  behind both, when the set is already what `DoneAfter` says (`PassedBack`).
* `SearchLoopStated` and `SearchComplete`: `SearchAsStated` and `SearchFindsBlock`.
  For a full source `SearchInv` says that no block before the current start is free
  (`NothingFree`): a jump goes to the end of what is in the way, so no free block lies in
  between.  For a partial one the needed parts of the starts passed so far are collected
  (`Collecting`); these starts are those of `Visited` in `FileSegments`, the least set that
  has the first start and is closed under the jumps.
* `RoundsProgress`: every round of either loop makes progress (`RoundProgress`): the
  iterator moves to a later range, or the start moves on, or the wish gets smaller.  That the
  loops therefore end is the liveness property `LoopsEnd`, which TLC checks.

`Hubs`, for any number of hubs, users and search instances:

* `HubsAreUsers`: the composition implements `HubUsers`, so what is proved about users holds
  in it.
* `AlwaysFound`: the action property `StaysFound`, whatever threads overlap, from `ListInv`:
  the entries of `onlineUsers` are those of the users' lists, up to what the thread of
  the hub is doing.
* `FlaggedOnline`: `OnlineAsFlagged`, with the threads of hubs meeting on a user.  `LateInv`
  says that one who is flagged without being on a hub, or while listed as offline, has a
  thread at work which will take the flag or the entry; `FlagInv`, without overlapping
  threads, how far the flag is behind for a user on a hub.
* `NothingOutlives`: `NothingLeft`, from `SessionInv` (a hub that is down has an empty list
  and is not counted) and `SearchInv` (who waits for a hub waits for one that is connected
  or will be announced).
* `TypeCorrect`: `TypeOK`, with `SearchInstance`s in any finite number.  That no queue holds
  more searches than there are instances is part of it: each owner has one search in a hub's
  queue at most, because `SearchQueue::add` cancels the owner's other one first
  (`RemainingOK`).
* `MostUrgentFirst`: a hub's queue is ordered by priority.  `InsertedOK` proves it of the
  insertion at `upper_bound`: the searches which are at least as urgent are a prefix of an
  ordered queue, so their number is the place (`UpperBound`).

`BundleStatus`, under `BundleAssumption`, for any files, answers of hooks and of the share,
number of restarts and bound of tasks:

* `TypesKept`: `Spec => []TypeOK`.
* `ValidatedAtTarget`: `ValidatedInPlace`, with overlapping requests and failing moves.  The
  invariant `Moving` says that a file in the file queue which has a task or has been looked at
  by hooks is where its move has left it, and that a file in the hands of a connection is on the disk.  That a task for a
  file only comes from `MoveFile` is a lemma about all steps (`NoNewTasks`).
* `StatusesMean`: `StatusAsStated` when requests wait for a finishing bundle (`~Overlap`; with
  overlapping requests it is false, section 4).  `FilesOK` says that one thread at a time is
  at work on a file, the connection, the task that waits, the task that runs or the user's
  request, and that it decides the file's status.  `StatusOK` follows the bundle from the task
  that shares it to the share's refresh: nothing is queued, and hooks have looked at all
  its files; those that a task has not let pass were forced by a user.
* `FilesComeBack`: the action property `RestartKeepsFiles` under `~Overlap`, with moves that
  fail.  The
  invariant `XmlOK` says that without changes to save the file on the disk says what the bundle
  is, that what else it lists would not be loaded, and that the image which is being
  written stays true until it is renamed, because `saveQueue` keeps the lock.

`UploadSlots`, under `SlotsAssumption`, for any finite sets of connections and users.
`CountersFollowSlots` and `SlotsWithinLimit` need `Bounded`: changes of a counter do not overlap (`AtomicCounters`; with
overlapping changes both are false, section 4) and there are fewer than 256 connections,
so that no byte wraps.

* `CountersFollowSlots`: `SlotCountsExact`.  The counters are exact only between changes, so
  the invariant compares them at every moment with what is *booked*: between the two changes
  of `updateSlotCounts` a connection has given one slot back and not received the next
  (`Booked`).  `CountOK` says that each counter is the number of connections, or for
  `runningUsers` of plain connections and of MCN users, with such a booking; `LoadOK` that
  a byte that was read is still current; `ChangeOK` how far `prepareFile` is with a slot and
  who holds `slotCS`; `OneLive` that a user without multiple connections has one that is
  not ending.
* `SlotsWithinLimit`: `SlotsBounded`.  Whoever has decided to take a permanent slot and has
  not counted it yet finds the counter below the limit, because he is the only one: `slotCS`
  is held from the decision to the counting, and connections that end without it only lower
  the counter (`BoundInv`).
* `TaskFindsDelayed`: `DelayedRemoved`, without further hypotheses.
* `TypeCorrect`: `TypeOK`, without further hypotheses, so with torn updates and bytes that wrap
  too.  A user waits once (`OncePerUser`), `multiUploads` counts for each
  user exactly the connections that have an MCN slot booked (`MultiExact`), and the number of users that
  `notifyQueuedUsers` takes from the queue exists: it is the least at which the free slots
  are used up, a least number because there are finitely many before it (`TakenExists`).

`DownloadConnections`, under `ConnectionsAssumption`, for any tokens and sockets, any limits
and thresholds, with or without MCN, and whatever the peer and the network do:

* `ActiveItemsHaveSockets`, `IdlersStayIdle`, `OneDownload` and `SingleItemWithoutMcn` are
  the invariants `ActiveItemHasSocket`, `IdlersIdle`, `OneDownloadAtATime` and
  `OneItemWithoutMcn`.  All follow from one invariant, `CInv`:
  * `Types`, the types of the items and the sockets;
  * `SocketsFit`: what a socket is associated with and in which state it is, by where its
    thread is.  An idler is in STATE_IDLE, which nothing leaves but a revival, and a
    revival takes the socket out of the idlers before it looks for a download;
  * `SingleItem`: `OneItemWithoutMcn` is not inductive, because an item marked as MCN would be
    joined or replaced by another.  Without MCN no item is ever marked, so no socket
    comes to the places that create one;
  * `Owned`: `ActiveItemHasSocket` with `Frees(u, t)`, the end of socket `u` will still come
    to item `t`.  An item becomes active in the step that associates a socket with it, and a
    socket past that end has left it WAITING or removed it; if it becomes active again, it
    is by another socket, which then owns it.
* Most steps concern one socket and one item; `SocketStep` reduces `CInv'` to what that
  socket and the items became, and the lemmas above it (`SocketKeeps`, `SocketMoves`,
  `ItemChanges`, `TasksOnly`, `Putting`) are its special cases.
* `TypeCorrect`: `TypeOK`, from `CInv` and `RInv`.  The part that can go wrong is the list of
  items: no two have the same token (`Distinct`), since a new item gets one that no item,
  request, socket or removed token refers to and the timer does not hold; and the timer
  has a token when it comes to connect, although it chose the item a step before (`TimerOK`).

## 6. Only model checked, or not modelled

Only model checked: liveness (`Completes`, `LoopsEnd`, `ConnectingEnds`, `IdleSocketsEnd`,
`WaitingEnds`, `FinishedEnds`, `SearchReported`), since fairness and ENABLED are out of the
proof system's reach; `NoEmptyRequest`; and what the runs check beyond the hypotheses of the theorems:
`ImplementsBundleFile` with overlapping and two segments at a time (`segments_overlap`).
Every other invariant and every action property of the runs is stated by a theorem of section 5;
some theorems have hypotheses, which are the ones the property needs.

Not modelled: everything listed as `not_modelled` in `PROJECT.json`, with the reason there.
Inside the modelled files: the NMDC handshake and NMDC hubs, private message connections, the
flood counter, shutdown, priorities but for pausing, user queues, file lists and rechecks
(`recheckBundle` has no caller), redirects and HBRI of hubs, direct searches, matching and
results.

## 7. Plan

What is left, most important first.

1. `RefreshTasks` and `HashQueue`: share refreshes and hasher threads, abort and pause.
2. `ConnectionTokens`: the handshake of incoming connections, expected connections, NMDC
   and private message tokens, composed with `DownloadConnections`; then the composition of
   `DownloadConnections` with `UploadSlots` of another client.
3. `UploadBundles` and `PartialSharing`: messages over an unreliable hub.
4. `ChatConnection`, `Hooks` and `Sessions` of the web API, `ThrottleManager`.
