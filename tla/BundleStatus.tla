---------------------------- MODULE BundleStatus ----------------------------
(***************************************************************************)
(* How a directory bundle is finished: its files are downloaded and moved, *)
(* validated by hooks, the bundle is validated, shared and found in the    *)
(* share; files are added to it and removed from it meanwhile, downloads   *)
(* fail, the queue is saved and the program is restarted from what it      *)
(* saved.  QueueManager.cpp, Bundle.cpp, BundleQueue.cpp.                  *)
(*                                                                         *)
(* Threads: one per connection that finishes a file (dl), the task thread  *)
(* of the queue (tasks, work), the share's refresh (refresh), a user's     *)
(* request (remover) and the timer (delayed).  A step is what a thread     *)
(* does under one lock, or between two of them.                            *)
(***************************************************************************)
EXTENDS Naturals, Sequences, FiniteSets, Functions

CONSTANTS
    Files,         \* files of the bundle's directory
    Initial,       \* the files the bundle was created with
    HookAnswers,   \* what completion hooks may say: TRUE accepts
    ShareAnswers,  \* whether the directory may be shared
    MoveResults,   \* where a move may leave the file: "target", or "unmoved" when it fails
    Overlap,       \* may requests of users and failures meet a finishing bundle?
    Removes,       \* does the user remove files?
    Errors,        \* do downloads fail with an error of their bundle?
    MaxCrashes,    \* bound: restarts
    MaxTasks       \* bound: tasks waiting when another request comes

ASSUME BundleAssumption ==
    /\ IsFiniteSet(Files)
    /\ Initial \subseteq Files /\ Initial # {}
    /\ HookAnswers \subseteq BOOLEAN /\ HookAnswers # {}
    /\ ShareAnswers \subseteq BOOLEAN /\ ShareAnswers # {}
    /\ MoveResults \subseteq {"target", "unmoved"} /\ MoveResults # {}
    /\ Overlap \in BOOLEAN /\ Removes \in BOOLEAN /\ Errors \in BOOLEAN
    /\ MaxCrashes \in Nat /\ MaxTasks \in Nat
    /\ "nobody" \notin Files

VARIABLES
    alive,       \* the bundle is in the queue
    status,      \* its status
    queued,      \* queueItems
    finished,    \* finishedFiles
    known,       \* the files the file queue finds by their path
    fileStatus,  \* status of each file
    place,       \* where the complete file is: "none", "temp" until it is moved, "target", "unmoved"
    paused,      \* priority PAUSED_FORCE
    forced,      \* a user asked to share the bundle in spite of its errors
    dirty,       \* the bundle has to be saved
    xml,         \* its file on the disk
    dl,          \* connections finishing a file
    remover,     \* the file a user's request is removing
    tasks,       \* tasks of the queue
    work,        \* the task that is running
    delayed,     \* the delayed event with the bundle's key
    refresh,     \* the share's refresh of the bundle's directory
    shared,      \* the directory is found in the share
    crashes

itemVars == <<queued, finished, known, fileStatus, place>>
diskVars == <<dirty, xml>>
shareVars == <<refresh, shared, crashes>>
vars == <<alive, status, itemVars, paused, forced, diskVars, dl, remover, tasks, work, delayed, shareVars>>

-----------------------------------------------------------------------------
BundleStatuses == {"queued", "error", "downloaded", "validating", "invalid", "completed", "shared"}
FileStatuses == {"queued", "downloaded", "validating", "invalid", "completed"}

\* Mutant: status > STATUS_DOWNLOADED.
MutIsDownloaded(s) == s \notin {"queued", "error", "downloaded"}

IsDownloaded(s) == s \notin {"queued", "error"}

IsCompleted(s) == s \in {"completed", "shared"}

Failed == {f \in finished : fileStatus[f] = "invalid"}

\* Mutant: filesCompleted looks at the queued items only.
MutFilesCompleted == queued = {}

FilesCompleted == queued = {} /\ \A f \in finished : fileStatus[f] = "completed"

\* Bundle::setHookError is left out: the status says whether there is one.
SetBundleStatus(s) == status' = s

Nobody == "nobody"
NoXml == [paused |-> FALSE, files |-> [f \in Files |-> "none"]]

Task(kind) == [kind |-> kind, file |-> Nobody, skip |-> FALSE]
FileTask(f) == [Task("file") EXCEPT !.file = f]
ShareTask(skip) == [Task("share") EXCEPT !.skip = skip]

\* The task that runs, where it is, and what it is writing.
Working(task) == [task |-> task, step |-> "start", image |-> NoXml]
Idle == [Working(Task("none")) EXCEPT !.step = "none"]

AddTask(t) == tasks' = Append(tasks, t)

\* The delayed events of a bundle have one key: a pending one is only postponed,
\* and its own function is the one that will be called.
AddEvent(e) == delayed' = IF delayed = "none" THEN e ELSE delayed

\* saveQueue holds the lock while a bundle is being written.
Saving == work.task.kind = "save"

\* Nothing of the bundle is being finished, validated, shared or removed.
AtRest == /\ \A f \in Files : dl[f] = "idle"
          /\ remover = Nobody
          /\ work = Idle
          /\ tasks = <<>>
          /\ refresh = "none"

MayInterfere == alive /\ ~Saving /\ (Overlap \/ AtRest)

\* Mutant: only an item that has passed its hooks is written as finished.
MutImage == [paused |-> paused,
             files |-> [f \in Files |-> IF f \notin queued \cup finished THEN "none"
                                       ELSE IF fileStatus[f] = "completed" THEN "finished" ELSE "queued"]]

\* Bundle::save: an item whose segments are done is written as finished.
Image == [paused |-> paused,
          files |-> [f \in Files |-> IF f \notin queued \cup finished THEN "none"
                                    ELSE IF fileStatus[f] = "queued" THEN "queued" ELSE "finished"]]

Init ==
    /\ alive = TRUE
    /\ status = "queued"
    /\ queued = Initial
    /\ finished = {}
    /\ known = Initial
    /\ fileStatus = [f \in Files |-> "queued"]
    /\ place = [f \in Files |-> "none"]
    /\ paused = FALSE
    /\ forced = FALSE
    /\ dirty = TRUE
    /\ xml = NoXml
    /\ dl = [f \in Files |-> "idle"]
    /\ remover = Nobody
    /\ tasks = <<>>
    /\ work = Idle
    /\ delayed = "none"
    /\ refresh = "none"
    /\ shared = FALSE
    /\ crashes = 0

-----------------------------------------------------------------------------
(***************************************************************************)
(* A connection finishes a file.                                           *)
(***************************************************************************)

\* onFileDownloadCompleted: the last segment, under the lock.
FinishFile(f) ==
    /\ alive /\ ~Saving /\ ~paused
    /\ f \in queued \cap known
    /\ fileStatus[f] = "queued" /\ dl[f] = "idle"
    /\ fileStatus' = [fileStatus EXCEPT ![f] = "downloaded"]
    /\ place' = [place EXCEPT ![f] = "temp"]
    /\ dirty' = TRUE
    /\ dl' = [dl EXCEPT ![f] = "downloaded"]
    /\ UNCHANGED <<alive, status, queued, finished, known, paused, forced, xml, remover, tasks, work, delayed, shareVars>>

\* Mutant: the item stays in queueItems.
MutTakeOut(f) == queued' = queued /\ finished' = finished \cup {f}

\* Bundle::removeQueue and addFinishedItem
TakeOut(f) == queued' = queued \ {f} /\ finished' = finished \cup {f}

\* removeBundleItem(qi, true) under the lock: was it the last file?
TakeFile(f) ==
    /\ alive /\ ~Saving /\ dl[f] = "downloaded"
    /\ TakeOut(f)
    /\ dl' = [dl EXCEPT ![f] = IF queued' = {} THEN "last" ELSE "taken"]
    /\ UNCHANGED <<alive, status, known, fileStatus, place, paused, forced, diskVars, remover, tasks, work, delayed, shareVars>>

\* removeBundleItem after the lock: finishBundle, STATUS_DOWNLOADED.
FinishBundle(f) ==
    /\ alive /\ dl[f] = "last"
    /\ SetBundleStatus("downloaded")
    /\ dl' = [dl EXCEPT ![f] = "taken"]
    /\ UNCHANGED <<alive, itemVars, paused, forced, diskVars, remover, tasks, work, delayed, shareVars>>

\* The end of removeBundleItem, renameDownloadedFile and onFileDownloadRemoved.  A
\* file that cannot be moved, or only be given its name, is validated all the same.
MoveFile(f) ==
    /\ alive /\ dl[f] = "taken"
    /\ dirty' = TRUE
    /\ \E p \in MoveResults : place' = [place EXCEPT ![f] = IF @ = "temp" THEN p ELSE @]
    /\ AddTask(FileTask(f))
    /\ AddEvent("waiting")
    /\ dl' = [dl EXCEPT ![f] = "idle"]
    /\ UNCHANGED <<alive, status, queued, finished, known, fileStatus, paused, forced, xml, remover, work, shareVars>>

-----------------------------------------------------------------------------
(***************************************************************************)
(* The task thread.                                                        *)
(***************************************************************************)

\* DispatcherQueue::dispatch
StartTask ==
    /\ alive /\ work = Idle /\ tasks # <<>>
    /\ tasks' = Tail(tasks)
    /\ work' = Working(Head(tasks))
    /\ UNCHANGED <<alive, status, itemVars, paused, forced, diskVars, dl, remover, delayed, shareVars>>

At(kind, step) == alive /\ work.task.kind = kind /\ work.step = step
GoTo(step) == work' = [work EXCEPT !.step = step]
TaskDone == work' = Idle

\* runFileCompletionHooks, before the hooks
RunFileHooks ==
    /\ At("file", "start")
    /\ fileStatus' = [fileStatus EXCEPT ![work.task.file] = "validating"]
    /\ GoTo("hooks")
    /\ UNCHANGED <<alive, status, queued, finished, known, place, paused, forced, diskVars, dl, remover, tasks, delayed, shareVars>>

\* ... and after them
FileHooksAnswer ==
    /\ At("file", "hooks")
    /\ \E ok \in HookAnswers :
         fileStatus' = [fileStatus EXCEPT ![work.task.file] = IF ok THEN "completed" ELSE "invalid"]
    /\ GoTo("check")
    /\ UNCHANGED <<alive, status, queued, finished, known, place, paused, forced, diskVars, dl, remover, tasks, delayed, shareVars>>

\* The check of a file that was removed starts here.
StartCheck ==
    /\ At("check", "start")
    /\ GoTo("check")
    /\ UNCHANGED <<alive, status, itemVars, paused, forced, diskVars, dl, remover, tasks, delayed, shareVars>>

\* checkBundleFinishedHooked: what it finds decides what happens to the bundle.
CheckFinished ==
    /\ alive /\ work.task.kind \in {"file", "check"} /\ work.step = "check"
    /\ LET toDo == status # "shared" /\ IsDownloaded(status)
           ready == toDo /\ Failed = {} /\ FilesCompleted
       IN  /\ IF toDo /\ Failed # {} THEN GoTo("fail") ELSE TaskDone
           /\ tasks' = IF ready THEN Append(tasks, ShareTask(FALSE))
                       ELSE IF work.task.kind = "check" /\ status # "shared" /\ ~(toDo /\ Failed # {})
                            THEN Append(tasks, Task("update"))
                            ELSE tasks
    /\ UNCHANGED <<alive, status, itemVars, paused, forced, diskVars, dl, remover, delayed, shareVars>>

\* checkFailedBundleFilesHooked found failed files.
FailBundle ==
    /\ alive /\ work.task.kind \in {"file", "check", "share"} /\ work.step = "fail"
    /\ SetBundleStatus("invalid")
    /\ tasks' = IF work.task.kind = "check" THEN Append(tasks, Task("update")) ELSE tasks
    /\ TaskDone
    /\ UNCHANGED <<alive, itemVars, paused, forced, diskVars, dl, remover, delayed, shareVars>>

\* The task of shareBundle: are there files to validate again?
StartShare ==
    /\ At("share", "start")
    /\ \/ work.task.skip /\ GoTo("complete") /\ UNCHANGED status
       \/ ~work.task.skip /\ Failed = {} /\ GoTo("bundle") /\ UNCHANGED status
       \/ ~work.task.skip /\ Failed # {} /\ GoTo("files") /\ SetBundleStatus("validating")
    /\ UNCHANGED <<alive, itemVars, paused, forced, diskVars, dl, remover, tasks, delayed, shareVars>>

\* checkFailedBundleFilesHooked(aBundle, true): the hooks look at the failed files.
RevalidateFiles ==
    /\ At("share", "files")
    /\ \E passed \in SUBSET Failed :
         /\ TRUE \in HookAnswers \/ passed = {}
         /\ fileStatus' = [f \in Files |-> IF f \in passed THEN "completed" ELSE fileStatus[f]]
         /\ GoTo(IF passed = Failed THEN "bundle" ELSE "fail")
    /\ UNCHANGED <<alive, status, queued, finished, known, place, paused, forced, diskVars, dl, remover, tasks, delayed, shareVars>>

\* runBundleCompletionHooks, before the hooks
RunBundleHooks ==
    /\ At("share", "bundle")
    /\ SetBundleStatus("validating")
    /\ GoTo("hooks")
    /\ UNCHANGED <<alive, itemVars, paused, forced, diskVars, dl, remover, tasks, delayed, shareVars>>

\* ... and after them
BundleHooksAnswer ==
    /\ At("share", "hooks")
    /\ \E ok \in HookAnswers :
         /\ SetBundleStatus(IF ok THEN "completed" ELSE "invalid")
         /\ IF ok THEN GoTo("complete") ELSE TaskDone
    /\ UNCHANGED <<alive, itemVars, paused, forced, diskVars, dl, remover, tasks, delayed, shareVars>>

\* shareBundle: STATUS_COMPLETED, then the share is asked to refresh the directory.
ShareBundle ==
    /\ At("share", "complete")
    /\ SetBundleStatus("completed")
    /\ \E ok \in ShareAnswers : refresh' = IF ok THEN "wanted" ELSE refresh
    /\ TaskDone
    /\ UNCHANGED <<alive, itemVars, paused, forced, diskVars, dl, remover, tasks, delayed, shared, crashes>>

\* addBundleUpdate: what the event does changes no status.
RunUpdate ==
    /\ At("update", "start")
    /\ AddEvent("update")
    /\ TaskDone
    /\ UNCHANGED <<alive, status, itemVars, paused, forced, diskVars, dl, remover, tasks, shareVars>>

\* setBundlePriority(aBundle, PAUSED_FORCE) of onDownloadError
RunPause ==
    /\ At("pause", "start")
    /\ paused' = (paused \/ ~IsDownloaded(status))
    /\ dirty' = (dirty \/ paused' # paused)
    /\ TaskDone
    /\ UNCHANGED <<alive, status, itemVars, forced, xml, dl, remover, tasks, delayed, shareVars>>

\* checkResumeBundles: there is space for an unfinished bundle with an error.  It
\* gets an automatic priority, which a bundle paused for its error has not.
RunResume ==
    /\ At("resume", "start")
    /\ IF status = "error"
       THEN /\ SetBundleStatus("queued") /\ paused' = FALSE
            /\ \E autoPriority \in BOOLEAN : dirty' = (dirty \/ paused \/ ~autoPriority)
       ELSE UNCHANGED <<status, paused, dirty>>
    /\ TaskDone
    /\ UNCHANGED <<alive, itemVars, forced, xml, dl, remover, tasks, delayed, shareVars>>

\* Bundle::save writes a temporary file and deletes the old one ...
StartSave ==
    /\ At("save", "start")
    /\ IF dirty
       THEN /\ work' = [work EXCEPT !.step = "rename", !.image = Image]
            /\ xml' = NoXml
       ELSE /\ TaskDone
            /\ UNCHANGED xml
    /\ UNCHANGED <<alive, status, itemVars, paused, forced, dirty, dl, remover, tasks, delayed, shareVars>>

\* ... and gives the temporary file its name.
RenameSaved ==
    /\ At("save", "rename")
    /\ xml' = work.image
    /\ dirty' = FALSE
    /\ TaskDone
    /\ UNCHANGED <<alive, status, itemVars, paused, forced, dl, remover, tasks, delayed, shareVars>>

WorkerStep ==
    \/ StartTask
    \/ RunFileHooks \/ FileHooksAnswer \/ StartCheck \/ CheckFinished \/ FailBundle
    \/ StartShare \/ RevalidateFiles \/ RunBundleHooks \/ BundleHooksAnswer \/ ShareBundle
    \/ RunUpdate \/ RunPause \/ RunResume
    \/ StartSave \/ RenameSaved

-----------------------------------------------------------------------------
(***************************************************************************)
(* Timers, the share, and what users and failing downloads do.             *)
(***************************************************************************)

Waits(kind) == work.task.kind = kind \/ \E t \in Range(tasks) : t.kind = kind

\* on(Second): every ten seconds the queue is saved.
SaveTick ==
    /\ alive /\ dirty /\ ~Waits("save")
    /\ AddTask(Task("save"))
    /\ UNCHANGED <<alive, status, itemVars, paused, forced, diskVars, dl, remover, work, delayed, shareVars>>

\* on(Minute)
MinuteTick ==
    /\ alive /\ status = "error" /\ ~Waits("resume")
    /\ AddTask(Task("resume"))
    /\ UNCHANGED <<alive, status, itemVars, paused, forced, diskVars, dl, remover, work, delayed, shareVars>>

\* DelayedEvents::on(Second)
DelayedEvent ==
    /\ alive /\ delayed # "none"
    /\ delayed' = "none"
    /\ tasks' = IF delayed = "check" THEN Append(tasks, Task("check")) ELSE tasks
    /\ UNCHANGED <<alive, status, itemVars, paused, forced, diskVars, dl, remover, work, shareVars>>

\* ShareManager has refreshed the directory: checkCompletedBundles collects bundles ...
ShareRefreshed ==
    /\ alive /\ refresh = "wanted" /\ ~Saving
    /\ shared' = TRUE
    /\ refresh' = IF IsCompleted(status) THEN "listed" ELSE "none"
    /\ UNCHANGED <<alive, status, itemVars, paused, forced, diskVars, dl, remover, tasks, work, delayed, crashes>>

\* ... and then changes their status.
SetShared ==
    /\ alive /\ refresh = "listed"
    /\ SetBundleStatus("shared")
    /\ refresh' = "none"
    /\ UNCHANGED <<alive, itemVars, paused, forced, diskVars, dl, remover, tasks, work, delayed, shared, crashes>>

\* onDownloadError: a download could not open its file, or got wrong data.
DownloadError ==
    /\ Errors /\ alive /\ Len(tasks) < MaxTasks
    /\ Overlap \/ \E f \in queued : fileStatus[f] = "queued"
    /\ tasks' = IF IsDownloaded(status) \/ Waits("pause") THEN tasks ELSE Append(tasks, Task("pause"))
    /\ SetBundleStatus("error")
    /\ UNCHANGED <<alive, itemVars, paused, forced, diskVars, dl, remover, work, delayed, shareVars>>

\* checkDiskSpace: another download may start as there is space for its file.
CheckDiskSpace ==
    /\ alive /\ status = "error" /\ ~paused
    /\ \E f \in queued : fileStatus[f] = "queued"
    /\ SetBundleStatus("queued")
    /\ UNCHANGED <<alive, itemVars, paused, forced, diskVars, dl, remover, tasks, work, delayed, shareVars>>

\* handleShareBundle: a user wants a bundle shared that hooks have rejected.
RequestShare(skip) ==
    /\ MayInterfere /\ status = "invalid" /\ Len(tasks) < MaxTasks
    /\ AddTask(ShareTask(skip))
    /\ forced' = (forced \/ skip)
    /\ UNCHANGED <<alive, status, itemVars, paused, diskVars, dl, remover, work, delayed, shareVars>>

\* The same path is another item when it is added again: bound, the old one is done with.
HasTask(f) == FileTask(f) \in Range(tasks) \/ work.task = FileTask(f)

\* createDirectoryBundleHooked with one more file of the directory, or with a
\* completed one that is not at its target (checkRemovedTarget): addBundle puts a
\* bundle back (readdBundle) when nothing else is queued.
AddFile(f) ==
    /\ MayInterfere /\ Len(tasks) < MaxTasks
    /\ \/ f \notin known \cup queued \cup finished
       \/ f \in known \cap finished /\ fileStatus[f] = "completed"
    /\ place[f] # "target" /\ dl[f] = "idle" /\ remover # f
    /\ ~HasTask(f)
    /\ queued' = queued \cup {f}
    /\ fileStatus' = [fileStatus EXCEPT ![f] = "queued"]
    /\ place' = [place EXCEPT ![f] = "none"]
    /\ dirty' = TRUE
    /\ IF queued = {}
       THEN /\ SetBundleStatus("queued")
            /\ finished' = {g \in finished : place[g] = "target"}
            /\ known' = (known \ (finished \ finished')) \cup {f}
            /\ forced' = FALSE
            /\ UNCHANGED tasks
       ELSE /\ AddTask(Task("update"))
            /\ known' = known \cup {f}
            /\ finished' = finished \ {f}
            /\ UNCHANGED <<status, forced>>
    /\ UNCHANGED <<alive, paused, xml, dl, remover, work, delayed, shareVars>>

\* removeQI: the file leaves the file queue and its temporary file is deleted ...
RemoveFile(f) ==
    /\ Removes /\ MayInterfere /\ remover = Nobody
    /\ f \in known
    /\ known' = known \ {f}
    /\ place' = [place EXCEPT ![f] = IF @ = "temp" THEN "none" ELSE @]
    /\ remover' = f
    /\ UNCHANGED <<alive, status, queued, finished, fileStatus, paused, forced, diskVars, dl, tasks, work, delayed, shareVars>>

\* ... and removeBundleItem(qi, false): an empty bundle is removed as well.
RemoveBundleItem ==
    /\ alive /\ remover # Nobody /\ ~Saving
    /\ IF fileStatus[remover] = "queued"
       THEN queued' = queued \ {remover} /\ UNCHANGED finished
       ELSE finished' = finished \ {remover} /\ UNCHANGED queued
    /\ remover' = Nobody
    /\ IF queued' = {} /\ finished' = {}
       THEN alive' = FALSE /\ xml' = NoXml /\ UNCHANGED <<dirty, delayed>>
       ELSE AddEvent("check") /\ dirty' = TRUE /\ UNCHANGED <<alive, xml>>
    /\ UNCHANGED <<status, known, fileStatus, place, paused, forced, dl, tasks, work, shareVars>>

\* Mutant: a finished file is loaded without a look at the disk.
MutLoaded(kind, where) == {f \in Files : xml.files[f] = kind}

\* QueueLoader: a finished file has to exist, an unfinished one must not.
Loaded(kind, where) == {f \in Files : xml.files[f] = kind /\ place[f] \in where}

\* The program ends at any point, and loadQueue reads what it saved.
Restart ==
    /\ alive /\ crashes < MaxCrashes
    /\ crashes' = crashes + 1
    /\ queued' = Loaded("queued", {"none", "temp", "unmoved"})
    /\ finished' = Loaded("finished", {"target"})
    /\ known' = queued' \cup finished'
    /\ alive' = (known' # {})
    /\ xml' = IF alive' THEN xml ELSE NoXml
    /\ fileStatus' = [f \in Files |-> IF f \in finished' THEN "completed" ELSE "queued"]
    /\ place' = [f \in Files |-> IF f \in queued' THEN "none" ELSE place[f]]
    /\ paused' = xml.paused
    /\ status' = IF queued' # {} THEN "queued" ELSE IF shared THEN "shared" ELSE "completed"
    /\ tasks' = IF status' = "completed" /\ alive' THEN <<ShareTask(FALSE)>> ELSE <<>>
    /\ forced' = FALSE
    /\ dirty' = FALSE
    /\ dl' = [f \in Files |-> "idle"]
    /\ remover' = Nobody
    /\ work' = Idle
    /\ delayed' = "none"
    /\ refresh' = "none"
    /\ UNCHANGED shared

Next ==
    \/ \E f \in Files : FinishFile(f) \/ TakeFile(f) \/ FinishBundle(f) \/ MoveFile(f)
    \/ WorkerStep
    \/ SaveTick \/ MinuteTick \/ DelayedEvent
    \/ ShareRefreshed \/ SetShared
    \/ DownloadError \/ CheckDiskSpace
    \/ \E skip \in BOOLEAN : RequestShare(skip)
    \/ \E f \in Files : AddFile(f) \/ RemoveFile(f)
    \/ RemoveBundleItem
    \/ Restart

Spec == Init /\ [][Next]_vars

FairSpec ==
    /\ Spec
    /\ \A f \in Files : WF_vars(TakeFile(f)) /\ WF_vars(FinishBundle(f)) /\ WF_vars(MoveFile(f))
    /\ WF_vars(WorkerStep)
    /\ WF_vars(MinuteTick) /\ WF_vars(DelayedEvent)
    /\ WF_vars(ShareRefreshed) /\ WF_vars(SetShared)
    /\ WF_vars(RemoveBundleItem)

-----------------------------------------------------------------------------
Xmls == [paused : BOOLEAN, files : [Files -> {"none", "queued", "finished"}]]

Tasks ==
    {Task(kind) : kind \in {"check", "update", "pause", "resume", "save"}}
        \cup {FileTask(f) : f \in Files} \cup {ShareTask(skip) : skip \in BOOLEAN}

Steps == {"none", "start", "hooks", "check", "fail", "files", "bundle", "complete", "rename"}

\* Every variable has its type, and no file is both queued and finished.
TypeOK ==
    /\ alive \in BOOLEAN
    /\ status \in BundleStatuses
    /\ queued \subseteq Files /\ finished \subseteq Files
    /\ queued \cap finished = {}
    /\ known \subseteq Files
    /\ fileStatus \in [Files -> FileStatuses]
    /\ place \in [Files -> {"none", "temp"} \cup MoveResults]
    /\ {paused, forced, dirty, shared} \subseteq BOOLEAN
    /\ xml \in Xmls
    /\ dl \in [Files -> {"idle", "downloaded", "last", "taken"}]
    /\ tasks \in Seq(Tasks)
    /\ work \in [task : Tasks \cup {Task("none")}, step : Steps, image : Xmls]
    /\ remover \in Files \cup {Nobody}
    /\ delayed \in {"none", "waiting", "check", "update"}
    /\ refresh \in {"none", "wanted", "listed"}
    /\ crashes \in 0..MaxCrashes

\* Bundle.h: STATUS_DOWNLOADED, "no queued files"; STATUS_COMPLETED, "no validation
\* errors, ready for sharing".  Files are added under the lock and the statuses
\* are set after it: this holds while a request does not meet a finishing bundle.
StatusAsStated ==
    alive /\ IsDownloaded(status) =>
        /\ queued = {}
        /\ IsCompleted(status) => forced \/ \A f \in finished : fileStatus[f] = "completed"

\* A file passes its hooks only after its move: it is at its target, whatever was
\* running when it was moved, or found in the saved queue, or while it is being
\* removed.  One whose move has failed passes them as well, where it was left, and
\* filesCompleted, before which the code speaks of "non-moved files remaining", does
\* not tell it from the others.
ValidatedInPlace == alive => \A f \in finished \cap known : fileStatus[f] = "completed" => place[f] \in MoveResults

\* When the last change has been saved and nothing is on its way, a restart
\* brings back the same files, the finished ones as finished: all but those whose
\* move has failed, which loadFinishedFile does not find and drops.
RestartKeepsFiles ==
    [][crashes' # crashes /\ ~dirty /\ AtRest =>
          /\ queued' = queued
          /\ finished' = {f \in finished : place[f] # "unmoved"}]_vars

\* Once its last file is finished the bundle gets to the end of its validation,
\* or something is queued in it again: not when the last queued file is removed,
\* which nobody notices.
FinishedEnds ==
    (alive /\ queued = {} /\ (IsDownloaded(status) \/ \E f \in Files : dl[f] = "last"))
        ~> (~alive \/ queued # {} \/ status \in {"invalid", "completed", "shared"})
=============================================================================
