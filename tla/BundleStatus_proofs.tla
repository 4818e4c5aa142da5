------------------------ MODULE BundleStatus_proofs ------------------------
(***************************************************************************)
(* What the statuses of a bundle and of its files say and what a restart   *)
(* brings back, for any set of files, answers of hooks and number of       *)
(* restarts.                                                               *)
(***************************************************************************)
EXTENDS BundleStatus, TLAPS

-----------------------------------------------------------------------------
(* Tasks.                                                                  *)

LEMMA TaskKinds ==
  /\ \A kind : Task(kind).kind = kind
  /\ \A f : FileTask(f).kind = "file" /\ FileTask(f).file = f
  /\ \A skip : ShareTask(skip).kind = "share" /\ ShareTask(skip).skip = skip
BY DEF Task, FileTask, ShareTask

LEMMA RangeOfTasks ==
  ASSUME NEW S, NEW s \in Seq(S), NEW e \in S
  PROVE  /\ Append(s, e) \in Seq(S)
         /\ Range(Append(s, e)) = Range(s) \cup {e}
<1>1. Append(s, e) \in Seq(S) /\ DOMAIN Append(s, e) = 1 .. Len(s) + 1 /\ DOMAIN s = 1 .. Len(s)
      /\ Len(s) \in Nat
  OBVIOUS
<1>2. Append(s, e)[Len(s) + 1] = e /\ \A i \in 1 .. Len(s) : Append(s, e)[i] = s[i]
  OBVIOUS
<1>3. ASSUME NEW x \in Range(Append(s, e)) PROVE x \in Range(s) \cup {e}
  <2>1. PICK i \in 1 .. Len(s) + 1 : x = Append(s, e)[i] BY <1>1 DEF Range
  <2>2. i = Len(s) + 1 \/ i \in 1 .. Len(s) BY <1>1, <2>1
  <2> QED BY <2>1, <2>2, <1>1, <1>2 DEF Range
<1>4. ASSUME NEW x \in Range(s) \cup {e} PROVE x \in Range(Append(s, e))
  <2>1. CASE x = e
    <3>1. Len(s) + 1 \in DOMAIN Append(s, e) BY <1>1
    <3> QED BY <3>1, <2>1, <1>2 DEF Range
  <2>2. CASE x \in Range(s)
    <3>1. PICK i \in 1 .. Len(s) : x = s[i] BY <2>2, <1>1 DEF Range
    <3>2. i \in DOMAIN Append(s, e) BY <1>1, <3>1
    <3> QED BY <3>1, <3>2, <1>2 DEF Range
  <2> QED BY <2>1, <2>2
<1> QED BY <1>1, <1>3, <1>4

LEMMA RangeOfTail ==
  ASSUME NEW S, NEW s \in Seq(S), s # <<>>
  PROVE  /\ Head(s) \in S /\ Tail(s) \in Seq(S)
         /\ Range(s) = Range(Tail(s)) \cup {Head(s)}
<1>1. Len(s) \in Nat /\ Len(s) >= 1 /\ DOMAIN s = 1 .. Len(s) /\ Head(s) = s[1]
  OBVIOUS
<1>2. /\ Tail(s) \in Seq(S) /\ DOMAIN Tail(s) = 1 .. Len(s) - 1
      /\ \A i \in 1 .. Len(s) - 1 : Tail(s)[i] = s[i + 1]
  BY <1>1
<1>3. ASSUME NEW x \in Range(s) PROVE x \in Range(Tail(s)) \cup {Head(s)}
  <2>1. PICK i \in 1 .. Len(s) : x = s[i] BY <1>1 DEF Range
  <2>2. CASE i = 1 BY <2>1, <2>2, <1>1
  <2>3. CASE i # 1
    <3>1. i - 1 \in 1 .. Len(s) - 1 /\ Tail(s)[i - 1] = x BY <2>1, <2>3, <1>1, <1>2
    <3> QED BY <3>1, <1>2 DEF Range
  <2> QED BY <2>2, <2>3
<1>4. ASSUME NEW x \in Range(Tail(s)) \cup {Head(s)} PROVE x \in Range(s)
  <2>1. CASE x = Head(s)
    <3>1. 1 \in DOMAIN s BY <1>1
    <3> QED BY <3>1, <2>1, <1>1 DEF Range
  <2>2. CASE x \in Range(Tail(s))
    <3>1. PICK i \in 1 .. Len(s) - 1 : x = Tail(s)[i] BY <2>2, <1>2 DEF Range
    <3>2. i + 1 \in DOMAIN s /\ x = s[i + 1] BY <3>1, <1>1, <1>2
    <3> QED BY <3>2 DEF Range
  <2> QED BY <2>1, <2>2
<1>5. Head(s) \in S BY <1>1
<1> QED BY <1>2, <1>3, <1>4, <1>5

LEMMA EmptyTasks == <<>> \in Seq(Tasks) /\ Range(<<>>) = {}
BY DEF Range

LEMMA OneTask ==
  ASSUME NEW S, NEW e \in S
  PROVE  <<e>> \in Seq(S) /\ Range(<<e>>) = {e}
<1>1. <<e>> \in Seq(S) OBVIOUS
<1>2. DOMAIN <<e>> = {1} /\ <<e>>[1] = e OBVIOUS
<1> QED BY <1>1, <1>2 DEF Range

-----------------------------------------------------------------------------
(* Types.                                                                  *)

LEMMA InitTypeOK == Init => TypeOK
<1> SUFFICES ASSUME Init PROVE TypeOK OBVIOUS
<1>1. NoXml \in Xmls BY DEF NoXml, Xmls
<1>2. work \in [task : Tasks \cup {Task("none")}, step : Steps, image : Xmls]
  BY <1>1 DEF Init, Idle, Working, Steps
<1>3. tasks \in Seq(Tasks) BY EmptyTasks DEF Init
<1>4. /\ fileStatus \in [Files -> FileStatuses]
      /\ place \in [Files -> {"none", "temp"} \cup MoveResults]
      /\ dl \in [Files -> {"idle", "downloaded", "last", "taken"}]
  BY DEF Init, FileStatuses
<1>5. crashes \in 0 .. MaxCrashes BY BundleAssumption DEF Init
<1>6. queued \subseteq Files /\ finished \subseteq Files /\ queued \cap finished = {} /\ known \subseteq Files
  BY BundleAssumption DEF Init
<1>7. xml \in Xmls BY <1>1 DEF Init
<1> QED BY <1>2, <1>3, <1>4, <1>5, <1>6, <1>7 DEF Init, TypeOK, BundleStatuses

\* What a step does to the tasks, in a form the steps below can use.
LEMMA TypedTasks ==
  ASSUME TypeOK
  PROVE  /\ \A t \in Tasks : Append(tasks, t) \in Seq(Tasks)
         /\ \A f \in Files : FileTask(f) \in Tasks
         /\ \A skip \in BOOLEAN : ShareTask(skip) \in Tasks
         /\ \A kind \in {"check", "update", "pause", "resume", "save"} : Task(kind) \in Tasks
         /\ Idle \in [task : Tasks \cup {Task("none")}, step : Steps, image : Xmls]
         /\ NoXml \in Xmls
         /\ tasks # <<>> => Tail(tasks) \in Seq(Tasks) /\ Head(tasks) \in Tasks
<1>1. NoXml \in Xmls BY DEF NoXml, Xmls
<1>2. tasks \in Seq(Tasks) BY DEF TypeOK
<1> QED BY <1>1, <1>2, RangeOfTail DEF Tasks, Idle, Working, Steps

Works == [task : Tasks \cup {Task("none")}, step : Steps, image : Xmls]

LEMMA WorkerTypeOK == TypeOK /\ WorkerStep => TypeOK'
<1> SUFFICES ASSUME TypeOK, WorkerStep PROVE TypeOK' OBVIOUS
<1> USE TypedTasks DEF TypeOK, Works
<1>g. \A step \in Steps : GoTo(step) => work' \in Works BY DEF GoTo
<1>d. TaskDone => work' \in Works BY DEF TaskDone
<1>1. CASE StartTask
  <2>1. work' \in Works BY <1>1 DEF StartTask, Working, Steps
  <2> QED BY <1>1, <2>1 DEF StartTask, itemVars, diskVars, shareVars
<1>2. CASE RunFileHooks \/ FileHooksAnswer \/ StartCheck
  <2>1. work' \in Works BY <1>2, <1>g DEF RunFileHooks, FileHooksAnswer, StartCheck, Steps
  <2>2. fileStatus' \in [Files -> FileStatuses]
    BY <1>2 DEF RunFileHooks, FileHooksAnswer, StartCheck, FileStatuses, itemVars
  <2> QED BY <1>2, <2>1, <2>2 DEF RunFileHooks, FileHooksAnswer, StartCheck, itemVars, diskVars, shareVars
<1>3. CASE CheckFinished
  <2>1. work' \in Works BY <1>3, <1>g, <1>d DEF CheckFinished, Steps
  <2>2. tasks' \in Seq(Tasks) BY <1>3 DEF CheckFinished
  <2> QED BY <1>3, <2>1, <2>2 DEF CheckFinished, itemVars, diskVars, shareVars
<1>4. CASE FailBundle
  <2>1. work' \in Works BY <1>4, <1>d DEF FailBundle
  <2>2. tasks' \in Seq(Tasks) BY <1>4 DEF FailBundle
  <2> QED BY <1>4, <2>1, <2>2 DEF FailBundle, itemVars, diskVars, shareVars, SetBundleStatus, BundleStatuses
<1>5. CASE StartShare \/ RunBundleHooks \/ BundleHooksAnswer
  <2>1. work' \in Works BY <1>5, <1>g, <1>d DEF StartShare, RunBundleHooks, BundleHooksAnswer, Steps
  <2>2. status' \in BundleStatuses
    BY <1>5 DEF StartShare, RunBundleHooks, BundleHooksAnswer, SetBundleStatus, BundleStatuses
  <2> QED
    BY <1>5, <2>1, <2>2 DEF StartShare, RunBundleHooks, BundleHooksAnswer, itemVars, diskVars, shareVars
<1>6. CASE RevalidateFiles
  <2>1. work' \in Works BY <1>6, <1>g DEF RevalidateFiles, Steps
  <2>2. fileStatus' \in [Files -> FileStatuses] BY <1>6 DEF RevalidateFiles, FileStatuses
  <2> QED BY <1>6, <2>1, <2>2 DEF RevalidateFiles, diskVars, shareVars
<1>7. CASE ShareBundle
  <2> QED BY <1>7, <1>d DEF ShareBundle, itemVars, diskVars, SetBundleStatus, BundleStatuses
<1>8. CASE RunUpdate \/ RunPause \/ RunResume
  <2>1. work' \in Works BY <1>8, <1>d DEF RunUpdate, RunPause, RunResume
  <2>2. status' \in BundleStatuses /\ paused' \in BOOLEAN /\ dirty' \in BOOLEAN
        /\ delayed' \in {"none", "waiting", "check", "update"}
    BY <1>8 DEF RunUpdate, RunPause, RunResume, SetBundleStatus, BundleStatuses, AddEvent, diskVars
  <2> QED BY <1>8, <2>1, <2>2 DEF RunUpdate, RunPause, RunResume, itemVars, diskVars, shareVars
<1>9. CASE StartSave
  <2>1. Image \in Xmls BY DEF Image, Xmls
  <2>2. work' \in Works
    <3>1. work \in Works BY DEF TypeOK, Works
    <3>2. CASE dirty
      <4>1. work' = [work EXCEPT !.step = "rename", !.image = Image] BY <1>9, <3>2 DEF StartSave
      <4>2. "rename" \in Steps BY DEF Steps
      <4> QED BY <2>1, <3>1, <4>1, <4>2 DEF Works
    <3>3. CASE ~dirty
      <4>1. work' = Idle BY <1>9, <3>3 DEF StartSave, TaskDone
      <4> QED BY <4>1, <1>d
    <3> QED BY <3>2, <3>3
  <2> QED BY <1>9, <2>2 DEF StartSave, itemVars, shareVars
<1>10. CASE RenameSaved
  <2>1. work' \in Works BY <1>10, <1>d DEF RenameSaved
  <2> QED BY <1>10, <2>1 DEF RenameSaved, itemVars, shareVars
<1> QED BY <1>1, <1>2, <1>3, <1>4, <1>5, <1>6, <1>7, <1>8, <1>9, <1>10 DEF WorkerStep

LEMMA NextTypeOK == TypeOK /\ [Next]_vars => TypeOK'
<1> SUFFICES ASSUME TypeOK, [Next]_vars PROVE TypeOK' OBVIOUS
<1> USE TypedTasks DEF TypeOK
<1>1. ASSUME NEW f \in Files, FinishFile(f) \/ TakeFile(f) \/ FinishBundle(f) \/ MoveFile(f)
      PROVE  TypeOK'
  <2>1. place' \in [Files -> {"none", "temp"} \cup MoveResults]
    BY <1>1, BundleAssumption DEF FinishFile, TakeFile, FinishBundle, MoveFile, itemVars
  <2>2. fileStatus' \in [Files -> FileStatuses]
    BY <1>1 DEF FinishFile, TakeFile, FinishBundle, MoveFile, itemVars, FileStatuses
  <2>3. dl' \in [Files -> {"idle", "downloaded", "last", "taken"}]
    BY <1>1 DEF FinishFile, TakeFile, FinishBundle, MoveFile
  <2>4. status' \in BundleStatuses
    BY <1>1 DEF FinishFile, TakeFile, FinishBundle, MoveFile, SetBundleStatus, BundleStatuses
  <2>5. tasks' \in Seq(Tasks) BY <1>1 DEF FinishFile, TakeFile, FinishBundle, MoveFile, AddTask
  <2>6. queued' \subseteq Files /\ finished' \subseteq Files /\ queued' \cap finished' = {}
    BY <1>1 DEF FinishFile, TakeFile, FinishBundle, MoveFile, TakeOut, itemVars
  <2>7. delayed' \in {"none", "waiting", "check", "update"} /\ dirty' \in BOOLEAN
    BY <1>1 DEF FinishFile, TakeFile, FinishBundle, MoveFile, AddEvent, diskVars
  <2> QED
    BY <1>1, <2>1, <2>2, <2>3, <2>4, <2>5, <2>6, <2>7
    DEF FinishFile, TakeFile, FinishBundle, MoveFile, itemVars, diskVars, shareVars
<1>2. CASE SaveTick \/ MinuteTick \/ DelayedEvent
  <2>1. tasks' \in Seq(Tasks) BY <1>2 DEF SaveTick, MinuteTick, DelayedEvent, AddTask
  <2> QED BY <1>2, <2>1 DEF SaveTick, MinuteTick, DelayedEvent, itemVars, diskVars, shareVars
<1>3. CASE ShareRefreshed \/ SetShared
  BY <1>3 DEF ShareRefreshed, SetShared, SetBundleStatus, BundleStatuses, itemVars, diskVars
<1>4. ASSUME DownloadError \/ CheckDiskSpace \/ \E skip \in BOOLEAN : RequestShare(skip)
      PROVE  TypeOK'
  <2>1. tasks' \in Seq(Tasks) BY <1>4 DEF DownloadError, CheckDiskSpace, RequestShare, AddTask
  <2>2. status' \in BundleStatuses
    BY <1>4 DEF DownloadError, CheckDiskSpace, RequestShare, SetBundleStatus, BundleStatuses
  <2>3. forced' \in BOOLEAN BY <1>4 DEF DownloadError, CheckDiskSpace, RequestShare
  <2> QED
    BY <1>4, <2>1, <2>2, <2>3 DEF DownloadError, CheckDiskSpace, RequestShare, itemVars, diskVars, shareVars
<1>5. ASSUME NEW f \in Files, AddFile(f) PROVE TypeOK'
  <2>1. queued' = queued \cup {f} /\ finished' \subseteq finished /\ f \notin finished'
    BY <1>5 DEF AddFile
  <2>2. place' \in [Files -> {"none", "temp"} \cup MoveResults] /\ fileStatus' \in [Files -> FileStatuses]
    BY <1>5 DEF AddFile, FileStatuses
  <2>3. tasks' \in Seq(Tasks) BY <1>5 DEF AddFile, AddTask
  <2>4. status' \in BundleStatuses /\ forced' \in BOOLEAN /\ dirty' \in BOOLEAN /\ known' \subseteq Files
    BY <1>5 DEF AddFile, SetBundleStatus, BundleStatuses
  <2>5. queued' \subseteq Files /\ finished' \subseteq Files /\ queued' \cap finished' = {} BY <2>1
  <2> QED BY <1>5, <2>2, <2>3, <2>4, <2>5 DEF AddFile, shareVars
<1>6. ASSUME NEW f \in Files, RemoveFile(f) PROVE TypeOK'
  <2>1. place' \in [Files -> {"none", "temp"} \cup MoveResults] BY <1>6 DEF RemoveFile
  <2> QED BY <1>6, <2>1 DEF RemoveFile, diskVars, shareVars
<1>7. CASE RemoveBundleItem
  <2>1. queued' \subseteq queued /\ finished' \subseteq finished BY <1>7 DEF RemoveBundleItem
  <2>2. alive' \in BOOLEAN /\ dirty' \in BOOLEAN /\ xml' \in Xmls
        /\ delayed' \in {"none", "waiting", "check", "update"}
    BY <1>7 DEF RemoveBundleItem, AddEvent
  <2> QED BY <1>7, <2>1, <2>2 DEF RemoveBundleItem, shareVars, Nobody
<1>8. CASE Restart
  <2>1. queued' \subseteq Files /\ finished' \subseteq Files BY <1>8 DEF Restart, Loaded
  <2>2. queued' \cap finished' = {} BY <1>8 DEF Restart, Loaded
  <2>3. known' \subseteq Files BY <1>8, <2>1 DEF Restart
  <2>4. fileStatus' \in [Files -> FileStatuses] BY <1>8 DEF Restart, FileStatuses
  <2>5. place' \in [Files -> {"none", "temp"} \cup MoveResults] BY <1>8 DEF Restart
  <2>6. dl' \in [Files -> {"idle", "downloaded", "last", "taken"}] BY <1>8 DEF Restart
  <2>7. <<ShareTask(FALSE)>> \in Seq(Tasks)
    <3>1. ShareTask(FALSE) \in Tasks OBVIOUS
    <3> QED BY <3>1, OneTask
  <2>8. tasks' \in Seq(Tasks) BY <1>8, <2>7, EmptyTasks DEF Restart
  <2>9. status' \in BundleStatuses BY <1>8 DEF Restart, BundleStatuses
  <2>10. paused' \in BOOLEAN /\ xml' \in Xmls BY <1>8 DEF Restart, Xmls
  <2>11. crashes' \in 0 .. MaxCrashes BY <1>8, BundleAssumption DEF Restart
  <2>12. work' \in [task : Tasks \cup {Task("none")}, step : Steps, image : Xmls] BY <1>8 DEF Restart
  <2>13. alive' \in BOOLEAN BY <1>8 DEF Restart
  <2> QED
    BY <1>8, <2>1, <2>2, <2>3, <2>4, <2>5, <2>6, <2>8, <2>9, <2>10, <2>11, <2>12, <2>13 DEF Restart
<1>9. CASE UNCHANGED vars BY <1>9 DEF vars, itemVars, diskVars, shareVars
<1> QED
  BY <1>1, <1>2, <1>3, <1>4, <1>5, <1>6, <1>7, <1>8, <1>9, WorkerTypeOK DEF Next

\* Every state has its types, whatever happens.
THEOREM TypesKept == Spec => []TypeOK
BY InitTypeOK, NextTypeOK, PTL DEF Spec

-----------------------------------------------------------------------------
(* Who has tasks of which kind.                                            *)

LEMMA TasksDiffer ==
  /\ \A f, kind : kind # "file" => Task(kind) # FileTask(f)
  /\ \A f, skip : ShareTask(skip) # FileTask(f)
  /\ \A f, g : FileTask(f) = FileTask(g) => f = g
  /\ \A skip, kind : kind # "share" => Task(kind) # ShareTask(skip)
BY TaskKinds

LEMMA ShareTasksDiffer ==
  /\ ShareTask(TRUE) # ShareTask(FALSE)
  /\ \A kind : kind # "share" => \A skip : Task(kind) # ShareTask(skip)
<1>1. ShareTask(TRUE).skip = TRUE /\ ShareTask(FALSE).skip = FALSE BY DEF ShareTask, Task
<1>2. ASSUME ShareTask(TRUE) = ShareTask(FALSE) PROVE FALSE
  <2>1. ShareTask(TRUE).skip = ShareTask(FALSE).skip BY <1>2, Zenon
  <2>2. TRUE = FALSE BY <1>1, <2>1, Zenon
  <2> QED BY <2>2
<1> QED BY <1>2, TasksDiffer

LEMMA WorkingFile ==
  ASSUME TypeOK, work.task.kind = "file"
  PROVE  work.task.file \in Files /\ work.task = FileTask(work.task.file)
BY TaskKinds DEF TypeOK, Tasks

LEMMA Appended ==
  ASSUME TypeOK
  PROVE  /\ \A t \in Tasks : Range(Append(tasks, t)) = Range(tasks) \cup {t}
         /\ tasks # <<>> => Range(tasks) = Range(Tail(tasks)) \cup {Head(tasks)}
<1>1. tasks \in Seq(Tasks) BY DEF TypeOK
<1> QED BY <1>1, RangeOfTasks, RangeOfTail

LEMMA WorkingSteps ==
  ASSUME TypeOK
  PROVE  /\ \A step : GoTo(step) => /\ work'.task = work.task
                                   /\ work'.step = step
                                   /\ work'.image = work.image
         /\ TaskDone => work' = Idle
         /\ Idle.task = Task("none") /\ Idle.step = "none"
         /\ \A f : Idle.task # FileTask(f)
<1>1. Idle.task = Task("none") /\ Idle.step = "none" BY DEF Idle, Working
<1>2. \A f : Idle.task # FileTask(f) BY <1>1, TasksDiffer
<1>3. \A step : GoTo(step) => work'.task = work.task /\ work'.step = step /\ work'.image = work.image
  BY DEF GoTo, TypeOK
<1> QED BY <1>1, <1>2, <1>3 DEF TaskDone

\* Only the end of a connection's work on a file adds a task for it.
LEMMA NoNewTasks ==
  ASSUME TypeOK, NEW f \in Files, [Next]_vars, ~MoveFile(f), HasTask(f)'
  PROVE  HasTask(f)
<1> DEFINE Fewer == Range(tasks') \subseteq Range(tasks) \cup {t \in Tasks : t # FileTask(f)}
<1>a. TypeOK' BY NextTypeOK
<1>1. ASSUME Fewer, work'.task = work.task \/ work'.task # FileTask(f) PROVE HasTask(f)
  BY <1>1 DEF HasTask
<1>2. /\ \A t \in Tasks : t # FileTask(f) /\ tasks' = Append(tasks, t) => Fewer
      /\ tasks' = tasks => Fewer
  BY Appended
<1>3. \A kind \in {"check", "update", "pause", "resume", "save"} : Task(kind) \in Tasks /\ Task(kind) # FileTask(f)
  BY TasksDiffer DEF Tasks
<1>4. \A skip \in BOOLEAN : ShareTask(skip) \in Tasks /\ ShareTask(skip) # FileTask(f)
  BY TasksDiffer DEF Tasks
<1>5. ASSUME NEW g \in Files, FinishFile(g) \/ TakeFile(g) \/ FinishBundle(g) PROVE HasTask(f)
  BY <1>5 DEF HasTask, FinishFile, TakeFile, FinishBundle
<1>6. ASSUME NEW g \in Files, MoveFile(g) PROVE HasTask(f)
  <2>1. g # f BY <1>6
  <2>2. FileTask(g) \in Tasks /\ FileTask(g) # FileTask(f) BY <2>1, TasksDiffer DEF Tasks
  <2> QED BY <1>1, <1>2, <1>6, <2>2 DEF MoveFile, AddTask
<1>7. CASE StartTask
  <2>1. work'.task = Head(tasks) BY <1>7 DEF StartTask, Working
  <2> QED BY <1>7, <2>1, Appended DEF StartTask, HasTask
<1>8. CASE RunFileHooks \/ FileHooksAnswer \/ StartCheck
  BY <1>8, <1>1, <1>2, WorkingSteps DEF RunFileHooks, FileHooksAnswer, StartCheck
<1>9. CASE CheckFinished
  <2>1. Fewer BY <1>9, <1>2, <1>3, <1>4 DEF CheckFinished
  <2> QED BY <1>9, <2>1, <1>1, WorkingSteps DEF CheckFinished
<1>10. CASE FailBundle
  <2>1. Fewer BY <1>10, <1>2, <1>3 DEF FailBundle
  <2> QED BY <1>10, <2>1, <1>1, WorkingSteps DEF FailBundle
<1>11. CASE StartShare \/ RevalidateFiles \/ RunBundleHooks \/ BundleHooksAnswer \/ ShareBundle
  <2>1. tasks' = tasks
    BY <1>11 DEF StartShare, RevalidateFiles, RunBundleHooks, BundleHooksAnswer, ShareBundle
  <2>2. work'.task = work.task \/ work'.task # FileTask(f)
    BY <1>11, WorkingSteps DEF StartShare, RevalidateFiles, RunBundleHooks, BundleHooksAnswer, ShareBundle
  <2> QED BY <2>1, <2>2, <1>1, <1>2
<1>12. CASE RunUpdate \/ RunPause \/ RunResume \/ RenameSaved
  <2>1. tasks' = tasks /\ TaskDone BY <1>12 DEF RunUpdate, RunPause, RunResume, RenameSaved
  <2> QED BY <2>1, <1>1, <1>2, WorkingSteps
<1>13. CASE StartSave
  <2>1. tasks' = tasks BY <1>13 DEF StartSave
  <2>2. work'.task = work.task \/ work'.task # FileTask(f)
    BY <1>13, WorkingSteps DEF StartSave, TypeOK
  <2> QED BY <2>1, <2>2, <1>1, <1>2
<1>14. CASE SaveTick \/ MinuteTick \/ DelayedEvent
  <2>1. Fewer BY <1>14, <1>2, <1>3 DEF SaveTick, MinuteTick, DelayedEvent, AddTask
  <2> QED BY <1>14, <2>1, <1>1 DEF SaveTick, MinuteTick, DelayedEvent
<1>15. CASE ShareRefreshed \/ SetShared \/ CheckDiskSpace \/ RemoveBundleItem \/ \E g \in Files : RemoveFile(g)
  BY <1>15 DEF ShareRefreshed, SetShared, CheckDiskSpace, RemoveBundleItem, RemoveFile, HasTask
<1>16. CASE DownloadError
  <2>1. Fewer BY <1>16, <1>2, <1>3 DEF DownloadError
  <2> QED BY <1>16, <2>1, <1>1 DEF DownloadError
<1>17. ASSUME NEW skip \in BOOLEAN, RequestShare(skip) PROVE HasTask(f)
  BY <1>17, <1>1, <1>2, <1>4 DEF RequestShare, AddTask
<1>18. ASSUME NEW g \in Files, AddFile(g) PROVE HasTask(f)
  <2>1. Fewer BY <1>18, <1>2, <1>3 DEF AddFile, AddTask
  <2> QED BY <1>18, <2>1, <1>1 DEF AddFile
<1>19. CASE Restart
  <2>1. Range(tasks') \subseteq {ShareTask(FALSE)} /\ work' = Idle
    BY <1>19, OneTask, EmptyTasks, <1>4 DEF Restart
  <2> QED BY <2>1, <1>1, <1>4, WorkingSteps
<1>20. CASE UNCHANGED vars BY <1>20 DEF vars, HasTask
<1> QED
  BY <1>5, <1>6, <1>7, <1>8, <1>9, <1>10, <1>11, <1>12, <1>13, <1>14, <1>15, <1>16, <1>17, <1>18, <1>19, <1>20
  DEF Next, WorkerStep

\* Nothing happens to a bundle that has been removed.
LEMMA StaysGone ==
  ASSUME [Next]_vars, alive'
  PROVE  alive
BY DEF Next, vars, FinishFile, TakeFile, FinishBundle, MoveFile, WorkerStep, StartTask, RunFileHooks, At,
   FileHooksAnswer, StartCheck, CheckFinished, FailBundle, StartShare, RevalidateFiles, RunBundleHooks,
   BundleHooksAnswer, ShareBundle, RunUpdate, RunPause, RunResume, StartSave, RenameSaved, SaveTick,
   MinuteTick, DelayedEvent, ShareRefreshed, SetShared, DownloadError, CheckDiskSpace, RequestShare,
   MayInterfere, AddFile, RemoveFile, RemoveBundleItem, Restart

-----------------------------------------------------------------------------
(* A file is validated after it has been moved, whoever removes or adds    *)
(* files meanwhile.                                                        *)

Moving ==
    \A f \in known :
        /\ HasTask(f) => place[f] \in MoveResults /\ fileStatus[f] # "queued"
        /\ fileStatus[f] \in {"validating", "invalid", "completed"} => place[f] \in MoveResults
        /\ dl[f] # "idle" => place[f] # "none" /\ fileStatus[f] # "queued"

MInv == alive => Moving

LEMMA InitMInv == Init => MInv
<1> SUFFICES ASSUME Init PROVE MInv OBVIOUS
<1>1. Range(tasks) = {} /\ \A f : work.task # FileTask(f)
  <2>1. work.task = Task("none") BY DEF Init, Idle, Working
  <2> QED BY <2>1, TasksDiffer, EmptyTasks DEF Init
<1> QED BY <1>1, BundleAssumption DEF Init, MInv, Moving, HasTask

LEMMA NextMInv == TypeOK /\ MInv /\ [Next]_vars => MInv'
<1> SUFFICES ASSUME TypeOK, MInv, [Next]_vars, alive', NEW f \in known'
             PROVE  /\ HasTask(f)' => place'[f] \in MoveResults /\ fileStatus'[f] # "queued"
                    /\ fileStatus'[f] \in {"validating", "invalid", "completed"} => place'[f] \in MoveResults
                    /\ dl'[f] # "idle" => place'[f] # "none" /\ fileStatus'[f] # "queued"
  BY DEF MInv, Moving
<1>a. alive BY StaysGone
<1>f. f \in Files BY NextTypeOK DEF TypeOK
<1>t. ~MoveFile(f) /\ HasTask(f)' => HasTask(f) BY <1>f, NoNewTasks
<1>m. f \in known =>
        /\ HasTask(f) => place[f] \in MoveResults /\ fileStatus[f] # "queued"
        /\ fileStatus[f] \in {"validating", "invalid", "completed"} => place[f] \in MoveResults
        /\ dl[f] # "idle" => place[f] # "none" /\ fileStatus[f] # "queued"
  BY <1>a DEF MInv, Moving
<1>y. /\ fileStatus \in [Files -> FileStatuses] /\ place \in [Files -> {"none", "temp"} \cup MoveResults]
      /\ dl \in [Files -> {"idle", "downloaded", "last", "taken"}]
  BY DEF TypeOK
<1> DEFINE Moved ==
      /\ HasTask(f)' => place'[f] \in MoveResults /\ fileStatus'[f] # "queued"
      /\ fileStatus'[f] \in {"validating", "invalid", "completed"} => place'[f] \in MoveResults
      /\ dl'[f] # "idle" => place'[f] # "none" /\ fileStatus'[f] # "queued"
<1>s. ASSUME f \in known, ~MoveFile(f), UNCHANGED << fileStatus, place, dl >> PROVE Moved
  BY <1>s, <1>t, <1>m
<1>1. ASSUME NEW g \in Files, FinishFile(g) PROVE Moved
  <2>1. f \in known /\ ~MoveFile(f) BY <1>1, <1>y DEF FinishFile, MoveFile, itemVars
  <2>2. CASE f # g BY <1>1, <2>1, <2>2, <1>t, <1>m, <1>y, <1>f DEF FinishFile
  <2>3. CASE f = g
    <3>1. fileStatus'[f] = "downloaded" /\ place'[f] = "temp" BY <1>1, <2>3, <1>y, <1>f DEF FinishFile
    <3>2. fileStatus[f] = "queued" BY <1>1, <2>3 DEF FinishFile
    <3> QED BY <3>1, <3>2, <2>1, <1>t, <1>m
  <2> QED BY <2>2, <2>3
<1>2. ASSUME NEW g \in Files, TakeFile(g) \/ FinishBundle(g) PROVE Moved
  <2>1. f \in known /\ UNCHANGED << fileStatus, place, tasks, work >>
    BY <1>2 DEF TakeFile, FinishBundle, itemVars
  <2>2. dl[f] = "idle" => dl'[f] = "idle" BY <1>2, <1>y, <1>f DEF TakeFile, FinishBundle
  <2> QED BY <2>1, <2>2, <1>m DEF HasTask
<1>3. ASSUME NEW g \in Files, MoveFile(g) PROVE Moved
  <2>1. f \in known /\ fileStatus' = fileStatus BY <1>3 DEF MoveFile
  <2>2. CASE f # g
    <3>1. dl'[f] = dl[f] /\ place'[f] = place[f] BY <1>3, <2>2, <1>y, <1>f DEF MoveFile
    <3>2. ~MoveFile(f) BY <1>3, <2>2, <1>y, <1>f DEF MoveFile
    <3> QED BY <2>1, <3>1, <3>2, <1>t, <1>m
  <2>3. CASE f = g
    <3>1. dl[f] = "taken" /\ dl'[f] = "idle" BY <1>3, <2>3, <1>y, <1>f DEF MoveFile
    <3>2. place'[f] \in MoveResults \/ (place[f] # "temp" /\ place'[f] = place[f])
      BY <1>3, <2>3, <1>y, <1>f DEF MoveFile
    <3>3. place[f] # "none" /\ fileStatus[f] # "queued" BY <3>1, <2>1, <1>m
    <3> QED BY <2>1, <3>1, <3>2, <3>3, <1>y, <1>f
  <2> QED BY <2>2, <2>3
<1>4. CASE RunFileHooks \/ FileHooksAnswer
  <2>1. /\ f \in known /\ UNCHANGED << place, dl >>
        /\ work.task.kind = "file"
    BY <1>4 DEF RunFileHooks, FileHooksAnswer, At
  <2>2. ~MoveFile(f) BY <2>1, <1>4, <1>y, <1>f DEF MoveFile
  <2>3. CASE work.task.file # f
    <3>1. fileStatus'[f] = fileStatus[f] BY <2>3, <1>4, <1>y, <1>f DEF RunFileHooks, FileHooksAnswer
    <3> QED BY <2>1, <2>2, <3>1, <1>t, <1>m
  <2>4. CASE work.task.file = f
    <3>1. HasTask(f) BY <2>1, <2>4, WorkingFile DEF HasTask
    <3>2. fileStatus'[f] # "queued" BY <2>4, <1>4, <1>y, <1>f DEF RunFileHooks, FileHooksAnswer
    <3> QED BY <2>1, <3>1, <3>2, <1>m
  <2> QED BY <2>3, <2>4
<1>5. CASE RevalidateFiles
  <2>1. /\ f \in known /\ UNCHANGED << place, dl >>
        /\ fileStatus'[f] = fileStatus[f] \/ (fileStatus[f] = "invalid" /\ fileStatus'[f] = "completed")
    BY <1>5, <1>f DEF RevalidateFiles, Failed
  <2>2. ~MoveFile(f) BY <2>1, <1>5, <1>y, <1>f DEF MoveFile
  <2> QED BY <2>1, <2>2, <1>t, <1>m
<1>6. ASSUME WorkerStep, ~RunFileHooks, ~FileHooksAnswer, ~RevalidateFiles PROVE Moved
  <2>1. f \in known /\ UNCHANGED << fileStatus, place, dl >>
    BY <1>6 DEF WorkerStep, StartTask, StartCheck, CheckFinished, FailBundle, StartShare, RunBundleHooks,
       BundleHooksAnswer, ShareBundle, RunUpdate, RunPause, RunResume, StartSave, RenameSaved, itemVars
  <2>2. ~MoveFile(f) BY <2>1, <1>y, <1>f DEF MoveFile
  <2> QED BY <2>1, <2>2, <1>s
<1>7. ASSUME SaveTick \/ MinuteTick \/ DelayedEvent \/ ShareRefreshed \/ SetShared \/ DownloadError
             \/ CheckDiskSpace \/ RemoveBundleItem \/ (\E skip \in BOOLEAN : RequestShare(skip)) \/ UNCHANGED vars
      PROVE  Moved
  <2>1. f \in known /\ UNCHANGED << fileStatus, place, dl >>
    BY <1>7 DEF SaveTick, MinuteTick, DelayedEvent, ShareRefreshed, SetShared, DownloadError, CheckDiskSpace,
       RemoveBundleItem, RequestShare, vars, itemVars
  <2>2. ~MoveFile(f) BY <2>1, <1>y, <1>f DEF MoveFile
  <2> QED BY <2>1, <2>2, <1>s
<1>8. ASSUME NEW g \in Files, AddFile(g) PROVE Moved
  <2>1. ~MoveFile(f) BY <1>8, <1>y, <1>f DEF MoveFile, AddFile
  <2>2. dl' = dl BY <1>8 DEF AddFile
  <2>3. CASE f = g
    <3>1. fileStatus'[f] = "queued" /\ dl[f] = "idle" /\ ~HasTask(f)
      BY <1>8, <2>3, <1>y, <1>f DEF AddFile
    <3> QED BY <3>1, <2>1, <2>2, <1>t
  <2>4. CASE f # g
    <3>1. f \in known BY <1>8, <2>4 DEF AddFile
    <3>2. fileStatus'[f] = fileStatus[f] /\ place'[f] = place[f] BY <1>8, <2>4, <1>y, <1>f DEF AddFile
    <3> QED BY <3>1, <3>2, <2>1, <2>2, <1>t, <1>m
  <2> QED BY <2>3, <2>4
<1>9. ASSUME NEW g \in Files, RemoveFile(g) PROVE Moved
  <2>1. f \in known /\ f # g /\ UNCHANGED << fileStatus, dl, tasks, work >> BY <1>9 DEF RemoveFile
  <2>2. place'[f] = place[f] BY <1>9, <2>1, <1>y, <1>f DEF RemoveFile
  <2> QED BY <2>1, <2>2, <1>m DEF HasTask
<1>10. CASE Restart
  <2>1. dl'[f] = "idle" /\ f \in queued' \cup finished' BY <1>10, <1>f DEF Restart
  <2>2. ~HasTask(f)'
    <3>1. Range(tasks') \subseteq {ShareTask(FALSE)} /\ work' = Idle
      BY <1>10, OneTask, EmptyTasks DEF Restart, Tasks
    <3> QED BY <3>1, WorkingSteps, TasksDiffer DEF HasTask
  <2>3. CASE f \in finished'
    <3>1. f \notin queued' /\ place[f] = "target" BY <1>10, <2>3 DEF Restart, Loaded
    <3>2. place'[f] = "target" BY <1>10, <3>1, <1>f DEF Restart
    <3>3. "target" \in MoveResults BY <3>1, <1>y, <1>f
    <3> QED BY <2>1, <2>2, <3>2, <3>3
  <2>4. CASE f \notin finished'
    <3>1. fileStatus'[f] = "queued" BY <1>10, <2>4, <1>f DEF Restart
    <3> QED BY <2>1, <2>2, <3>1
  <2> QED BY <2>3, <2>4
<1> QED BY <1>1, <1>2, <1>3, <1>4, <1>5, <1>6, <1>7, <1>8, <1>9, <1>10 DEF Next

\* A file that has passed its hooks is where renameDownloadedFile has moved it: at its
\* target unless the move has failed, also when requests and restarts meet the task
\* that validates it.
THEOREM ValidatedAtTarget == Spec => []ValidatedInPlace
<1>1. MInv => ValidatedInPlace BY DEF MInv, Moving, ValidatedInPlace
<1> QED BY <1>1, InitTypeOK, NextTypeOK, InitMInv, NextMInv, PTL DEF Spec

-----------------------------------------------------------------------------
(* Where the files are while no request meets a finishing bundle: who is   *)
(* at work on a file decides its status, and there is one of them.         *)

Waiting(f) == FileTask(f) \in Range(tasks)
Worked(f) == work.task = FileTask(f)

OnceIn(s) == \A i, j \in DOMAIN s : s[i] = s[j] /\ s[i].kind = "file" => i = j

FileOK(f) ==
    /\ dl[f] = "downloaded" => f \in queued /\ fileStatus[f] = "downloaded"
    /\ dl[f] \in {"last", "taken"} => f \in finished /\ fileStatus[f] = "downloaded"
    /\ Waiting(f) => f \in finished /\ fileStatus[f] = "downloaded" /\ dl[f] = "idle"
    /\ Worked(f) =>
          /\ ~Waiting(f) /\ f \in finished /\ dl[f] = "idle"
          /\ work.step \in {"start", "hooks", "check", "fail"}
          /\ work.step = "start" => fileStatus[f] = "downloaded"
          /\ work.step = "hooks" => fileStatus[f] = "validating"
          /\ work.step \in {"check", "fail"} => fileStatus[f] \in {"completed", "invalid"}
    /\ f \in queued => fileStatus[f] = "queued" \/ dl[f] = "downloaded"
    /\ f \in finished =>
          /\ fileStatus[f] # "queued"
          /\ fileStatus[f] = "downloaded" => dl[f] # "idle" \/ HasTask(f)
          /\ fileStatus[f] = "validating" => Worked(f)
    /\ remover = f => f \notin known /\ dl[f] = "idle" /\ ~HasTask(f)
    /\ f \in queued \cup finished => f \in known \/ remover = f

FilesOK == OnceIn(tasks) /\ \A f \in Files : FileOK(f)

FInv == ~Overlap /\ (alive => FilesOK)

LEMMA OnceAppended ==
  ASSUME TypeOK, OnceIn(tasks), NEW t \in Tasks, t.kind = "file" => t \notin Range(tasks)
  PROVE  OnceIn(Append(tasks, t))
<1>1. tasks \in Seq(Tasks) /\ Len(tasks) \in Nat /\ DOMAIN tasks = 1 .. Len(tasks) BY DEF TypeOK
<1>2. /\ DOMAIN Append(tasks, t) = 1 .. Len(tasks) + 1
      /\ Append(tasks, t)[Len(tasks) + 1] = t
      /\ \A i \in 1 .. Len(tasks) : Append(tasks, t)[i] = tasks[i]
  BY <1>1
<1>3. SUFFICES ASSUME NEW i \in 1 .. Len(tasks) + 1, NEW j \in 1 .. Len(tasks) + 1,
                      Append(tasks, t)[i] = Append(tasks, t)[j], Append(tasks, t)[i].kind = "file"
               PROVE  i = j
  BY <1>2 DEF OnceIn
<1>4. CASE i \in 1 .. Len(tasks) /\ j \in 1 .. Len(tasks) BY <1>1, <1>2, <1>3, <1>4 DEF OnceIn
<1>5. CASE i = Len(tasks) + 1 /\ j \in 1 .. Len(tasks)
  <2>1. t = tasks[j] BY <1>2, <1>3, <1>5
  <2>2. t \in Range(tasks) BY <2>1, <1>1, <1>5 DEF Range
  <2> QED BY <2>2, <1>2, <1>3, <1>5
<1>6. CASE j = Len(tasks) + 1 /\ i \in 1 .. Len(tasks)
  <2>1. t = tasks[i] BY <1>2, <1>3, <1>6
  <2>2. t \in Range(tasks) BY <2>1, <1>1, <1>6 DEF Range
  <2> QED BY <2>2, <1>2, <1>3, <1>6
<1> QED BY <1>1, <1>4, <1>5, <1>6

LEMMA OnceTaken ==
  ASSUME TypeOK, OnceIn(tasks), tasks # <<>>
  PROVE  OnceIn(Tail(tasks)) /\ (Head(tasks).kind = "file" => Head(tasks) \notin Range(Tail(tasks)))
<1>1. /\ tasks \in Seq(Tasks) /\ Len(tasks) \in Nat /\ Len(tasks) >= 1 /\ DOMAIN tasks = 1 .. Len(tasks)
      /\ Head(tasks) = tasks[1]
  BY DEF TypeOK
<1>2. /\ DOMAIN Tail(tasks) = 1 .. Len(tasks) - 1
      /\ \A i \in 1 .. Len(tasks) - 1 : Tail(tasks)[i] = tasks[i + 1]
  BY <1>1
<1>3. OnceIn(Tail(tasks))
  <2> SUFFICES ASSUME NEW i \in 1 .. Len(tasks) - 1, NEW j \in 1 .. Len(tasks) - 1,
                      tasks[i + 1] = tasks[j + 1], tasks[i + 1].kind = "file"
               PROVE  i = j
    BY <1>2 DEF OnceIn
  <2>1. i + 1 \in DOMAIN tasks /\ j + 1 \in DOMAIN tasks BY <1>1
  <2> QED BY <2>1 DEF OnceIn
<1>4. ASSUME Head(tasks).kind = "file", Head(tasks) \in Range(Tail(tasks)) PROVE FALSE
  <2>1. PICK i \in 1 .. Len(tasks) - 1 : tasks[1] = tasks[i + 1] BY <1>1, <1>2, <1>4 DEF Range
  <2>2. 1 \in DOMAIN tasks /\ i + 1 \in DOMAIN tasks /\ i + 1 # 1 BY <1>1
  <2> QED BY <2>1, <2>2, <1>1, <1>4 DEF OnceIn
<1> QED BY <1>3, <1>4

\* Nothing was on its way when a request came.
LEMMA RestFacts ==
  ASSUME TypeOK, AtRest, NEW f \in Files
  PROVE  ~HasTask(f) /\ dl[f] = "idle" /\ remover = Nobody /\ remover # f /\ Range(tasks) = {}
<1>1. Range(tasks) = {} BY EmptyTasks DEF AtRest
<1>2. work.task # FileTask(f) BY WorkingSteps DEF AtRest
<1> QED BY <1>1, <1>2, BundleAssumption DEF AtRest, HasTask, Nobody

LEMMA InitFInv == Init /\ ~Overlap => FInv
<1> SUFFICES ASSUME Init, ~Overlap PROVE FInv OBVIOUS
<1>1. Range(tasks) = {} /\ \A f : work.task # FileTask(f)
  <2>1. work.task = Task("none") BY DEF Init, Idle, Working
  <2> QED BY <2>1, TasksDiffer, EmptyTasks DEF Init
<1>2. OnceIn(tasks) BY DEF Init, OnceIn
<1>3. ASSUME NEW f \in Files PROVE FileOK(f)
  BY <1>1, BundleAssumption DEF Init, FileOK, Waiting, Worked, HasTask, Nobody
<1> QED BY <1>2, <1>3 DEF FInv, FilesOK

\* Steps that do not touch files, but perhaps end or go on with another task.
LEMMA QuietTasks ==
  ASSUME TypeOK, OnceIn(tasks)
  PROVE  /\ \A t \in Tasks : t.kind # "file" /\ tasks' = Append(tasks, t)
              => OnceIn(tasks') /\ \A f \in Files : Waiting(f)' <=> Waiting(f)
         /\ tasks' = tasks => OnceIn(tasks') /\ \A f \in Files : Waiting(f)' <=> Waiting(f)
<1>1. ASSUME NEW t \in Tasks, t.kind # "file", tasks' = Append(tasks, t)
      PROVE  OnceIn(tasks') /\ \A f \in Files : Waiting(f)' <=> Waiting(f)
  <2>1. \A f : FileTask(f) # t BY <1>1, TaskKinds
  <2>2. Range(tasks') = Range(tasks) \cup {t} BY <1>1, Appended
  <2> QED BY <1>1, <2>1, <2>2, OnceAppended DEF Waiting
<1> QED BY <1>1 DEF Waiting

LEMMA NextFInv == TypeOK /\ FInv /\ [Next]_vars => FInv'
<1> SUFFICES ASSUME TypeOK, FInv, [Next]_vars, alive' PROVE FilesOK' BY DEF FInv
<1>a. alive /\ ~Overlap /\ FilesOK BY StaysGone DEF FInv
<1>o. OnceIn(tasks) BY <1>a DEF FilesOK
<1>y. /\ fileStatus \in [Files -> FileStatuses] /\ place \in [Files -> {"none", "temp"} \cup MoveResults]
      /\ dl \in [Files -> {"idle", "downloaded", "last", "taken"}]
      /\ queued \cap finished = {}
  BY DEF TypeOK
<1>q. /\ \A t \in Tasks : t.kind # "file" /\ tasks' = Append(tasks, t)
              => OnceIn(tasks') /\ \A f \in Files : Waiting(f)' <=> Waiting(f)
      /\ tasks' = tasks => OnceIn(tasks') /\ \A f \in Files : Waiting(f)' <=> Waiting(f)
  BY <1>o, QuietTasks
<1>c. /\ \A kind \in {"check", "update", "pause", "resume", "save"} : Task(kind) \in Tasks /\ Task(kind).kind # "file"
      /\ \A skip \in BOOLEAN : ShareTask(skip) \in Tasks /\ ShareTask(skip).kind # "file"
  BY TaskKinds DEF Tasks
<1> DEFINE Same(f) ==
             /\ f \in queued' <=> f \in queued
             /\ f \in finished' <=> f \in finished
             /\ f \in known' <=> f \in known
             /\ fileStatus'[f] = fileStatus[f] /\ dl'[f] = dl[f]
             /\ remover' = f <=> remover = f
           SameTasks(f) ==
             /\ Waiting(f)' <=> Waiting(f)
             /\ Worked(f)' <=> Worked(f)
             /\ Worked(f) => work'.step = work.step
<1>k. ASSUME NEW f \in Files, Same(f), SameTasks(f) PROVE FileOK(f)'
  <2>1. FileOK(f) BY <1>a DEF FilesOK
  <2>2. HasTask(f)' <=> HasTask(f) BY <1>k DEF HasTask, Waiting, Worked
  <2> QED BY <1>k, <2>1, <2>2 DEF FileOK
<1>w. ASSUME work.task.kind # "file", \/ \E step : GoTo(step)
                                     \/ TaskDone
                                     \/ work'.task = work.task, NEW f \in Files
      PROVE  ~Worked(f) /\ ~Worked(f)'
  BY <1>w, WorkingSteps, TaskKinds DEF Worked
<1>s. ASSUME UNCHANGED << queued, finished, known, fileStatus, dl, remover >>, NEW f \in Files PROVE Same(f)
  BY <1>s
<1>1. ASSUME NEW g \in Files, FinishFile(g) PROVE FilesOK'
  <2>1. OnceIn(tasks') /\ \A f \in Files : SameTasks(f) BY <1>1, <1>q DEF FinishFile, Worked
  <2>2. ASSUME NEW f \in Files PROVE FileOK(f)'
    <3>1. CASE f # g
      <4>1. Same(f) BY <1>1, <3>1, <1>y DEF FinishFile
      <4> QED BY <4>1, <2>1, <1>k
    <3>2. CASE f = g
      <4>1. /\ g \in queued /\ g \in known /\ fileStatus[g] = "queued" /\ dl[g] = "idle"
            /\ fileStatus'[g] = "downloaded" /\ dl'[g] = "downloaded"
            /\ UNCHANGED << queued, finished, known, remover >>
        BY <1>1, <1>y DEF FinishFile
      <4>2. FileOK(g) BY <1>a DEF FilesOK
      <4>3. ~Waiting(g) /\ ~Worked(g) /\ g \notin finished /\ remover # g BY <4>1, <4>2, <1>y DEF FileOK
      <4> QED BY <3>2, <4>1, <4>3, <2>1 DEF FileOK
    <3> QED BY <3>1, <3>2
  <2> QED BY <2>1, <2>2 DEF FilesOK
<1>2. ASSUME NEW g \in Files, TakeFile(g) PROVE FilesOK'
  <2>1. OnceIn(tasks') /\ \A f \in Files : SameTasks(f) BY <1>2, <1>q DEF TakeFile, Worked
  <2>2. ASSUME NEW f \in Files PROVE FileOK(f)'
    <3>1. CASE f # g
      <4>1. Same(f) BY <1>2, <3>1, <1>y DEF TakeFile, TakeOut
      <4> QED BY <4>1, <2>1, <1>k
    <3>2. CASE f = g
      <4>1. /\ dl[g] = "downloaded" /\ dl'[g] \in {"last", "taken"}
            /\ g \in finished' /\ g \notin queued'
            /\ UNCHANGED << known, remover, fileStatus >>
        BY <1>2, <1>y DEF TakeFile, TakeOut
      <4>2. FileOK(g) BY <1>a DEF FilesOK
      <4>3. ~Waiting(g) /\ ~Worked(g) /\ g \in queued /\ fileStatus[g] = "downloaded" /\ remover # g /\ g \in known
        BY <4>1, <4>2, <1>y DEF FileOK
      <4> QED BY <3>2, <4>1, <4>3, <2>1 DEF FileOK
    <3> QED BY <3>1, <3>2
  <2> QED BY <2>1, <2>2 DEF FilesOK
<1>3. ASSUME NEW g \in Files, FinishBundle(g) PROVE FilesOK'
  <2>1. OnceIn(tasks') /\ \A f \in Files : SameTasks(f) BY <1>3, <1>q DEF FinishBundle, Worked
  <2>2. ASSUME NEW f \in Files PROVE FileOK(f)'
    <3>1. CASE f # g
      <4>1. Same(f) BY <1>3, <3>1, <1>y DEF FinishBundle, itemVars
      <4> QED BY <4>1, <2>1, <1>k
    <3>2. CASE f = g
      <4>1. /\ dl[g] = "last" /\ dl'[g] = "taken"
            /\ UNCHANGED << queued, finished, known, remover, fileStatus >>
        BY <1>3, <1>y DEF FinishBundle, itemVars
      <4>2. FileOK(g) BY <1>a DEF FilesOK
      <4>3. HasTask(g)' <=> HasTask(g) BY <2>1 DEF HasTask, Waiting, Worked
      <4> QED BY <3>2, <4>1, <4>2, <4>3, <2>1, <1>y DEF FileOK
    <3> QED BY <3>1, <3>2
  <2> QED BY <2>1, <2>2 DEF FilesOK
<1>4. ASSUME NEW g \in Files, MoveFile(g) PROVE FilesOK'
  <2>1. /\ dl[g] = "taken" /\ dl'[g] = "idle"
        /\ UNCHANGED << queued, finished, known, remover, fileStatus, work >>
        /\ tasks' = Append(tasks, FileTask(g))
    BY <1>4, <1>y DEF MoveFile, AddTask
  <2>2. FileOK(g) BY <1>a DEF FilesOK
  <2>3. ~Waiting(g) /\ ~Worked(g) BY <2>1, <2>2 DEF FileOK
  <2>4. FileTask(g) \in Tasks BY DEF Tasks
  <2>5. OnceIn(tasks') BY <2>1, <2>3, <2>4, <1>o, OnceAppended DEF Waiting
  <2>6. Range(tasks') = Range(tasks) \cup {FileTask(g)} BY <2>1, <2>4, Appended
  <2>7. ASSUME NEW f \in Files PROVE FileOK(f)'
    <3>1. CASE f # g
      <4>1. Same(f) BY <1>4, <3>1, <1>y DEF MoveFile
      <4>2. SameTasks(f) BY <2>1, <2>6, <3>1, TasksDiffer DEF Waiting, Worked
      <4> QED BY <4>1, <4>2, <1>k
    <3>2. CASE f = g
      <4>1. Waiting(g)' /\ ~Worked(g)' /\ HasTask(g)' BY <2>1, <2>3, <2>6 DEF Waiting, Worked, HasTask
      <4>2. g \in finished /\ fileStatus[g] = "downloaded" /\ g \notin queued BY <2>1, <2>2, <1>y DEF FileOK
      <4>3. remover # g /\ g \in known BY <2>1, <2>2, <4>2 DEF FileOK
      <4> QED BY <3>2, <2>1, <4>1, <4>2, <4>3 DEF FileOK
    <3> QED BY <3>1, <3>2
  <2> QED BY <2>5, <2>7 DEF FilesOK
<1>5. CASE StartTask
  <2>1. /\ tasks # <<>> /\ tasks' = Tail(tasks) /\ work = Idle
        /\ work'.task = Head(tasks) /\ work'.step = "start"
        /\ UNCHANGED << queued, finished, known, fileStatus, dl, remover >>
    BY <1>5 DEF StartTask, Working, itemVars
  <2>2. OnceIn(tasks') /\ (Head(tasks).kind = "file" => Head(tasks) \notin Range(tasks'))
    BY <2>1, <1>o, OnceTaken
  <2>3. Range(tasks) = Range(tasks') \cup {Head(tasks)} BY <2>1, Appended
  <2>4. ASSUME NEW f \in Files PROVE FileOK(f)'
    <3>0. Same(f) /\ ~Worked(f) BY <2>1, <1>s, WorkingSteps DEF Worked
    <3>1. CASE Head(tasks) # FileTask(f)
      <4>1. SameTasks(f) BY <3>0, <3>1, <2>1, <2>3 DEF Waiting, Worked
      <4> QED BY <3>0, <4>1, <1>k
    <3>2. CASE Head(tasks) = FileTask(f)
      <4>1. FileOK(f) /\ Waiting(f) BY <1>a, <2>3, <3>2 DEF FilesOK, Waiting
      <4>2. ~Waiting(f)' /\ Worked(f)' /\ HasTask(f)' BY <2>1, <2>2, <3>2, TaskKinds DEF Waiting, Worked, HasTask
      <4>3. f \in finished /\ fileStatus[f] = "downloaded" /\ dl[f] = "idle" /\ HasTask(f)
        BY <4>1 DEF FileOK, HasTask, Waiting
      <4>4. remover # f /\ f \in known BY <4>1, <4>3 DEF FileOK
      <4> QED BY <3>0, <4>1, <4>2, <4>3, <4>4, <2>1, <1>y DEF FileOK
    <3> QED BY <3>1, <3>2
  <2> QED BY <2>2, <2>4 DEF FilesOK
<1>6. CASE RunFileHooks \/ FileHooksAnswer
  <2>1. /\ work.task.kind = "file" /\ tasks' = tasks /\ work'.task = work.task
        /\ UNCHANGED << queued, finished, known, dl, remover >>
    BY <1>6, WorkingSteps DEF RunFileHooks, FileHooksAnswer, At
  <2>2. PICK g \in Files : g = work.task.file /\ work.task = FileTask(g) BY <2>1, WorkingFile
  <2>3. OnceIn(tasks') /\ \A f \in Files : Waiting(f)' <=> Waiting(f) BY <2>1, <1>q
  <2>4. ASSUME NEW f \in Files PROVE FileOK(f)'
    <3>1. CASE f # g
      <4>1. fileStatus'[f] = fileStatus[f] BY <1>6, <2>2, <3>1, <1>y DEF RunFileHooks, FileHooksAnswer
      <4>2. ~Worked(f) /\ ~Worked(f)' BY <2>1, <2>2, <3>1, TasksDiffer DEF Worked
      <4> QED BY <4>1, <4>2, <2>1, <2>3, <1>k
    <3>2. CASE f = g
      <4>1. FileOK(g) /\ Worked(g) BY <1>a, <2>2 DEF FilesOK, Worked
      <4>2. /\ ~Waiting(g) /\ g \in finished /\ dl[g] = "idle" /\ remover # g /\ g \in known /\ g \notin queued
        BY <4>1, <1>y DEF FileOK, HasTask, Worked
      <4>3. Worked(g)' /\ HasTask(g)' BY <2>1, <2>2 DEF Worked, HasTask
      <4>4. \/ work'.step = "hooks" /\ fileStatus'[g] = "validating"
            \/ work'.step = "check" /\ fileStatus'[g] \in {"completed", "invalid"}
        BY <1>6, <2>2, <1>y, WorkingSteps DEF RunFileHooks, FileHooksAnswer
      <4> QED BY <3>2, <4>2, <4>3, <4>4, <2>1, <2>3 DEF FileOK
    <3> QED BY <3>1, <3>2
  <2> QED BY <2>3, <2>4 DEF FilesOK
<1>7. CASE CheckFinished \/ FailBundle
  <2>1. /\ work.step \in {"check", "fail"}
        /\ work' = Idle \/ (work'.task = work.task /\ work'.step \in {"check", "fail"})
        /\ UNCHANGED << queued, finished, known, fileStatus, dl, remover >>
    BY <1>7, WorkingSteps DEF CheckFinished, FailBundle, itemVars
  <2>2. OnceIn(tasks') /\ \A f \in Files : Waiting(f)' <=> Waiting(f)
    <3>1. \/ tasks' = tasks \/ tasks' = Append(tasks, ShareTask(FALSE)) \/ tasks' = Append(tasks, Task("update"))
      BY <1>7 DEF CheckFinished, FailBundle
    <3> QED BY <3>1, <1>q, <1>c
  <2>3. ASSUME NEW f \in Files PROVE FileOK(f)'
    <3>1. Same(f) /\ FileOK(f) BY <2>1, <1>s, <1>a DEF FilesOK
    <3>2. CASE ~Worked(f)
      <4>1. ~Worked(f)' BY <3>2, <2>1, WorkingSteps DEF Worked
      <4> QED BY <3>1, <3>2, <4>1, <2>2, <1>k
    <3>3. CASE Worked(f)
      <4>1. /\ ~Waiting(f) /\ f \in finished /\ dl[f] = "idle" /\ fileStatus[f] \in {"completed", "invalid"}
            /\ remover # f /\ f \in known /\ f \notin queued
        BY <3>1, <3>3, <2>1, <1>y DEF FileOK, HasTask, Worked
      <4>2. Worked(f)' => work'.step \in {"check", "fail"} BY <2>1, WorkingSteps DEF Worked
      <4>3. ~Waiting(f)' /\ fileStatus'[f] \in {"completed", "invalid"} BY <3>1, <4>1, <2>2
      <4> QED BY <3>1, <4>1, <4>2, <4>3 DEF FileOK
    <3> QED BY <3>2, <3>3
  <2> QED BY <2>2, <2>3 DEF FilesOK
<1>8. CASE RevalidateFiles
  <2>1. /\ work.task.kind # "file" /\ tasks' = tasks
        /\ UNCHANGED << queued, finished, known, dl, remover >>
    BY <1>8 DEF RevalidateFiles, At
  <2>2. \A f \in Files : ~Worked(f) /\ ~Worked(f)' BY <2>1, <1>8, <1>w DEF RevalidateFiles
  <2>3. OnceIn(tasks') /\ \A f \in Files : Waiting(f)' <=> Waiting(f) BY <2>1, <1>q
  <2>4. ASSUME NEW f \in Files PROVE FileOK(f)'
    <3>1. CASE fileStatus'[f] = fileStatus[f] BY <3>1, <2>1, <2>2, <2>3, <1>k
    <3>2. CASE fileStatus'[f] # fileStatus[f]
      <4>1. f \in finished /\ fileStatus[f] = "invalid" /\ fileStatus'[f] = "completed"
        BY <1>8, <3>2 DEF RevalidateFiles, Failed
      <4>2. FileOK(f) BY <1>a DEF FilesOK
      <4>3. HasTask(f)' <=> HasTask(f) BY <2>1, <2>2, <2>3 DEF HasTask, Waiting, Worked
      <4> QED BY <4>1, <4>2, <4>3, <2>1, <2>2, <2>3, <1>y DEF FileOK
    <3> QED BY <3>1, <3>2
  <2> QED BY <2>3, <2>4 DEF FilesOK
<1>9. CASE \/ StartCheck \/ StartShare \/ RunBundleHooks \/ BundleHooksAnswer \/ ShareBundle
           \/ RunUpdate \/ RunPause \/ RunResume \/ StartSave \/ RenameSaved
  <2>1. /\ work.task.kind # "file" /\ tasks' = tasks
        /\ UNCHANGED << queued, finished, known, fileStatus, dl, remover >>
    BY <1>9 DEF StartCheck, StartShare, RunBundleHooks, BundleHooksAnswer, ShareBundle, RunUpdate, RunPause,
       RunResume, StartSave, RenameSaved, At, itemVars
  <2>2. (\E step : GoTo(step)) \/ TaskDone \/ work'.task = work.task
    <3>1. StartSave => TaskDone \/ work'.task = work.task
      <4>1. work \in Works BY DEF TypeOK, Works
      <4>2. StartSave => TaskDone \/ work' = [work EXCEPT !.step = "rename", !.image = Image] BY DEF StartSave
      <4> QED BY <4>1, <4>2 DEF Works
    <3> QED BY <1>9, <3>1 DEF StartCheck, StartShare, RunBundleHooks, BundleHooksAnswer, ShareBundle, RunUpdate,
               RunPause, RunResume, RenameSaved
  <2>3. \A f \in Files : ~Worked(f) /\ ~Worked(f)' BY <2>1, <2>2, <1>w
  <2>4. OnceIn(tasks') /\ \A f \in Files : Waiting(f)' <=> Waiting(f) BY <2>1, <1>q
  <2>5. ASSUME NEW f \in Files PROVE FileOK(f)' BY <2>1, <2>3, <2>4, <1>s, <1>k
  <2> QED BY <2>4, <2>5 DEF FilesOK
<1>10. CASE \/ SaveTick \/ MinuteTick \/ DelayedEvent \/ ShareRefreshed \/ SetShared \/ DownloadError
            \/ CheckDiskSpace \/ (\E skip \in BOOLEAN : RequestShare(skip)) \/ UNCHANGED vars
  <2>1. work' = work /\ UNCHANGED << queued, finished, known, fileStatus, dl, remover >>
    BY <1>10 DEF SaveTick, MinuteTick, DelayedEvent, ShareRefreshed, SetShared, DownloadError, CheckDiskSpace,
       RequestShare, vars, itemVars
  <2>2. OnceIn(tasks') /\ \A f \in Files : Waiting(f)' <=> Waiting(f)
    <3>1. \/ tasks' = tasks
          \/ \E kind \in {"check", "update", "pause", "resume", "save"} : tasks' = Append(tasks, Task(kind))
          \/ \E skip \in BOOLEAN : tasks' = Append(tasks, ShareTask(skip))
      BY <1>10 DEF SaveTick, MinuteTick, DelayedEvent, ShareRefreshed, SetShared, DownloadError, CheckDiskSpace,
         RequestShare, vars, AddTask
    <3> QED BY <3>1, <1>q, <1>c
  <2>3. ASSUME NEW f \in Files PROVE FileOK(f)' BY <2>1, <2>2, <1>s, <1>k DEF Worked
  <2> QED BY <2>2, <2>3 DEF FilesOK
<1>11. ASSUME NEW g \in Files, AddFile(g) PROVE FilesOK'
  <2>1. AtRest BY <1>11, <1>a DEF AddFile, MayInterfere
  <2>2. work' = work /\ dl' = dl /\ remover' = remover BY <1>11 DEF AddFile
  <2>3. OnceIn(tasks') /\ \A f \in Files : Waiting(f)' <=> Waiting(f)
    <3>1. tasks' = tasks \/ tasks' = Append(tasks, Task("update")) BY <1>11 DEF AddFile, AddTask
    <3> QED BY <3>1, <1>q, <1>c
  <2>4. ASSUME NEW f \in Files PROVE FileOK(f)'
    <3>1. FileOK(f) /\ ~HasTask(f) /\ dl[f] = "idle" /\ remover # f BY <2>1, RestFacts, <1>a DEF FilesOK
    <3>2. ~Waiting(f)' /\ ~Worked(f)' /\ ~HasTask(f)' /\ dl'[f] = "idle" /\ remover' # f
      BY <3>1, <2>2, <2>3 DEF HasTask, Waiting, Worked
    <3>3. CASE f = g
      <4>1. f \in queued' /\ f \notin finished' /\ fileStatus'[f] = "queued" /\ f \in known'
        BY <1>11, <3>3, <1>y DEF AddFile
      <4> QED BY <3>2, <4>1 DEF FileOK
    <3>4. CASE f # g
      <4>1. fileStatus'[f] = fileStatus[f] /\ (f \in queued' <=> f \in queued) /\ (f \in finished' => f \in finished)
        BY <1>11, <3>4, <1>y DEF AddFile
      <4>2. f \in queued' \cup finished' => f \in known'
        <5>1. f \in queued \cup finished => f \in known BY <3>1 DEF FileOK
        <5>2. queued = {} \/ known \subseteq known' BY <1>11 DEF AddFile
        <5>3. queued = {} => (f \in known /\ f \in finished' => f \in known') BY <1>11 DEF AddFile
        <5> QED BY <4>1, <5>1, <5>2, <5>3
      <4>3. f \in finished => fileStatus[f] \notin {"queued", "downloaded", "validating"}
        BY <3>1 DEF FileOK, HasTask, Worked
      <4>4. f \in queued => fileStatus[f] = "queued" BY <3>1 DEF FileOK
      <4> QED BY <3>2, <4>1, <4>2, <4>3, <4>4 DEF FileOK
    <3> QED BY <3>3, <3>4
  <2> QED BY <2>3, <2>4 DEF FilesOK
<1>12. ASSUME NEW g \in Files, RemoveFile(g) PROVE FilesOK'
  <2>1. AtRest BY <1>12, <1>a DEF RemoveFile, MayInterfere
  <2>2. UNCHANGED << work, dl, tasks, queued, finished, fileStatus >> /\ remover' = g /\ known' = known \ {g}
    BY <1>12 DEF RemoveFile
  <2>3. OnceIn(tasks') BY <2>2, <1>q
  <2>4. ASSUME NEW f \in Files PROVE FileOK(f)'
    <3>1. FileOK(f) /\ ~HasTask(f) /\ dl[f] = "idle" /\ remover # f BY <2>1, RestFacts, <1>a DEF FilesOK
    <3>2. ~Waiting(f)' /\ ~Worked(f)' /\ ~HasTask(f)' BY <3>1, <2>2 DEF HasTask, Waiting, Worked
    <3> QED BY <3>1, <3>2, <2>2 DEF FileOK, HasTask, Worked
  <2> QED BY <2>3, <2>4 DEF FilesOK
<1>13. CASE RemoveBundleItem
  <2>1. /\ remover \in Files /\ UNCHANGED << work, dl, tasks, fileStatus, known >> /\ remover' = Nobody
        /\ IF fileStatus[remover] = "queued"
           THEN queued' = queued \ {remover} /\ finished' = finished
           ELSE finished' = finished \ {remover} /\ queued' = queued
    BY <1>13 DEF RemoveBundleItem, TypeOK
  <2>2. OnceIn(tasks') /\ \A f \in Files : SameTasks(f) BY <2>1, <1>q DEF Worked
  <2>3. ASSUME NEW f \in Files PROVE FileOK(f)'
    <3>1. FileOK(f) /\ remover' # f BY <1>a, <2>1, BundleAssumption DEF FilesOK, Nobody
    <3>2. CASE f # remover
      <4>1. Same(f) BY <2>1, <3>1, <3>2
      <4> QED BY <4>1, <2>2, <1>k
    <3>3. CASE f = remover
      <4>1. dl[f] = "idle" /\ ~HasTask(f) /\ ~Waiting(f) /\ ~Worked(f) BY <3>1, <3>3 DEF FileOK, HasTask, Waiting, Worked
      <4>2. f \notin queued' /\ f \notin finished' BY <2>1, <3>1, <3>3, <4>1, <1>y DEF FileOK
      <4> QED BY <4>1, <4>2, <2>1, <2>2, <3>1 DEF FileOK
    <3> QED BY <3>2, <3>3
  <2> QED BY <2>2, <2>3 DEF FilesOK
<1>14. CASE Restart
  <2>1. /\ queued' = Loaded("queued", {"none", "temp", "unmoved"}) /\ finished' = Loaded("finished", {"target"})
        /\ known' = queued' \cup finished' /\ remover' = Nobody /\ work' = Idle
    BY <1>14 DEF Restart
  <2>2. OnceIn(tasks') /\ Range(tasks') \subseteq {ShareTask(FALSE)}
    <3>1. OnceIn(<<>>) /\ OnceIn(<< ShareTask(FALSE) >>) BY DEF OnceIn
    <3>2. Range(<< ShareTask(FALSE) >>) = {ShareTask(FALSE)} /\ Range(<<>>) = {}
      BY <1>c, OneTask, EmptyTasks
    <3>3. tasks' = <<>> \/ tasks' = << ShareTask(FALSE) >> BY <1>14 DEF Restart
    <3> QED BY <3>1, <3>2, <3>3
  <2>3. ASSUME NEW f \in Files PROVE FileOK(f)'
    <3>1. ~Waiting(f)' /\ ~Worked(f)' BY <2>1, <2>2, WorkingSteps, TasksDiffer DEF Waiting, Worked
    <3>2. dl'[f] = "idle" /\ fileStatus'[f] = (IF f \in finished' THEN "completed" ELSE "queued")
      BY <1>14 DEF Restart
    <3>3. f \in queued' => f \notin finished' BY <2>1 DEF Loaded
    <3>4. remover' # f BY <2>1, BundleAssumption DEF Nobody
    <3> QED BY <2>1, <3>1, <3>2, <3>3, <3>4 DEF FileOK
  <2> QED BY <2>2, <2>3 DEF FilesOK
<1> QED
  BY <1>1, <1>2, <1>3, <1>4, <1>5, <1>6, <1>7, <1>8, <1>9, <1>10, <1>11, <1>12, <1>13, <1>14 DEF Next, WorkerStep

-----------------------------------------------------------------------------
(* The statuses.  From the task that shares a bundle to its refresh nothing *)
(* is queued in it and all its files have been looked at by hooks.          *)

AllGood == \A f \in finished : fileStatus[f] = "completed"

Settled == queued = {} /\ \A f \in finished : fileStatus[f] \in {"completed", "invalid"}

Sharing == work.task.kind = "share" \/ \E skip \in BOOLEAN : ShareTask(skip) \in Range(tasks)

Skipping == work.task = ShareTask(TRUE) \/ ShareTask(TRUE) \in Range(tasks)

StatusOK ==
    /\ IsDownloaded(status) => queued = {}
    /\ IsCompleted(status) => forced \/ AllGood
    /\ \A f \in Files : dl[f] = "last" => queued = {}
    /\ Sharing \/ refresh # "none" => Settled
    /\ Skipping => forced
    /\ refresh # "none" => forced \/ AllGood
    /\ work.task.kind = "share" /\ work.step = "complete" => forced \/ AllGood
    /\ work.task.kind = "share" /\ work.step \in {"bundle", "hooks"} => AllGood
    /\ work.step = "fail" => queued = {}

SInv == alive => StatusOK

LEMMA InitSInv == Init => SInv
<1> SUFFICES ASSUME Init PROVE StatusOK BY DEF SInv
<1>1. work.task = Task("none") /\ work.step = "none" BY DEF Init, Idle, Working
<1>2. work.task.kind # "share" /\ work.task # ShareTask(TRUE) /\ Range(tasks) = {}
  BY <1>1, TaskKinds, EmptyTasks DEF Init
<1> QED BY <1>1, <1>2 DEF Init, StatusOK, Sharing, Skipping, IsDownloaded, IsCompleted

\* Tasks that have nothing to do with sharing.
LEMMA QuietSharing ==
  ASSUME TypeOK
  PROVE  /\ \A t \in Tasks : t.kind # "share" /\ tasks' = Append(tasks, t)
              => \A skip \in BOOLEAN : ShareTask(skip) \in Range(tasks') => ShareTask(skip) \in Range(tasks)
         /\ \A skip \in BOOLEAN : tasks' = Append(tasks, ShareTask(skip))
              => Range(tasks') = Range(tasks) \cup {ShareTask(skip)}
         /\ \A kind \in {"check", "update", "pause", "resume", "save"} : Task(kind) \in Tasks /\ Task(kind).kind # "share"
         /\ \A f \in Files : FileTask(f) \in Tasks /\ FileTask(f).kind # "share"
<1>1. /\ \A skip \in BOOLEAN : ShareTask(skip) \in Tasks
      /\ \A kind \in {"check", "update", "pause", "resume", "save"} : Task(kind) \in Tasks
      /\ \A f \in Files : FileTask(f) \in Tasks
  BY DEF Tasks
<1>2. /\ \A kind \in {"check", "update", "pause", "resume", "save"} : Task(kind).kind # "share"
      /\ \A f \in Files : FileTask(f).kind # "share"
  BY TaskKinds
<1>3. ASSUME NEW t \in Tasks, t.kind # "share", tasks' = Append(tasks, t),
             NEW skip \in BOOLEAN, ShareTask(skip) \in Range(tasks')
      PROVE  ShareTask(skip) \in Range(tasks)
  <2>1. Range(tasks') = Range(tasks) \cup {t} BY <1>3, Appended
  <2>2. ShareTask(skip).kind = "share" BY TaskKinds
  <2>3. ShareTask(skip) # t BY <2>2, <1>3
  <2> QED BY <1>3, <2>1, <2>3
<1>4. \A skip \in BOOLEAN : tasks' = Append(tasks, ShareTask(skip))
        => Range(tasks') = Range(tasks) \cup {ShareTask(skip)}
  BY <1>1, Appended
<1> QED BY <1>1, <1>2, <1>3, <1>4

LEMMA NextSInv == TypeOK /\ FInv /\ SInv /\ [Next]_vars => SInv'
<1> SUFFICES ASSUME TypeOK, FInv, SInv, [Next]_vars, alive' PROVE StatusOK' BY DEF SInv
<1>a. alive /\ ~Overlap /\ (\A f \in Files : FileOK(f)) /\ StatusOK BY StaysGone DEF FInv, SInv, FilesOK
<1>y. /\ fileStatus \in [Files -> FileStatuses]
      /\ dl \in [Files -> {"idle", "downloaded", "last", "taken"}]
      /\ queued \subseteq Files /\ finished \subseteq Files /\ queued \cap finished = {}
      /\ forced \in BOOLEAN /\ refresh \in {"none", "wanted", "listed"}
  BY DEF TypeOK
<1>q. /\ \A t \in Tasks : t.kind # "share" /\ tasks' = Append(tasks, t)
              => \A skip \in BOOLEAN : ShareTask(skip) \in Range(tasks') => ShareTask(skip) \in Range(tasks)
      /\ \A skip \in BOOLEAN : tasks' = Append(tasks, ShareTask(skip))
              => Range(tasks') = Range(tasks) \cup {ShareTask(skip)}
      /\ \A kind \in {"check", "update", "pause", "resume", "save"} : Task(kind) \in Tasks /\ Task(kind).kind # "share"
      /\ \A f \in Files : FileTask(f) \in Tasks /\ FileTask(f).kind # "share"
  BY QuietSharing
<1>z. ASSUME work' = Idle
      PROVE  work'.task.kind # "share" /\ work'.task # ShareTask(TRUE) /\ work'.step # "fail"
  BY <1>z, WorkingSteps, TaskKinds
\* A file is queued: the bundle is neither downloaded nor being shared.
<1>n. ASSUME queued # {}
      PROVE  ~IsDownloaded(status) /\ ~Sharing /\ ~Skipping /\ refresh = "none" /\ work.step # "fail"
             /\ (\A f \in Files : dl[f] # "last")
  BY <1>n, <1>a, TaskKinds DEF StatusOK, Settled, Sharing, Skipping
<1>1. ASSUME NEW g \in Files, FinishFile(g) PROVE StatusOK'
  <2>1. /\ g \in queued /\ UNCHANGED << status, queued, finished, tasks, work, forced, refresh >>
        /\ \A f \in Files : dl'[f] = "last" => dl[f] = "last"
    BY <1>1, <1>y DEF FinishFile, shareVars
  <2>2. queued # {} BY <2>1
  <2> QED BY <2>1, <2>2, <1>n DEF StatusOK, Sharing, Skipping, IsCompleted, IsDownloaded
<1>2. ASSUME NEW g \in Files, TakeFile(g) PROVE StatusOK'
  <2>1. /\ dl[g] = "downloaded" /\ UNCHANGED << status, fileStatus, tasks, work, forced, refresh >>
        /\ \A f \in Files : dl'[f] = "last" => dl[f] = "last" \/ queued' = {}
    BY <1>2, <1>y DEF TakeFile, shareVars
  <2>2. queued # {} BY <2>1, <1>a DEF FileOK
  <2> QED BY <2>1, <2>2, <1>n DEF StatusOK, Sharing, Skipping, IsCompleted, IsDownloaded
<1>3. ASSUME NEW g \in Files, FinishBundle(g) PROVE StatusOK'
  <2>1. /\ dl[g] = "last" /\ status' = "downloaded"
        /\ UNCHANGED << queued, finished, fileStatus, tasks, work, forced, refresh >>
        /\ \A f \in Files : dl'[f] = "last" => dl[f] = "last"
    BY <1>3, <1>y DEF FinishBundle, SetBundleStatus, itemVars, shareVars
  <2> QED BY <2>1, <1>a DEF StatusOK, Sharing, Skipping, Settled, AllGood, IsCompleted, IsDownloaded
<1>4. ASSUME NEW g \in Files, MoveFile(g) PROVE StatusOK'
  <2>1. /\ UNCHANGED << status, queued, finished, fileStatus, work, forced, refresh >>
        /\ tasks' = Append(tasks, FileTask(g))
        /\ \A f \in Files : dl'[f] = "last" => dl[f] = "last"
    BY <1>4, <1>y DEF MoveFile, AddTask, shareVars
  <2>2. (Sharing' => Sharing) /\ (Skipping' => Skipping) BY <2>1, <1>q DEF Sharing, Skipping
  <2> QED BY <2>1, <2>2, <1>a DEF StatusOK, Settled, AllGood
<1>5. CASE StartTask
  <2>1. /\ tasks # <<>> /\ tasks' = Tail(tasks) /\ work'.task = Head(tasks) /\ work'.step = "start"
        /\ UNCHANGED << status, queued, finished, fileStatus, dl, forced, refresh >>
    BY <1>5 DEF StartTask, Working, itemVars, shareVars
  <2>2. Range(tasks) = Range(tasks') \cup {Head(tasks)} /\ Head(tasks) \in Tasks
    BY <2>1, Appended, TypedTasks
  <2>3. Head(tasks).kind = "share" => \E skip \in BOOLEAN : Head(tasks) = ShareTask(skip)
    BY <2>2, TaskKinds DEF Tasks
  <2>4. (Sharing' => Sharing) /\ (Skipping' => Skipping) BY <2>1, <2>2, <2>3 DEF Sharing, Skipping
  <2> QED BY <2>1, <2>4, <1>a DEF StatusOK, Settled, AllGood
<1>6. CASE RunFileHooks \/ FileHooksAnswer
  <2>1. /\ work.task.kind = "file" /\ tasks' = tasks /\ work'.task = work.task /\ work'.step # "fail"
        /\ UNCHANGED << status, queued, finished, dl, forced, refresh >>
    BY <1>6, WorkingSteps DEF RunFileHooks, FileHooksAnswer, At, shareVars
  <2>2. PICK g \in Files : g = work.task.file /\ work.task = FileTask(g) BY <2>1, WorkingFile
  <2>3. g \in finished /\ fileStatus[g] \in {"downloaded", "validating"}
    <3>1. FileOK(g) /\ Worked(g) BY <1>a, <2>2 DEF Worked
    <3> QED BY <1>6, <3>1 DEF RunFileHooks, FileHooksAnswer, At, FileOK
  <2>4. ~Settled /\ ~AllGood BY <2>3 DEF Settled, AllGood
  <2>5. ~Sharing /\ ~Sharing' /\ ~Skipping' /\ refresh = "none"
    BY <2>1, <2>2, <2>4, <1>a, TasksDiffer DEF StatusOK, Sharing, Skipping
  <2>6. IsCompleted(status) => forced BY <2>4, <1>a DEF StatusOK
  <2> QED BY <2>1, <2>5, <2>6, <1>a DEF StatusOK, Sharing
<1>7. CASE CheckFinished
  <2> DEFINE toDo == status # "shared" /\ IsDownloaded(status)
             ready == toDo /\ Failed = {} /\ FilesCompleted
  <2>1. /\ work.task.kind \in {"file", "check"}
        /\ IF toDo /\ Failed # {} THEN GoTo("fail") ELSE TaskDone
        /\ UNCHANGED << status, queued, finished, fileStatus, dl, forced, refresh >>
    BY <1>7 DEF CheckFinished, itemVars, shareVars
  <2>2. \/ ready /\ tasks' = Append(tasks, ShareTask(FALSE))
        \/ tasks' = Append(tasks, Task("update")) \/ tasks' = tasks
    BY <1>7 DEF CheckFinished
  <2>3. ready => Settled BY DEF FilesCompleted, Settled
  <2>4. /\ \A skip \in BOOLEAN : ShareTask(skip) \in Range(tasks') =>
               ShareTask(skip) \in Range(tasks) \/ (ready /\ ShareTask(skip) = ShareTask(FALSE))
    BY <2>2, <1>q
  <2>5. work'.task = work.task \/ work' = Idle BY <2>1, WorkingSteps
  <2>6. work'.task.kind # "share" /\ work'.task # ShareTask(TRUE)
    BY <2>1, <2>5, <1>z, TaskKinds
  <2>7. work'.step = "fail" => toDo
    <3>1. CASE toDo BY <3>1
    <3>2. CASE ~toDo
      <4>1. work' = Idle BY <3>2, <2>1 DEF TaskDone
      <4> QED BY <4>1, <1>z
    <3> QED BY <3>1, <3>2
  <2>8. Sharing' => Settled BY <2>3, <2>4, <2>6, <1>a DEF StatusOK, Sharing
  <2>9. Skipping' => Skipping
    <3>1. ShareTask(TRUE) # ShareTask(FALSE) BY ShareTasksDiffer
    <3> QED BY <2>4, <2>6, <3>1 DEF Skipping
  <2> QED BY <2>1, <2>6, <2>7, <2>8, <2>9, <1>a DEF StatusOK, Settled, AllGood
<1>8. CASE FailBundle
  <2>1. /\ work.step = "fail" /\ work' = Idle /\ status' = "invalid"
        /\ tasks' = Append(tasks, Task("update")) \/ tasks' = tasks
        /\ UNCHANGED << queued, finished, fileStatus, dl, forced, refresh >>
    BY <1>8 DEF FailBundle, TaskDone, SetBundleStatus, itemVars, shareVars
  <2>2. (Sharing' => Sharing) /\ (Skipping' => Skipping) BY <2>1, <1>q, <1>z DEF Sharing, Skipping
  <2> QED BY <2>1, <2>2, <1>a, <1>z DEF StatusOK, Settled, AllGood, IsCompleted
<1>9. CASE StartShare \/ RevalidateFiles \/ RunBundleHooks \/ BundleHooksAnswer \/ ShareBundle
  <2>1. /\ work.task.kind = "share" /\ tasks' = tasks
        /\ UNCHANGED << queued, finished, dl, forced >>
        /\ work' = Idle \/ work'.task = work.task
    BY <1>9, WorkingSteps
    DEF StartShare, RevalidateFiles, RunBundleHooks, BundleHooksAnswer, ShareBundle, At, itemVars, shareVars
  <2>2. Settled BY <2>1, <1>a DEF StatusOK, Sharing
  <2>3. \A f \in finished : fileStatus'[f] = fileStatus[f] \/ fileStatus'[f] = "completed"
    BY <1>9, <1>y
    DEF StartShare, RevalidateFiles, RunBundleHooks, BundleHooksAnswer, ShareBundle, itemVars
  <2>4. Settled' /\ (AllGood => AllGood') BY <2>1, <2>2, <2>3 DEF Settled, AllGood
  <2>5. (Sharing' => Sharing) /\ (Skipping' => Skipping) BY <2>1, <1>z DEF Sharing, Skipping
  <2>6. /\ IsCompleted(status') => forced \/ AllGood'
        /\ refresh' # "none" => forced \/ AllGood'
        /\ work'.step = "complete" => forced \/ AllGood'
        /\ work'.step \in {"bundle", "hooks"} => AllGood'
    <3>0. work' = Idle => work'.step = "none" BY WorkingSteps
    <3>1. CASE StartShare
      <4>1. refresh' = refresh /\ (status' = status \/ status' = "validating")
        BY <3>1 DEF StartShare, SetBundleStatus, shareVars
      <4>2. work.task.skip => forced
        <5>1. PICK skip \in BOOLEAN : work.task = ShareTask(skip) BY <2>1, TaskKinds DEF TypeOK, Tasks
        <5>2. CASE skip = TRUE BY <5>1, <5>2, <1>a DEF StatusOK, Skipping
        <5>3. CASE skip = FALSE
          <6>1. work.task.skip = FALSE BY <5>1, <5>3, TaskKinds, Zenon
          <6> QED BY <6>1
        <5> QED BY <5>2, <5>3
      <4>3. Failed = {} => AllGood BY <2>2 DEF Settled, Failed, AllGood
      <4>4. \/ work'.step = "complete" /\ work.task.skip
            \/ work'.step = "bundle" /\ Failed = {}
            \/ work'.step = "files"
        BY <3>1, WorkingSteps DEF StartShare
      <4> QED BY <4>1, <4>2, <4>3, <4>4, <2>4, <1>a DEF StatusOK, IsCompleted
    <3>2. CASE RevalidateFiles
      <4>1. refresh' = refresh /\ status' = status BY <3>2 DEF RevalidateFiles, shareVars
      <4>2. PICK passed \in SUBSET Failed :
              /\ fileStatus' = [f \in Files |-> IF f \in passed THEN "completed" ELSE fileStatus[f]]
              /\ GoTo(IF passed = Failed THEN "bundle" ELSE "fail")
        BY <3>2 DEF RevalidateFiles
      <4>3. passed = Failed => AllGood' BY <4>2, <2>1, <2>2, <1>y DEF Settled, Failed, AllGood
      <4>4. work'.step = "fail" \/ (work'.step = "bundle" /\ passed = Failed) BY <4>2, WorkingSteps
      <4> QED BY <4>1, <4>3, <4>4, <2>4, <1>a DEF StatusOK
    <3>3. CASE RunBundleHooks
      <4>1. /\ refresh' = refresh /\ status' = "validating" /\ work'.step = "hooks" /\ work.step = "bundle"
        BY <3>3, WorkingSteps DEF RunBundleHooks, SetBundleStatus, shareVars, At
      <4> QED BY <4>1, <2>1, <2>4, <1>a DEF StatusOK, IsCompleted
    <3>4. CASE BundleHooksAnswer
      <4>1. refresh' = refresh /\ work.step = "hooks" BY <3>4 DEF BundleHooksAnswer, shareVars, At
      <4>2. AllGood' BY <4>1, <2>1, <2>4, <1>a DEF StatusOK
      <4> QED BY <4>2
    <3>5. CASE ShareBundle
      <4>1. work.step = "complete" BY <3>5 DEF ShareBundle, At
      <4>2. forced \/ AllGood' BY <4>1, <2>1, <2>4, <1>a DEF StatusOK
      <4>3. work' = Idle BY <3>5 DEF ShareBundle, TaskDone
      <4> QED BY <4>2, <4>3, <3>0
    <3> QED BY <1>9, <3>1, <3>2, <3>3, <3>4, <3>5
  <2> QED BY <2>1, <2>2, <2>4, <2>5, <2>6, <1>a DEF StatusOK, Settled
<1>10. CASE StartCheck \/ RunUpdate \/ RunPause \/ RunResume \/ StartSave \/ RenameSaved
  <2>1. /\ work.task.kind # "share" /\ tasks' = tasks
        /\ UNCHANGED << queued, finished, fileStatus, dl, forced, refresh >>
        /\ status' = status \/ status' = "queued"
    BY <1>10 DEF StartCheck, RunUpdate, RunPause, RunResume, StartSave, RenameSaved, At, itemVars, shareVars,
       SetBundleStatus
  <2>2. work' = Idle \/ (work'.task = work.task /\ work'.step # "fail")
    <3>1. StartSave => TaskDone \/ (work'.task = work.task /\ work'.step # "fail")
      <4>1. work \in Works BY DEF TypeOK, Works
      <4>2. StartSave => TaskDone \/ work' = [work EXCEPT !.step = "rename", !.image = Image] BY DEF StartSave
      <4> QED BY <4>1, <4>2 DEF Works
    <3>2. StartCheck => work'.task = work.task /\ work'.step # "fail" BY WorkingSteps DEF StartCheck
    <3> QED BY <1>10, <3>1, <3>2 DEF RunUpdate, RunPause, RunResume, RenameSaved, TaskDone
  <2>3. /\ work'.task.kind # "share" /\ work'.step # "fail" /\ (Skipping' => Skipping) /\ (Sharing' => Sharing)
    <3>1. work'.task.kind # "share" /\ work'.step # "fail" BY <2>1, <2>2, <1>z
    <3> QED BY <3>1, <2>1, TaskKinds DEF Skipping, Sharing
  <2> QED BY <2>1, <2>3, <1>a DEF StatusOK, Settled, AllGood, IsDownloaded, IsCompleted
<1>11. CASE SaveTick \/ MinuteTick \/ DelayedEvent \/ ShareRefreshed \/ UNCHANGED vars
  <2>1. /\ work' = work /\ UNCHANGED << status, queued, finished, fileStatus, dl, forced >>
        /\ refresh' # "none" => refresh # "none"
        /\ \/ tasks' = tasks
           \/ \E kind \in {"check", "update", "pause", "resume", "save"} : tasks' = Append(tasks, Task(kind))
    BY <1>11 DEF SaveTick, MinuteTick, DelayedEvent, ShareRefreshed, vars, itemVars, shareVars, AddTask
  <2>2. (Sharing' => Sharing) /\ (Skipping' => Skipping) BY <2>1, <1>q DEF Sharing, Skipping
  <2> QED BY <2>1, <2>2, <1>a DEF StatusOK, Settled, AllGood
<1>12. CASE SetShared
  <2>1. /\ UNCHANGED << work, tasks, queued, finished, fileStatus, dl, forced >>
        /\ refresh = "listed" /\ refresh' = "none" /\ status' = "shared"
    BY <1>12 DEF SetShared, SetBundleStatus, itemVars
  <2> QED BY <2>1, <1>a DEF StatusOK, Settled, AllGood, Sharing, Skipping
<1>13. CASE DownloadError \/ CheckDiskSpace
  <2>1. /\ UNCHANGED << work, queued, finished, fileStatus, dl, forced, refresh >>
        /\ queued # {} /\ status' \in {"error", "queued"}
        /\ tasks' = tasks \/ tasks' = Append(tasks, Task("pause"))
    BY <1>13, <1>a DEF DownloadError, CheckDiskSpace, SetBundleStatus, itemVars, shareVars
  <2>2. (Sharing' => Sharing) /\ (Skipping' => Skipping) BY <2>1, <1>q DEF Sharing, Skipping
  <2> QED BY <2>1, <2>2, <1>a DEF StatusOK, Settled, AllGood, IsDownloaded, IsCompleted
<1>14. ASSUME NEW skip \in BOOLEAN, RequestShare(skip) PROVE StatusOK'
  <2>1. /\ UNCHANGED << work, status, queued, finished, fileStatus, dl, refresh >>
        /\ AtRest /\ status = "invalid" /\ forced' = (forced \/ skip)
        /\ tasks' = Append(tasks, ShareTask(skip))
    BY <1>14, <1>a DEF RequestShare, MayInterfere, AddTask, itemVars, shareVars
  <2>2. Settled
    <3>1. queued = {} BY <2>1, <1>a DEF StatusOK, IsDownloaded
    <3>2. ASSUME NEW f \in finished PROVE fileStatus[f] \in {"completed", "invalid"}
      <4>1. f \in Files /\ fileStatus[f] \in FileStatuses BY <1>y
      <4>2. FileOK(f) /\ ~HasTask(f) /\ dl[f] = "idle" BY <4>1, <2>1, <1>a, RestFacts
      <4> QED BY <4>1, <4>2 DEF FileOK, HasTask, Worked, FileStatuses
    <3> QED BY <3>1, <3>2 DEF Settled
  <2>3. Skipping' => forced'
    <3>1. Range(tasks') = Range(tasks) \cup {ShareTask(skip)} BY <2>1, <1>q
    <3>2. ShareTask(TRUE) = ShareTask(skip) => skip
      <4>1. skip = TRUE \/ skip = FALSE OBVIOUS
      <4> QED BY <4>1, ShareTasksDiffer
    <3>3. Skipping => forced BY <1>a DEF StatusOK
    <3> QED BY <2>1, <3>1, <3>2, <3>3 DEF Skipping
  <2> QED BY <2>1, <2>2, <2>3, <1>a DEF StatusOK, Settled, AllGood
<1>15. ASSUME NEW g \in Files, AddFile(g) PROVE StatusOK'
  <2>1. AtRest /\ UNCHANGED << work, dl, refresh >> /\ queued' # {}
    BY <1>15, <1>a DEF AddFile, MayInterfere, shareVars
  <2>2. tasks' = tasks \/ tasks' = Append(tasks, Task("update")) BY <1>15 DEF AddFile, AddTask
  <2>3. Range(tasks) = {} /\ work = Idle /\ refresh = "none" /\ \A f \in Files : dl[f] = "idle"
    BY <2>1, EmptyTasks DEF AtRest
  <2>4. ~Sharing /\ ~Skipping
    <3>1. work.task = Task("none") /\ work.task.kind = "none" BY <2>3, WorkingSteps, TaskKinds
    <3>2. work.task # ShareTask(TRUE) BY <3>1, ShareTasksDiffer
    <3> QED BY <3>1, <3>2, <2>3 DEF Sharing, Skipping
  <2>5. ~Sharing' /\ ~Skipping' BY <2>1, <2>2, <2>4, <1>q DEF Sharing, Skipping
  <2>6. ~IsDownloaded(status')
    <3>1. queued = {} => status' = "queued" BY <1>15 DEF AddFile, SetBundleStatus
    <3>2. queued # {} => status' = status BY <1>15 DEF AddFile
    <3> QED BY <3>1, <3>2, <1>n DEF IsDownloaded
  <2>7. ~IsCompleted(status') BY <2>6 DEF IsDownloaded, IsCompleted
  <2>8. work'.step # "fail" /\ work'.task.kind # "share" BY <2>1, <2>3, <1>z
  <2> QED BY <2>1, <2>3, <2>5, <2>6, <2>7, <2>8 DEF StatusOK
<1>16. CASE RemoveBundleItem \/ \E g \in Files : RemoveFile(g)
  <2>1. /\ UNCHANGED << work, tasks, status, fileStatus, dl, forced, refresh >>
        /\ queued' \subseteq queued /\ finished' \subseteq finished
    BY <1>16 DEF RemoveBundleItem, RemoveFile, shareVars
  <2>2. (Settled => Settled') /\ (AllGood => AllGood') BY <2>1 DEF Settled, AllGood
  <2> QED BY <2>1, <2>2, <1>a DEF StatusOK, Sharing, Skipping
<1>17. CASE Restart
  <2>1. /\ work' = Idle /\ forced' = FALSE /\ refresh' = "none" /\ \A f \in Files : dl'[f] = "idle"
        /\ status' = IF queued' # {} THEN "queued" ELSE IF shared THEN "shared" ELSE "completed"
        /\ tasks' = IF status' = "completed" /\ alive' THEN << ShareTask(FALSE) >> ELSE <<>>
    BY <1>17 DEF Restart
  <2>2. AllGood' BY <1>17 DEF Restart, AllGood, Loaded
  <2>3. Range(tasks') \subseteq {ShareTask(FALSE)} /\ (Range(tasks') # {} => queued' = {})
    <3>1. Range(<< ShareTask(FALSE) >>) = {ShareTask(FALSE)} /\ Range(<<>>) = {}
      BY OneTask, EmptyTasks
    <3> QED BY <2>1, <3>1
  <2>4. Sharing' => Settled' BY <2>1, <2>2, <2>3, <1>z DEF Sharing, Settled, AllGood
  <2>5. ~Skipping'
    <3>1. ShareTask(TRUE) # ShareTask(FALSE) BY ShareTasksDiffer
    <3> QED BY <2>1, <2>3, <3>1, <1>z DEF Skipping
  <2>6. IsDownloaded(status') => queued' = {} BY <2>1 DEF IsDownloaded
  <2> QED BY <2>1, <2>2, <2>4, <2>5, <2>6, <1>z DEF StatusOK
<1> QED
  BY <1>1, <1>2, <1>3, <1>4, <1>5, <1>6, <1>7, <1>8, <1>9, <1>10, <1>11, <1>12, <1>13, <1>14, <1>15, <1>16, <1>17
  DEF Next, WorkerStep

\* Bundle.h's comments on STATUS_DOWNLOADED and STATUS_COMPLETED hold as long as
\* requests wait for a bundle that is being finished, through failing hooks and
\* downloads, removals, validation on request and restarts.
THEOREM StatusesMean == Spec /\ ~Overlap => []StatusAsStated
<1>1. SInv => StatusAsStated BY DEF SInv, StatusOK, StatusAsStated, AllGood
<1> QED BY <1>1, InitTypeOK, NextTypeOK, InitFInv, NextFInv, InitSInv, NextSInv, PTL DEF Spec
-----------------------------------------------------------------------------
(* What is saved.  Without changes to save the bundle's file says what the *)
(* bundle is, and whatever else it lists is not found on the disk.          *)

Loadable(f) ==
    \/ xml.files[f] = "queued" /\ place[f] # "target"
    \/ xml.files[f] = "finished" /\ place[f] = "target"

SavedAs(f) == IF fileStatus[f] = "queued" THEN "queued" ELSE "finished"

Saved(f) == IF f \in queued \cup finished THEN xml.files[f] = SavedAs(f) ELSE ~Loadable(f)

XmlOK ==
    /\ ~dirty => \A f \in Files : Saved(f)
    /\ work.step = "rename" => Saving /\ \A f \in Files : work.image.files[f] = Image.files[f]
    /\ \A f \in queued : place[f] # "target"

XInv == alive => XmlOK

LEMMA InitXInv == Init => XInv
<1> SUFFICES ASSUME Init PROVE XmlOK BY DEF XInv
<1>1. work.step = "none" BY DEF Init, Idle, Working
<1> QED BY <1>1, BundleAssumption DEF Init, XmlOK

LEMMA NextXInv == TypeOK /\ FInv /\ XInv /\ [Next]_vars => XInv'
<1> SUFFICES ASSUME TypeOK, FInv, XInv, [Next]_vars, alive' PROVE XmlOK' BY DEF XInv
<1>a. alive /\ (\A f \in Files : FileOK(f)) /\ XmlOK BY StaysGone DEF FInv, XInv, FilesOK
<1>y. /\ fileStatus \in [Files -> FileStatuses]
      /\ place \in [Files -> {"none", "temp"} \cup MoveResults]
      /\ queued \subseteq Files /\ finished \subseteq Files
      /\ dirty \in BOOLEAN
  BY DEF TypeOK
\* Saved and the image say the same.
<1>i. \A f \in Files : Image.files[f] = IF f \notin queued \cup finished THEN "none" ELSE SavedAs(f)
  BY DEF Image, SavedAs
<1>ii. \A f \in Files : Image'.files[f] = IF f \notin queued' \cup finished' THEN "none" ELSE SavedAs(f)'
  BY DEF Image, SavedAs
<1>r. ASSUME work.step = "rename" PROVE Saving BY <1>r, <1>a DEF XmlOK
\* Steps that leave what is saved alone.
<1>k. ASSUME queued' \cup finished' = queued \cup finished, queued' \subseteq queued, place' = place, xml' = xml,
             ~dirty' => ~dirty, \A f \in Files : SavedAs(f)' = SavedAs(f),
             work'.step = "rename" => work.step = "rename" /\ work'.task = work.task /\ work'.image = work.image
      PROVE  XmlOK'
  BY <1>k, <1>a, <1>i, <1>ii, <1>y DEF XmlOK, Saved, Loadable, Saving
\* Steps after which the bundle has to be saved.
<1>d. ASSUME dirty' = TRUE, work'.step # "rename", \A f \in queued' : place'[f] # "target"
      PROVE  XmlOK'
  BY <1>d DEF XmlOK
<1>1. ASSUME NEW g \in Files, FinishFile(g) PROVE XmlOK'
  <2>1. /\ dirty' = TRUE /\ ~Saving /\ work' = work /\ queued' = queued
        /\ \A f \in Files : place'[f] = IF f = g THEN "temp" ELSE place[f]
    BY <1>1, <1>y DEF FinishFile
  <2> QED BY <2>1, <1>d, <1>r, <1>a, <1>y DEF XmlOK
<1>2. ASSUME NEW g \in Files, TakeFile(g) PROVE XmlOK'
  <2>1. /\ ~Saving /\ dl[g] = "downloaded" /\ queued' = queued \ {g} /\ finished' = finished \cup {g}
        /\ UNCHANGED << work, place, fileStatus, dirty, xml >>
    BY <1>2 DEF TakeFile, TakeOut, diskVars
  <2>2. g \in queued BY <2>1, <1>a DEF FileOK
  <2> QED BY <2>1, <2>2, <1>k, <1>r DEF SavedAs
<1>3. ASSUME NEW g \in Files, FinishBundle(g) PROVE XmlOK'
  BY <1>3, <1>k DEF FinishBundle, itemVars, diskVars, SavedAs
<1>4. ASSUME NEW g \in Files, MoveFile(g) PROVE XmlOK'
  <2>1. /\ dirty' = TRUE /\ dl[g] = "taken" /\ UNCHANGED << work, queued, finished, fileStatus >>
        /\ \A f \in Files : f # g => place'[f] = place[f]
    BY <1>4, <1>y DEF MoveFile
  <2>2. g \notin queued BY <2>1, <1>a, <1>y DEF FileOK, TypeOK
  <2>3. \A f \in queued' : place'[f] # "target" BY <2>1, <2>2, <1>a, <1>y DEF XmlOK
  <2>4. work'.step = "rename" => work.step = "rename" /\ work'.task = work.task /\ work'.image = work.image BY <2>1
  <2>5. \A f \in Files : Image'.files[f] = Image.files[f] BY <2>1, <1>i, <1>ii DEF SavedAs
  <2> QED BY <2>1, <2>3, <2>4, <2>5, <1>a DEF XmlOK, Saving
<1>5. CASE StartTask
  <2>1. work'.step = "start" BY <1>5 DEF StartTask, Working
  <2> QED BY <2>1, <1>5, <1>k DEF StartTask, itemVars, diskVars, SavedAs
<1>6. CASE RunFileHooks \/ FileHooksAnswer
  <2>0. work.task.kind = "file" BY <1>6 DEF RunFileHooks, FileHooksAnswer, At
  <2>1. /\ work'.step # "rename"
        /\ UNCHANGED << queued, finished, place, dirty, xml >>
        /\ fileStatus'[work.task.file] # "queued"
        /\ \A f \in Files : f # work.task.file => fileStatus'[f] = fileStatus[f]
    <3>1. work.task.file \in Files BY <2>0, WorkingFile
    <3>2. PICK s \in {"validating", "completed", "invalid"} : fileStatus' = [fileStatus EXCEPT ![work.task.file] = s]
      BY <1>6 DEF RunFileHooks, FileHooksAnswer
    <3>3. work'.step # "rename" BY <1>6, WorkingSteps DEF RunFileHooks, FileHooksAnswer
    <3>4. UNCHANGED << queued, finished, place, dirty, xml >> BY <1>6 DEF RunFileHooks, FileHooksAnswer, diskVars
    <3> QED BY <3>1, <3>2, <3>3, <3>4, <1>y
  <2>2. PICK g \in Files : g = work.task.file /\ work.task = FileTask(g) BY <2>0, WorkingFile
  <2>3. fileStatus[g] # "queued" BY <2>2, <1>a DEF FileOK, Worked
  <2> QED BY <2>1, <2>2, <2>3, <1>k DEF SavedAs
<1>7. CASE StartCheck \/ CheckFinished \/ FailBundle \/ StartShare \/ RunBundleHooks \/ BundleHooksAnswer
           \/ ShareBundle \/ RunUpdate
  <2>1. UNCHANGED << itemVars, diskVars >>
    BY <1>7 DEF StartCheck, CheckFinished, FailBundle, StartShare, RunBundleHooks, BundleHooksAnswer,
       ShareBundle, RunUpdate
  <2>2. work'.step # "rename"
    <3>1. work' = Idle \/ work'.step \in {"check", "fail", "complete", "bundle", "files", "hooks"}
      BY <1>7, WorkingSteps
      DEF StartCheck, CheckFinished, FailBundle, StartShare, RunBundleHooks, BundleHooksAnswer, ShareBundle, RunUpdate
    <3> QED BY <3>1, WorkingSteps
  <2> QED BY <2>1, <2>2, <1>k DEF itemVars, diskVars, SavedAs
<1>8. CASE RevalidateFiles
  <2>1. PICK passed \in SUBSET Failed :
          /\ fileStatus' = [f \in Files |-> IF f \in passed THEN "completed" ELSE fileStatus[f]]
          /\ GoTo(IF passed = Failed THEN "bundle" ELSE "fail")
    BY <1>8 DEF RevalidateFiles
  <2>2. UNCHANGED << queued, finished, place, dirty, xml >> BY <1>8 DEF RevalidateFiles, diskVars
  <2>3. \A f \in Files : SavedAs(f)' = SavedAs(f) BY <2>1 DEF Failed, SavedAs
  <2>4. work'.step # "rename" BY <2>1, WorkingSteps
  <2> QED BY <2>2, <2>3, <2>4, <1>k
<1>9. CASE RunPause \/ RunResume
  <2>1. /\ work' = Idle /\ UNCHANGED << itemVars, xml >> /\ (~dirty' => ~dirty)
    BY <1>9, <1>y DEF RunPause, RunResume, TaskDone
  <2>2. work'.step # "rename" BY <2>1, WorkingSteps
  <2> QED BY <2>1, <2>2, <1>k DEF itemVars, SavedAs
<1>10. CASE StartSave
  <2>1. UNCHANGED << itemVars, dirty >> BY <1>10 DEF StartSave
  <2>2. CASE dirty
    <3>1. work' = [work EXCEPT !.step = "rename", !.image = Image] /\ work.task.kind = "save"
      BY <1>10, <2>2 DEF StartSave, At
    <3>2. work'.image = Image /\ work'.task.kind = "save"
      <4>1. work \in Works BY DEF TypeOK, Works
      <4> QED BY <3>1, <4>1 DEF Works
    <3>3. \A f \in Files : Image'.files[f] = Image.files[f] BY <2>1, <1>i, <1>ii DEF SavedAs, itemVars
    <3> QED BY <2>1, <2>2, <3>2, <3>3, <1>a DEF XmlOK, Saving, itemVars
  <2>3. CASE ~dirty
    <3>1. work' = Idle /\ xml' = xml BY <1>10, <2>3 DEF StartSave, TaskDone
    <3>2. work'.step # "rename" BY <3>1, WorkingSteps
    <3> QED BY <2>1, <3>1, <3>2, <1>k DEF itemVars, SavedAs
  <2> QED BY <2>2, <2>3
<1>11. CASE RenameSaved
  <2>1. /\ work.step = "rename" /\ work' = Idle /\ xml' = work.image /\ UNCHANGED itemVars
    BY <1>11 DEF RenameSaved, At, TaskDone
  <2>2. \A f \in Files : xml'.files[f] = IF f \notin queued \cup finished THEN "none" ELSE SavedAs(f)
    BY <2>1, <1>a, <1>i DEF XmlOK
  <2>3. \A f \in Files : Saved(f)' BY <2>1, <2>2 DEF Saved, Loadable, SavedAs, itemVars
  <2>4. work'.step # "rename" BY <2>1, WorkingSteps
  <2> QED BY <2>1, <2>3, <2>4, <1>a DEF XmlOK, itemVars
<1>12. CASE \/ SaveTick \/ MinuteTick \/ DelayedEvent \/ ShareRefreshed \/ SetShared \/ DownloadError
            \/ CheckDiskSpace \/ (\E skip \in BOOLEAN : RequestShare(skip)) \/ UNCHANGED vars
  <2>1. UNCHANGED << itemVars, diskVars, work >>
    BY <1>12 DEF SaveTick, MinuteTick, DelayedEvent, ShareRefreshed, SetShared, DownloadError, CheckDiskSpace,
       RequestShare, vars
  <2> QED BY <2>1, <1>k DEF itemVars, diskVars, SavedAs
<1>13. ASSUME NEW g \in Files, AddFile(g) PROVE XmlOK'
  <2>1. /\ ~Saving /\ work' = work /\ dirty' = TRUE /\ queued' = queued \cup {g}
        /\ place'[g] = "none" /\ \A f \in Files : f # g => place'[f] = place[f]
    BY <1>13, <1>y DEF AddFile, MayInterfere
  <2> QED BY <2>1, <1>d, <1>r, <1>a, <1>y DEF XmlOK
<1>14. ASSUME NEW g \in Files, RemoveFile(g) PROVE XmlOK'
  <2>1. /\ ~Saving /\ UNCHANGED << work, queued, finished, fileStatus, dirty, xml >>
        /\ \A f \in Files : place'[f] = place[f] \/ (place[f] = "temp" /\ place'[f] = "none")
    BY <1>14, <1>y DEF RemoveFile, MayInterfere, diskVars
  <2>2. \A f \in Files : place'[f] = "target" <=> place[f] = "target" BY <2>1
  <2>3. \A f \in Files : Saved(f) => Saved(f)' BY <2>1, <2>2 DEF Saved, Loadable, SavedAs
  <2> QED BY <2>1, <2>2, <2>3, <1>r, <1>a, <1>y DEF XmlOK
<1>15. CASE RemoveBundleItem
  <2>1. /\ ~Saving /\ dirty' = TRUE /\ queued' \subseteq queued /\ UNCHANGED << work, place >>
    BY <1>15 DEF RemoveBundleItem
  <2> QED BY <2>1, <1>d, <1>r, <1>a DEF XmlOK
<1>16. CASE Restart
  <2>1. /\ queued' = Loaded("queued", {"none", "temp", "unmoved"}) /\ finished' = Loaded("finished", {"target"})
        /\ xml' = xml /\ work' = Idle
        /\ \A f \in Files : fileStatus'[f] = IF f \in finished' THEN "completed" ELSE "queued"
        /\ \A f \in Files : place'[f] = IF f \in queued' THEN "none" ELSE place[f]
    BY <1>16 DEF Restart
  <2>2. work'.step # "rename" BY <2>1, WorkingSteps
  <2>3. ASSUME NEW f \in Files PROVE Saved(f)'
    <3>1. CASE f \in queued'
      <4>1. f \notin finished' /\ xml.files[f] = "queued" BY <3>1, <2>1 DEF Loaded
      <4> QED BY <4>1, <3>1, <2>1 DEF Saved, SavedAs
    <3>2. CASE f \in finished'
      <4>1. xml.files[f] = "finished" BY <3>2, <2>1 DEF Loaded
      <4> QED BY <4>1, <3>2, <2>1 DEF Saved, SavedAs
    <3>3. CASE f \notin queued' \cup finished'
      <4>1. place'[f] = place[f] /\ place[f] \in {"none", "temp", "unmoved", "target"}
        BY <3>3, <2>1, <1>y, BundleAssumption
      <4>2. ~Loadable(f)' BY <4>1, <3>3, <2>1 DEF Loaded, Loadable
      <4> QED BY <4>2, <3>3 DEF Saved
    <3> QED BY <3>1, <3>2, <3>3
  <2>4. \A f \in queued' : place'[f] # "target" BY <2>1 DEF Loaded
  <2> QED BY <2>2, <2>3, <2>4 DEF XmlOK
<1> QED
  BY <1>1, <1>2, <1>3, <1>4, <1>5, <1>6, <1>7, <1>8, <1>9, <1>10, <1>11, <1>12, <1>13, <1>14, <1>15, <1>16
  DEF Next, WorkerStep

\* Only a restart is counted.
LEMMA OnlyRestarts ==
  ASSUME [Next]_vars, crashes' # crashes
  PROVE  Restart
BY DEF Next, vars, FinishFile, TakeFile, FinishBundle, MoveFile, WorkerStep, StartTask, RunFileHooks, shareVars,
   FileHooksAnswer, StartCheck, CheckFinished, FailBundle, StartShare, RevalidateFiles, RunBundleHooks,
   BundleHooksAnswer, ShareBundle, RunUpdate, RunPause, RunResume, StartSave, RenameSaved, SaveTick,
   MinuteTick, DelayedEvent, ShareRefreshed, SetShared, DownloadError, CheckDiskSpace, RequestShare,
   AddFile, RemoveFile, RemoveBundleItem

\* What has been saved while nothing was on its way is what the program finds
\* when it starts again: loadQueue brings back the queued and the finished files
\* as they were, after any history of requests, failures and earlier restarts.
THEOREM FilesComeBack == Spec /\ ~Overlap => RestartKeepsFiles
<1>1. ASSUME TypeOK, MInv, FInv, XInv, [Next]_vars, crashes' # crashes, ~dirty, AtRest
      PROVE  queued' = queued /\ finished' = {f \in finished : place[f] # "unmoved"}
  <2>1. /\ alive /\ queued' = Loaded("queued", {"none", "temp", "unmoved"}) /\ finished' = Loaded("finished", {"target"})
    BY <1>1, OnlyRestarts DEF Restart
  <2>2. (\A f \in Files : FileOK(f) /\ Saved(f)) /\ Moving /\ (\A f \in queued : place[f] # "target")
    BY <1>1, <2>1 DEF MInv, FInv, FilesOK, XInv, XmlOK
  <2>3. /\ fileStatus \in [Files -> FileStatuses]
        /\ place \in [Files -> {"none", "temp"} \cup MoveResults]
        /\ queued \subseteq Files /\ finished \subseteq Files /\ queued \cap finished = {}
    BY <1>1 DEF TypeOK
  <2>4. ASSUME NEW f \in Files PROVE (f \in queued' <=> f \in queued)
                                    /\ (f \in finished' <=> f \in finished /\ place[f] # "unmoved")
    <3>1. ~HasTask(f) /\ dl[f] = "idle" /\ remover # f BY <1>1, RestFacts
    <3>2. CASE f \in queued
      <4>1. fileStatus[f] = "queued" BY <3>1, <3>2, <2>2 DEF FileOK
      <4>2. xml.files[f] = "queued" BY <4>1, <3>2, <2>2 DEF Saved, SavedAs
      <4>3. place[f] \in {"none", "temp", "unmoved"} BY <3>2, <2>2, <2>3, BundleAssumption
      <4> QED BY <4>2, <4>3, <3>2, <2>1, <2>3 DEF Loaded
    <3>3. CASE f \in finished
      <4>1. f \in known /\ fileStatus[f] \in {"completed", "invalid"}
        BY <3>1, <3>3, <2>2, <2>3 DEF FileOK, HasTask, Worked, FileStatuses
      <4>2. place[f] \in {"target", "unmoved"} BY <4>1, <2>2, BundleAssumption DEF Moving
      <4>3. place[f] = "target" => xml.files[f] = "finished" BY <4>1, <3>3, <2>2 DEF Saved, SavedAs
      <4>4. place[f] = "unmoved" => ~Loadable(f) \/ xml.files[f] = "finished" BY <4>1, <3>3, <2>2 DEF Saved, SavedAs
      <4> QED BY <4>2, <4>3, <4>4, <3>3, <2>1, <2>3 DEF Loaded, Loadable
    <3>4. CASE f \notin queued \cup finished
      <4>1. ~Loadable(f) BY <3>4, <2>2 DEF Saved
      <4> QED BY <4>1, <3>4, <2>1 DEF Loaded, Loadable
    <3> QED BY <3>2, <3>3, <3>4
  <2>5. queued' \subseteq Files /\ finished' \subseteq Files BY <2>1 DEF Loaded
  <2> QED BY <2>3, <2>4, <2>5
<1>2. TypeOK /\ MInv /\ FInv /\ XInv /\ [Next]_vars
        => [crashes' # crashes /\ ~dirty /\ AtRest =>
              /\ queued' = queued
              /\ finished' = {f \in finished : place[f] # "unmoved"}]_vars
  BY <1>1
<1> QED
  BY <1>2, InitTypeOK, NextTypeOK, InitMInv, NextMInv, InitFInv, NextFInv, InitXInv, NextXInv, PTL
  DEF Spec, RestartKeepsFiles
=============================================================================
