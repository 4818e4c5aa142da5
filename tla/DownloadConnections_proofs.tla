--------------------- MODULE DownloadConnections_proofs ---------------------
(***************************************************************************)
(* The download connections to one user, for any number of items and       *)
(* sockets, any limits and whatever the user and the network do.           *)
(***************************************************************************)
EXTENDS DownloadConnections, FiniteSetTheorems, SequenceTheorems, TLAPS

Types ==
    /\ downloads \in Seq(Tokens)
    /\ items \in [Tokens -> Item]
    /\ uc \in [Conns -> Connection]
    /\ idlers \subseteq Conns

\* Where a socket is before it has an item.
Early == {"none", "login", "found", "claim", "upload"}

\* A socket has an item from the claim to the end, and only one that looks for
\* work after a download or waits for some becomes an idler.
Fits(u, idle) ==
    /\ u.at \in Early => u.st = "LOGIN" /\ u.file = "NONE"
    /\ u.assoc <=> u.at \notin Early
    /\ u.at \in {"check", "idling"} => u.file = "NONE" /\ ~idle
    /\ u.at = "idling" => u.st = "IDLE"
    /\ u.st = "IDLE" => u.file = "NONE"
    /\ idle => u.st = "IDLE"

SocketsFit == \A c \in Conns : Fits(uc[c], c \in idlers)

Creates(u) == u.at \in {"create", "failcreate"}

\* No item of a user without MCN is marked, so nothing creates a second one.
SingleItem ==
    ~Mcn => /\ \A t \in Tokens : ~items[t].mcn
            /\ \A c \in Conns : ~Creates(uc[c])
            /\ Len(downloads) <= 1

\* The end of the socket will free the item t.
Frees(u, t) == u.assoc /\ u.tok = t /\ u.at \notin {"failcreate", "drop"}

Owned == \A t \in Queued : items[t].state = "ACTIVE" => \E c \in Conns : Frees(uc[c], t)

CInv == Types /\ SocketsFit /\ SingleItem /\ Owned

-----------------------------------------------------------------------------
(* Sockets and items *)

LEMMA TaskAdded ==
  ASSUME NEW u \in Connection, NEW task \in Tasks
  PROVE  /\ WithTask(u, task) \in Connection
         /\ WithTask(u, task).at = u.at /\ WithTask(u, task).tok = u.tok /\ WithTask(u, task).st = u.st
         /\ WithTask(u, task).assoc = u.assoc /\ WithTask(u, task).file = u.file
<1>1. u.tasks \in Seq(Tasks) BY DEF Connection
<1>2. Append(u.tasks, task) \in Seq(Tasks) BY <1>1
<1> QED BY <1>1, <1>2 DEF WithTask, Connection

LEMMA StateSet ==
  ASSUME NEW u \in Connection, NEW st \in {"LOGIN", "SND", "RUNNING", "IDLE"}
  PROVE  /\ WithState(u, st) \in Connection
         /\ WithState(u, st).at = u.at /\ WithState(u, st).tok = u.tok /\ WithState(u, st).st = st
         /\ WithState(u, st).assoc = u.assoc /\ WithState(u, st).file = u.file
<1> DEFINE v == [u EXCEPT !.st = st]
<1>1. v \in Connection /\ v.at = u.at /\ v.tok = u.tok /\ v.st = st /\ v.assoc = u.assoc /\ v.file = u.file
  BY DEF Connection
<1>2. u.st = st => WithState(u, st) = u BY DEF WithState
<1>3. u.st # st => WithState(u, st) = WithTask(v, "STATE") BY DEF WithState
<1> HIDE DEF v
<1> QED BY <1>1, <1>2, <1>3, TaskAdded DEF Tasks

LEMMA TaskTaken ==
  ASSUME Types, NEW c \in Conns, NEW task, NextTask(c, task)
  PROVE  /\ TaskDone(c) \in Connection /\ uc[c].at = "up"
         /\ TaskDone(c).at = uc[c].at /\ TaskDone(c).tok = uc[c].tok /\ TaskDone(c).st = uc[c].st
         /\ TaskDone(c).assoc = uc[c].assoc /\ TaskDone(c).file = uc[c].file
<1>1. uc[c] \in Connection BY DEF Types
<1>2. uc[c].tasks \in Seq(Tasks) /\ uc[c].tasks # << >> BY <1>1 DEF NextTask, Connection
<1>3. Tail(uc[c].tasks) \in Seq(Tasks) BY <1>2
<1> QED BY <1>1, <1>3 DEF TaskDone, Connection, NextTask

LEMMA NewItemType == NewItem \in Item /\ NewItem.state = "WAITING" /\ ~NewItem.mcn
BY ConnectionsAssumption DEF NewItem, Item, Attempts

LEMMA MoreType == \A e \in -1 .. ErrorBound : More(e) \in -1 .. ErrorBound
BY ConnectionsAssumption DEF More

LEMMA NoConnectionType == NoConnection \in Connection
<1>1. << >> \in Seq(Tasks) OBVIOUS
<1> QED BY <1>1 DEF NoConnection, Connection, Places, Files

LEMMA IndexOf ==
  ASSUME Types, NEW t \in Queued
  PROVE  Index(t) \in 1 .. Len(downloads)
BY DEF Index, Queued

LEMMA QueuedTokens == Types => Queued \subseteq Tokens
BY DEF Types, Queued

\* What is left when items are removed.
LEMMA Erasing ==
  ASSUME Types, NEW gone \in SUBSET Queued, After(gone)
  PROVE  downloads' \in Seq(Tokens) /\ Len(downloads') <= Len(downloads) /\ Queued' \subseteq Queued
<1>1. CASE gone = {} BY <1>1 DEF After, Types, Queued
<1>2. CASE gone # {}
  <2>1. PICK t \in gone : downloads' = Erased(Index(t)) BY <1>2 DEF After
  <2>2. PICK k \in 1 .. Len(downloads) : downloads' = Erased(k) BY <2>1, IndexOf
  <2>3. downloads \in Seq(Tokens) /\ Len(downloads) \in Nat BY DEF Types
  <2>4. /\ SubSeq(downloads, 1, k - 1) \in Seq(Tokens) /\ Len(SubSeq(downloads, 1, k - 1)) = k - 1
        /\ \A i \in 1 .. k - 1 : SubSeq(downloads, 1, k - 1)[i] = downloads[i]
    BY <2>3
  <2>5. /\ SubSeq(downloads, k + 1, Len(downloads)) \in Seq(Tokens)
        /\ Len(SubSeq(downloads, k + 1, Len(downloads))) = Len(downloads) - k
        /\ \A i \in 1 .. Len(downloads) - k : SubSeq(downloads, k + 1, Len(downloads))[i] = downloads[k + i]
    BY <2>3
  <2>6. /\ downloads' \in Seq(Tokens) /\ Len(downloads') = Len(downloads) - 1
        /\ \A i \in 1 .. Len(downloads) - 1 : \E j \in 1 .. Len(downloads) : downloads'[i] = downloads[j]
    <3> DEFINE a == SubSeq(downloads, 1, k - 1)
               b == SubSeq(downloads, k + 1, Len(downloads))
    <3> HIDE DEF a, b
    <3>1. a \in Seq(Tokens) /\ Len(a) = k - 1 /\ \A i \in 1 .. k - 1 : a[i] = downloads[i] BY <2>4 DEF a
    <3>2. b \in Seq(Tokens) /\ Len(b) = Len(downloads) - k BY <2>5 DEF b
    <3>3. \A i \in 1 .. Len(downloads) - k : b[i] = downloads[k + i] BY <2>5 DEF b
    <3>4. downloads' = a \o b BY <2>2 DEF Erased, a, b
    <3>5. a \o b \in Seq(Tokens) /\ Len(a \o b) = Len(downloads) - 1 BY <2>3, <3>1, <3>2
    <3>6. ASSUME NEW i \in 1 .. Len(downloads) - 1
          PROVE  \E j \in 1 .. Len(downloads) : (a \o b)[i] = downloads[j]
      <4>1. CASE i <= k - 1
        <5>1. (a \o b)[i] = a[i] BY <3>1, <3>2, <4>1, <2>3
        <5> QED BY <5>1, <3>1, <4>1, <2>3
      <4>2. CASE ~(i <= k - 1)
        <5>0. i > Len(a) /\ i <= Len(a) + Len(b) BY <3>1, <3>2, <4>2, <2>3
        <5>1. (a \o b)[i] = b[i - Len(a)] BY <5>0, <3>1, <3>2, ConcatProperties
        <5>2. i - (k - 1) \in 1 .. Len(downloads) - k /\ k + (i - (k - 1)) \in 1 .. Len(downloads) BY <4>2, <2>3
        <5> QED BY <5>1, <5>2, <3>1, <3>3
      <4> QED BY <4>1, <4>2
    <3> QED BY <3>4, <3>5, <3>6
  <2> QED BY <2>3, <2>6 DEF Queued
<1> QED BY <1>1, <1>2

LEMMA Creating ==
  ASSUME Types, NEW type \in {"ANY", "SMALL", "MCN_NORMAL"}, NEW mcn \in BOOLEAN, CreateItem(type, mcn)
  PROVE  /\ downloads' \in Seq(Tokens) /\ items' \in [Tokens -> Item]
         /\ Len(downloads') = Len(downloads) + 1
         /\ \A t \in Tokens : items'[t].mcn => mcn \/ items[t].mcn
         /\ \A t \in Queued' : items'[t].state = "ACTIVE" => t \in Queued /\ items[t].state = "ACTIVE"
<1>1. PICK t \in Tokens : /\ downloads' = Append(downloads, t)
                          /\ items' = [items EXCEPT ![t] = [NewItem EXCEPT !.type = type, !.mcn = mcn]]
  BY DEF CreateItem, Fresh
<1> DEFINE new == [NewItem EXCEPT !.type = type, !.mcn = mcn]
<1>2. new \in Item /\ new.state = "WAITING" /\ new.mcn = mcn BY NewItemType DEF Item
<1> HIDE DEF new
<1>3. items' = [items EXCEPT ![t] = new] BY <1>1 DEF new
<1>4. downloads' \in Seq(Tokens) /\ Len(downloads') = Len(downloads) + 1 BY <1>1 DEF Types
<1>5. items' \in [Tokens -> Item] BY <1>2, <1>3 DEF Types
<1>6. \A u \in Tokens : u # t => items'[u] = items[u] BY <1>3 DEF Types
<1>7. items'[t] = new BY <1>3 DEF Types
<1>8. Queued' \subseteq Queued \union {t} BY <1>1, <1>4 DEF Types, Queued
<1>9. Queued' \subseteq Tokens BY <1>4 DEF Queued
<1> QED BY <1>2, <1>4, <1>5, <1>6, <1>7, <1>8, <1>9

\* A step of one socket, which may change items too.
LEMMA SocketStep ==
  ASSUME CInv, NEW c \in Conns, NEW u \in Connection, Step(c, u),
         idlers' \subseteq Conns, \A d \in Conns \ {c} : d \in idlers' <=> d \in idlers,
         Fits(u, c \in idlers'),
         downloads' \in Seq(Tokens), items' \in [Tokens -> Item],
         ~Mcn => /\ \A t \in Tokens : ~items'[t].mcn
                 /\ ~Creates(u) /\ Len(downloads') <= 1,
         \A t \in Queued' : items'[t].state = "ACTIVE" =>
             Frees(u, t) \/ (t \in Queued /\ items[t].state = "ACTIVE" /\ ~Frees(uc[c], t))
  PROVE  CInv'
<1>1. uc' = [uc EXCEPT ![c] = u] BY DEF Step
<1>2. uc' \in [Conns -> Connection] BY <1>1 DEF CInv, Types
<1>3. uc'[c] = u /\ \A d \in Conns \ {c} : uc'[d] = uc[d] BY <1>1 DEF CInv, Types
<1>4. Types' BY <1>2 DEF Types
<1>5. SocketsFit' BY <1>3 DEF CInv, SocketsFit
<1>6. SingleItem' BY <1>3 DEF CInv, SingleItem
<1>7. Owned'
  <2> SUFFICES ASSUME NEW t \in Queued', items'[t].state = "ACTIVE"
               PROVE  \E d \in Conns : Frees(uc'[d], t)
    BY DEF Owned, Frees
  <2>1. CASE Frees(u, t) BY <2>1, <1>3
  <2>2. CASE t \in Queued /\ items[t].state = "ACTIVE" /\ ~Frees(uc[c], t)
    <3>1. PICK d \in Conns : Frees(uc[d], t) BY <2>2 DEF CInv, Owned
    <3> QED BY <3>1, <2>2, <1>3
  <2> QED BY <2>1, <2>2
<1> QED BY <1>4, <1>5, <1>6, <1>7 DEF CInv

\* A step of one socket that touches nothing else: it keeps its item.
LEMMA SocketOnly ==
  ASSUME CInv, NEW c \in Conns, NEW u \in Connection, Step(c, u),
         UNCHANGED << downloads, items >>,
         idlers' \subseteq Conns, \A d \in Conns \ {c} : d \in idlers' <=> d \in idlers,
         Fits(u, c \in idlers'), ~Mcn => ~Creates(u),
         \A t : Frees(uc[c], t) => Frees(u, t)
  PROVE  CInv'
<1>1. Queued' = Queued BY DEF Queued
<1>2. downloads' \in Seq(Tokens) /\ items' \in [Tokens -> Item] BY DEF CInv, Types
<1>3. ~Mcn => /\ \A t \in Tokens : ~items'[t].mcn
              /\ ~Creates(u) /\ Len(downloads') <= 1
  BY DEF CInv, SingleItem
<1> QED BY <1>1, <1>2, <1>3, SocketStep

\* Sockets only get tasks.
LEMMA TasksOnly ==
  ASSUME CInv, UNCHANGED << downloads, items, idlers >>,
         uc' \in [Conns -> Connection],
         \A c \in Conns : /\ uc'[c].at = uc[c].at /\ uc'[c].tok = uc[c].tok /\ uc'[c].st = uc[c].st
                          /\ uc'[c].assoc = uc[c].assoc /\ uc'[c].file = uc[c].file
  PROVE  CInv'
<1>1. Queued' = Queued BY DEF Queued
<1>2. Types' BY DEF CInv, Types
<1>3. SocketsFit' BY DEF CInv, SocketsFit, Fits
<1>4. SingleItem' BY DEF CInv, SingleItem, Creates
<1>5. Owned' BY <1>1 DEF CInv, Owned, Frees
<1> QED BY <1>2, <1>3, <1>4, <1>5 DEF CInv

\* Only items change, and none becomes active.
LEMMA ItemsOnly ==
  ASSUME CInv, UNCHANGED << uc, idlers >>,
         downloads' \in Seq(Tokens), items' \in [Tokens -> Item],
         ~Mcn => (\A t \in Tokens : ~items'[t].mcn) /\ Len(downloads') <= 1,
         \A t \in Queued' : items'[t].state = "ACTIVE" => t \in Queued /\ items[t].state = "ACTIVE"
  PROVE  CInv'
<1>1. Types' BY DEF CInv, Types
<1>2. SocketsFit' BY DEF CInv, SocketsFit
<1>3. SingleItem' BY DEF CInv, SingleItem
<1>4. Owned' BY DEF CInv, Owned, Frees
<1> QED BY <1>1, <1>2, <1>3, <1>4 DEF CInv

-----------------------------------------------------------------------------
(* The threads that queue files, and the user *)

LEMMA InitCInv == Init => CInv
<1> SUFFICES ASSUME Init PROVE CInv OBVIOUS
<1>1. Types BY NewItemType, NoConnectionType DEF Init, Types
<1>2. SocketsFit BY DEF Init, SocketsFit, Fits, NoConnection, Early
<1>3. SingleItem BY DEF Init, SingleItem, NewItem, NoConnection, Creates
<1>4. Owned BY DEF Init, Owned, Queued
<1> QED BY <1>1, <1>2, <1>3, <1>4 DEF CInv

LEMMA QueueSteps ==
  ASSUME CInv, NEW f \in Files, NEW small \in BOOLEAN,
         \/ AddFile(f) \/ RemoveFile(f) \/ UserDisconnected \/ UserConnected
         \/ CheckIdle(small) \/ GetDownloadConnection(small)
  PROVE  CInv'
<1>t. Types BY DEF CInv
<1>1. CASE AddFile(f) \/ UserConnected
  <2>1. UNCHANGED << downloads, items, uc, idlers >> BY <1>1 DEF AddFile, UserConnected
  <2> QED BY <2>1 DEF CInv, Types, SocketsFit, SingleItem, Owned, Queued
<1>2. CASE RemoveFile(f)
  <2>1. uc' = WithoutFile(f, Conns) BY <1>2 DEF RemoveFile
  <2>2. \A c \in Conns : uc'[c] = uc[c] \/ uc'[c] = WithTask(uc[c], "DISCONNECT") BY <2>1 DEF WithoutFile
  <2>3. DOMAIN uc' = Conns /\ uc' = [c \in Conns |-> uc'[c]] BY <2>1 DEF WithoutFile
  <2>4. \A c \in Conns : /\ uc'[c] \in Connection
                         /\ uc'[c].at = uc[c].at /\ uc'[c].tok = uc[c].tok /\ uc'[c].st = uc[c].st
                         /\ uc'[c].assoc = uc[c].assoc /\ uc'[c].file = uc[c].file
    BY <1>t, <2>2, TaskAdded DEF Types, Tasks
  <2> QED BY <1>2, <2>3, <2>4, TasksOnly DEF RemoveFile
<1>3. CASE UserDisconnected
  <2>1. /\ \A c \in Conns : uc'[c] = uc[c] \/ uc'[c] = WithTask(uc[c], "DISCONNECT")
        /\ DOMAIN uc' = Conns /\ uc' = [c \in Conns |-> uc'[c]]
    BY <1>3 DEF UserDisconnected
  <2>2. \A c \in Conns : /\ uc'[c] \in Connection
                         /\ uc'[c].at = uc[c].at /\ uc'[c].tok = uc[c].tok /\ uc'[c].st = uc[c].st
                         /\ uc'[c].assoc = uc[c].assoc /\ uc'[c].file = uc[c].file
    BY <1>t, <2>1, TaskAdded DEF Types, Tasks
  <2> QED BY <1>3, <2>1, <2>2, TasksOnly DEF UserDisconnected
<1>4. CASE CheckIdle(small)
  <2>1. /\ UNCHANGED << downloads, items, idlers >>
        /\ uc' = uc \/ \E c \in Conns : uc' = [uc EXCEPT ![c] = WithTask(uc[c], "REVIVE")]
    BY <1>4, <1>t DEF CheckIdle, Idlers, Types
  <2>2. /\ uc' \in [Conns -> Connection]
        /\ \A c \in Conns : /\ uc'[c].at = uc[c].at /\ uc'[c].tok = uc[c].tok /\ uc'[c].st = uc[c].st
                            /\ uc'[c].assoc = uc[c].assoc /\ uc'[c].file = uc[c].file
    BY <1>t, <2>1, TaskAdded DEF Types, Tasks
  <2> QED BY <2>1, <2>2, TasksOnly
<1>5. CASE GetDownloadConnection(small)
  <2>1. UNCHANGED << uc, idlers >> BY <1>5 DEF GetDownloadConnection
  <2>2. CASE AllowNewMCN(items, small)
    <3>1. CreateItem(IF small THEN "SMALL" ELSE "ANY", FALSE) BY <1>5, <2>2 DEF GetDownloadConnection
    <3>2. ~Mcn => Len(downloads) = 0
      <4>1. \A t \in Queued : items[t].mcn BY <2>2 DEF AllowNewMCN
      <4>2. ~Mcn => Queued = {} BY <4>1, <1>t, QueuedTokens DEF CInv, SingleItem
      <4>3. Len(downloads) \in Nat BY <1>t DEF Types
      <4>4. Len(downloads) # 0 => downloads[1] \in Queued BY <4>3 DEF Queued
      <4> QED BY <4>2, <4>4
    <3>3. /\ downloads' \in Seq(Tokens) /\ items' \in [Tokens -> Item]
          /\ Len(downloads') = Len(downloads) + 1
          /\ \A t \in Tokens : items'[t].mcn => items[t].mcn
          /\ \A t \in Queued' : items'[t].state = "ACTIVE" => t \in Queued /\ items[t].state = "ACTIVE"
      BY <1>t, <3>1, Creating
    <3>4. ~Mcn => (\A t \in Tokens : ~items'[t].mcn) /\ Len(downloads') <= 1
      BY <3>2, <3>3 DEF CInv, SingleItem
    <3> QED BY <2>1, <3>3, <3>4, ItemsOnly
  <2>3. CASE ~AllowNewMCN(items, small)
    <3>1. /\ UNCHANGED downloads
          /\ items' = [t \in Tokens |-> IF t \in WaitingItems(small) THEN ResetFatalError(items[t])
                                         ELSE items[t]]
      BY <1>5, <2>3 DEF GetDownloadConnection
    <3>2. \A t \in Tokens : /\ ResetFatalError(items[t]) \in Item
                            /\ ResetFatalError(items[t]).mcn = items[t].mcn
                            /\ ResetFatalError(items[t]).state = items[t].state
      BY <1>t DEF Types, ResetFatalError, Item, Attempts
    <3>3. /\ items' \in [Tokens -> Item]
          /\ \A t \in Tokens : items'[t].mcn = items[t].mcn /\ items'[t].state = items[t].state
      BY <1>t, <3>1, <3>2 DEF Types
    <3>4. Queued' = Queued /\ Queued \subseteq Tokens BY <1>t, <3>1, QueuedTokens DEF Queued
    <3>5. /\ downloads' \in Seq(Tokens) /\ UNCHANGED << uc, idlers >>
          /\ ~Mcn => (\A t \in Tokens : ~items'[t].mcn) /\ Len(downloads') <= 1
      BY <2>1, <3>1, <3>3 DEF CInv, SingleItem, Types
    <3>6. \A t \in Queued' : items'[t].state = "ACTIVE" => t \in Queued /\ items[t].state = "ACTIVE"
      BY <3>3, <3>4
    <3> QED BY <3>3, <3>5, <3>6, ItemsOnly
  <2> QED BY <2>2, <2>3
<1> QED BY <1>1, <1>2, <1>3, <1>4, <1>5

-----------------------------------------------------------------------------
(* The timer *)

\* An item gets another state, but not ACTIVE.
LEMMA ItemChanges ==
  ASSUME CInv, NEW t \in Tokens, NEW item \in Item, items' = [items EXCEPT ![t] = item],
         UNCHANGED << downloads, uc, idlers >>,
         item.mcn = items[t].mcn, item.state = "ACTIVE" => items[t].state = "ACTIVE"
  PROVE  CInv'
<1>1. /\ items' \in [Tokens -> Item]
      /\ \A u \in Tokens : /\ items'[u].mcn = items[u].mcn
                           /\ items'[u].state = "ACTIVE" => items[u].state = "ACTIVE"
  BY DEF CInv, Types
<1>2. Queued' = Queued /\ Queued \subseteq Tokens BY QueuedTokens DEF CInv, Queued
<1>3. /\ downloads' \in Seq(Tokens) /\ UNCHANGED << uc, idlers >>
      /\ ~Mcn => (\A u \in Tokens : ~items'[u].mcn) /\ Len(downloads') <= 1
  BY <1>1 DEF CInv, SingleItem, Types
<1>4. \A u \in Queued' : items'[u].state = "ACTIVE" => u \in Queued /\ items[u].state = "ACTIVE"
  BY <1>1, <1>2
<1> QED BY <1>1, <1>3, <1>4, ItemsOnly

\* putCQIUnsafe for the item t, if it is there.
LEMMA Putting ==
  ASSUME CInv, NEW t, After(Queued \intersect {t}), items' = Without({t}, items)
  PROVE  /\ downloads' \in Seq(Tokens) /\ items' \in [Tokens -> Item]
         /\ ~Mcn => (\A u \in Tokens : ~items'[u].mcn) /\ Len(downloads') <= 1
         /\ \A u \in Queued' : items'[u].state = "ACTIVE" => u # t /\ u \in Queued /\ items[u].state = "ACTIVE"
<1>1. downloads' \in Seq(Tokens) /\ Len(downloads') <= Len(downloads) /\ Queued' \subseteq Queued
  BY Erasing DEF CInv
<1>2. /\ items' \in [Tokens -> Item]
      /\ \A u \in Tokens : /\ u = t => items'[u] = NewItem
                           /\ u # t => items'[u] = items[u]
  BY NewItemType DEF CInv, Types, Without
<1>3. Queued \subseteq Tokens BY QueuedTokens DEF CInv
<1>4. Len(downloads) \in Nat /\ Len(downloads') \in Nat BY <1>1 DEF CInv, Types
<1>5. ~Mcn => (\A u \in Tokens : ~items'[u].mcn) /\ Len(downloads') <= 1
  <2>1. ASSUME ~Mcn, NEW u \in Tokens PROVE ~items'[u].mcn
    <3>1. ~items[u].mcn BY <2>1 DEF CInv, SingleItem
    <3> QED BY <3>1, <1>2, NewItemType
  <2>2. ~Mcn => Len(downloads) <= 1 BY DEF CInv, SingleItem
  <2>3. ~Mcn => Len(downloads') <= 1 BY <2>2, <1>1, <1>4
  <2> QED BY <2>1, <2>3
<1>6. \A u \in Queued' : items'[u].state = "ACTIVE" => u # t /\ u \in Queued /\ items[u].state = "ACTIVE"
  <2> SUFFICES ASSUME NEW u \in Queued', items'[u].state = "ACTIVE"
               PROVE  u # t /\ u \in Queued /\ items[u].state = "ACTIVE"
    OBVIOUS
  <2>1. u \in Queued /\ u \in Tokens BY <1>1, <1>3
  <2>2. u # t BY <2>1, <1>2, NewItemType
  <2> QED BY <2>1, <2>2, <1>2
<1> QED BY <1>1, <1>2, <1>5, <1>6

LEMMA TimerSteps ==
  ASSUME CInv, NEW t \in Tokens,
         ForceItem(t) \/ TimerVisit(t) \/ Elapse(t) \/ ForgetToken(t)
  PROVE  CInv'
<1>t. Types BY DEF CInv
<1>i. items[t] \in Item /\ items[t].errors \in -1 .. ErrorBound BY <1>t DEF Types, Item
<1>1. CASE ForceItem(t)
  <2>1. CASE \E c \in idlers : uc[c].tok = t
    <3>1. PICK c \in Conns : uc' = [uc EXCEPT ![c] = WithTask(uc[c], "REVIVE")]
      BY <1>1, <2>1, <1>t DEF ForceItem, Types
    <3>2. UNCHANGED << downloads, items, idlers >> BY <1>1, <2>1 DEF ForceItem
    <3>3. /\ uc' \in [Conns -> Connection]
          /\ \A d \in Conns : /\ uc'[d].at = uc[d].at /\ uc'[d].tok = uc[d].tok /\ uc'[d].st = uc[d].st
                              /\ uc'[d].assoc = uc[d].assoc /\ uc'[d].file = uc[d].file
      BY <1>t, <3>1, TaskAdded DEF Types, Tasks
    <3> QED BY <3>2, <3>3, TasksOnly
  <2>2. CASE ~\E c \in idlers : uc[c].tok = t
    <3>1. items' = [items EXCEPT ![t] = [items[t] EXCEPT !.attempt = "FORCED"]] /\ UNCHANGED << downloads, uc, idlers >>
      BY <1>1, <2>2 DEF ForceItem
    <3>2. /\ [items[t] EXCEPT !.attempt = "FORCED"] \in Item
          /\ [items[t] EXCEPT !.attempt = "FORCED"].mcn = items[t].mcn
          /\ [items[t] EXCEPT !.attempt = "FORCED"].state = items[t].state
      BY <1>i DEF Item, Attempts
    <3> QED BY <3>1, <3>2, ItemChanges
  <2> QED BY <2>1, <2>2
<1>2. CASE TimerWait(t)
  <2>1. UNCHANGED << downloads, uc, idlers >> BY <1>2 DEF TimerWait
  <2>2. \/ items' = [items EXCEPT ![t] = [items[t] EXCEPT !.errors = More(items[t].errors), !.state = "WAITING"]]
        \/ items' = [items EXCEPT ![t] = items[t]]
    BY <1>2, <1>t DEF TimerWait, Types
  <2>3. /\ [items[t] EXCEPT !.errors = More(items[t].errors), !.state = "WAITING"] \in Item
        /\ [items[t] EXCEPT !.errors = More(items[t].errors), !.state = "WAITING"].mcn = items[t].mcn
        /\ [items[t] EXCEPT !.errors = More(items[t].errors), !.state = "WAITING"].state = "WAITING"
    BY <1>i, MoreType DEF Item
  <2> QED BY <2>1, <2>2, <2>3, <1>i, ItemChanges
<1>3. CASE TimerGiveUp(t)
  <2>1. UNCHANGED << downloads, uc, idlers >> BY <1>3 DEF TimerGiveUp
  <2> DEFINE item == [items[t] EXCEPT !.attempt = "RECENT", !.type = TypeToTry(t, "NORMAL")]
  <2>2. TypeToTry(t, "NORMAL") \in {"ANY", "SMALL", "MCN_NORMAL"} BY <1>i DEF TypeToTry, Item
  <2>3. item \in Item /\ item.mcn = items[t].mcn /\ item.state = items[t].state BY <1>i, <2>2 DEF Item, Attempts
  <2>4. items' = [items EXCEPT ![t] = item] \/ items' = [items EXCEPT ![t] = items[t]]
    BY <1>3, <1>t DEF TimerGiveUp, Types
  <2> HIDE DEF item
  <2> QED BY <2>1, <2>3, <2>4, <1>i, ItemChanges
<1>4. CASE TimerAttempt(t)
  <2>1. UNCHANGED << downloads, uc, idlers >> BY <1>4 DEF TimerAttempt
  <2>2. PICK f \in TriedFiles(t) :
           \/ items' = [items EXCEPT ![t] = [items[t] EXCEPT !.type = TypeToTry(t, f), !.state = "CONNECTING"]]
           \/ items' = [items EXCEPT ![t] = [items[t] EXCEPT !.type = TypeToTry(t, f), !.attempt = "RECENT"]]
    BY <1>4 DEF TimerAttempt
  <2> DEFINE connecting == [items[t] EXCEPT !.type = TypeToTry(t, f), !.state = "CONNECTING"]
             waiting == [items[t] EXCEPT !.type = TypeToTry(t, f), !.attempt = "RECENT"]
  <2>3. TypeToTry(t, f) \in {"ANY", "SMALL", "MCN_NORMAL"} BY <1>i DEF TypeToTry, Item
  <2>4. connecting \in Item /\ connecting.mcn = items[t].mcn /\ connecting.state = "CONNECTING"
    BY <1>i, <2>3 DEF Item
  <2>5. waiting \in Item /\ waiting.mcn = items[t].mcn /\ waiting.state = items[t].state
    BY <1>i, <2>3 DEF Item, Attempts
  <2>6. items' = [items EXCEPT ![t] = connecting] \/ items' = [items EXCEPT ![t] = waiting] BY <2>2
  <2> HIDE DEF connecting, waiting
  <2> QED BY <2>1, <2>4, <2>5, <2>6, ItemChanges
<1>5. CASE Elapse(t)
  <2>1. UNCHANGED << downloads, uc, idlers >> BY <1>5 DEF Elapse
  <2>2. \E a \in Attempts : items' = [items EXCEPT ![t] = [items[t] EXCEPT !.attempt = a]]
    BY <1>5 DEF Elapse, Attempts
  <2>3. \A a \in Attempts : /\ [items[t] EXCEPT !.attempt = a] \in Item
                            /\ [items[t] EXCEPT !.attempt = a].mcn = items[t].mcn
                            /\ [items[t] EXCEPT !.attempt = a].state = items[t].state
    BY <1>i DEF Item
  <2> QED BY <2>1, <2>2, <2>3, ItemChanges
<1>6. CASE ForgetToken(t)
  <2>1. UNCHANGED << downloads, items, uc, idlers >> BY <1>6 DEF ForgetToken
  <2> QED BY <2>1 DEF CInv, Types, SocketsFit, SingleItem, Owned, Queued
<1> QED BY <1>1, <1>2, <1>3, <1>4, <1>5, <1>6 DEF TimerVisit

\* What the timer does after its visits to the items.
LEMMA TimerEnds ==
  ASSUME CInv, TimerConnect \/ TimerRemove
  PROVE  CInv'
<1>t. Types BY DEF CInv
<1>1. CASE TimerConnect
  <2>1. UNCHANGED << downloads, uc, idlers >> BY <1>1 DEF TimerConnect
  <2>2. CASE timer.tok \notin Tokens
    <3>0. \A e : [items EXCEPT ![timer.tok] = e] = items BY <1>t, <2>2 DEF Types
    <3>1. UNCHANGED items BY <1>1, <3>0 DEF TimerConnect
    <3> QED BY <2>1, <3>1 DEF CInv, Types, SocketsFit, SingleItem, Owned, Queued
  <2>3. CASE timer.tok \in Tokens
    <3>0. PICK u \in Tokens : u = timer.tok BY <2>3
    <3> DEFINE asked == [items[u] EXCEPT !.attempt = "RECENT"]
               failed(e) == [items[u] EXCEPT !.attempt = "RECENT", !.state = "WAITING", !.errors = e]
    <3>1. items[u] \in Item /\ items[u].errors \in -1 .. ErrorBound BY <1>t DEF Types, Item
    <3>2. asked \in Item /\ asked.mcn = items[u].mcn /\ asked.state = items[u].state
      BY <3>1 DEF Item, Attempts
    <3>3. ASSUME NEW e \in -1 .. ErrorBound
          PROVE  failed(e) \in Item /\ failed(e).mcn = items[u].mcn /\ failed(e).state = "WAITING"
      BY <3>1 DEF Item, Attempts
    <3>4. More(items[u].errors) \in -1 .. ErrorBound /\ -1 \in -1 .. ErrorBound
      BY <3>1, MoreType, ConnectionsAssumption
    <3>5. items' = [items EXCEPT ![u] = asked] \/ \E e \in -1 .. ErrorBound : items' = [items EXCEPT ![u] = failed(e)]
      <4>1. \/ items' = [items EXCEPT ![timer.tok] = [items[timer.tok] EXCEPT !.attempt = "RECENT"]]
            \/ \E e \in {More(items[timer.tok].errors), -1} :
                  items' = [items EXCEPT ![timer.tok] = [items[timer.tok] EXCEPT !.attempt = "RECENT",
                                                                                !.state = "WAITING", !.errors = e]]
        BY <1>1 DEF TimerConnect
      <4> QED BY <4>1, <3>0, <3>4
    <3> HIDE DEF asked, failed
    <3> QED BY <2>1, <3>2, <3>3, <3>5, ItemChanges
  <2> QED BY <2>2, <2>3
<1>2. CASE TimerRemove
  <2>1. After(Queued \intersect {timer.tok}) /\ items' = Without({timer.tok}, items) /\ UNCHANGED << uc, idlers >>
    BY <1>2 DEF TimerRemove
  <2>2. PICK u : u = timer.tok OBVIOUS
  <2>3. After(Queued \intersect {u}) /\ items' = Without({u}, items) BY <2>1, <2>2
  <2> QED BY <2>1, <2>3, Putting, ItemsOnly
<1> QED BY <1>1, <1>2

-----------------------------------------------------------------------------
(* The handshake *)

\* A step of one socket that keeps its item, while no item becomes active.
LEMMA SocketKeeps ==
  ASSUME CInv, NEW c \in Conns, NEW u \in Connection, Step(c, u), UNCHANGED idlers,
         Fits(u, c \in idlers), \A t : Frees(uc[c], t) => Frees(u, t),
         downloads' \in Seq(Tokens), items' \in [Tokens -> Item],
         ~Mcn => /\ \A t \in Tokens : ~items'[t].mcn
                 /\ ~Creates(u) /\ Len(downloads') <= 1,
         \A t \in Queued' : items'[t].state = "ACTIVE" => t \in Queued /\ items[t].state = "ACTIVE"
  PROVE  CInv'
<1>1. idlers' \subseteq Conns /\ Fits(u, c \in idlers') BY DEF CInv, Types
<1>2. \A t \in Queued' : items'[t].state = "ACTIVE" =>
          Frees(u, t) \/ (t \in Queued /\ items[t].state = "ACTIVE" /\ ~Frees(uc[c], t))
  OBVIOUS
<1> QED BY <1>1, <1>2, SocketStep

\* A step of one socket that keeps its item and touches nothing else.
LEMMA SocketMoves ==
  ASSUME CInv, NEW c \in Conns, NEW u \in Connection, Step(c, u), UNCHANGED << downloads, items, idlers >>,
         Fits(u, c \in idlers), ~Mcn => ~Creates(u), \A t : Frees(uc[c], t) => Frees(u, t)
  PROVE  CInv'
<1>1. idlers' \subseteq Conns /\ Fits(u, c \in idlers') BY DEF CInv, Types
<1> QED BY <1>1, SocketOnly

\* A socket that has no item is no idler and will free nothing.
LEMMA EarlySocket ==
  ASSUME CInv, NEW c \in Conns, uc[c].at \in Early
  PROVE  c \notin idlers /\ \A t : ~Frees(uc[c], t)
BY DEF CInv, SocketsFit, Fits, Frees

\* A socket without an item ends.
LEMMA EarlyEnd ==
  ASSUME CInv, NEW c \in Conns, uc[c].at \in Early, Step(c, NoConnection),
         UNCHANGED << downloads, items, idlers >>
  PROVE  CInv'
<1>1. c \notin idlers BY EarlySocket
<1>2. Fits(NoConnection, c \in idlers) /\ ~Creates(NoConnection)
  BY <1>1 DEF Fits, Creates, NoConnection, Early
<1> QED BY <1>2, NoConnectionType, EarlySocket, SocketMoves

\* The peer connects: a socket with the token it was given.
LEMMA PeerStep ==
  ASSUME CInv, NEW c \in Conns, NEW t \in Tokens, PeerConnects(c, t)
  PROVE  CInv'
<1> DEFINE u == [NoConnection EXCEPT !.at = "login", !.tok = t]
<1>1. uc[c].at \in Early BY DEF PeerConnects, Early
<1>2. c \notin idlers /\ \A i : ~Frees(uc[c], i) BY <1>1, EarlySocket
<1>3. u \in Connection /\ Fits(u, c \in idlers) /\ ~Creates(u)
  BY NoConnectionType, <1>2 DEF Connection, Places, Fits, Creates, Early, NoConnection
<1>4. Step(c, u) /\ UNCHANGED << downloads, items, idlers >> BY DEF PeerConnects
<1> HIDE DEF u
<1> QED BY <1>2, <1>3, <1>4, SocketMoves

LEMMA LoginSteps ==
  ASSUME CInv, NEW c \in Conns,
         Inf(c) \/ LookUpItem(c) \/ ClaimItem(c) \/ UploadEnds(c)
  PROVE  CInv'
<1>t. Types /\ uc[c] \in Connection BY DEF CInv, Types
<1>f. Fits(uc[c], c \in idlers) BY DEF CInv, SocketsFit
<1>e. uc[c].at \in {"login", "found", "claim", "upload"}
  BY DEF Inf, LookUpItem, ClaimItem, UploadEnds
<1>n. c \notin idlers /\ (\A u : ~Frees(uc[c], u)) /\ idlers \subseteq Conns
  BY <1>e, <1>t, EarlySocket DEF Early, Types
<1>2. CASE Inf(c)
  <2>1. UNCHANGED << downloads, idlers >> /\ uc[c].at = "login" BY <1>2 DEF Inf
  <2>2. CASE uc[c].tok \in Queued /\ Step(c, [uc[c] EXCEPT !.at = "found"])
             /\ items' = [items EXCEPT ![uc[c].tok].errors = 0,
                                       ![uc[c].tok].remote = IF Mcn THEN RemoteLimit ELSE @]
    <3> DEFINE u == [uc[c] EXCEPT !.at = "found"]
    <3>1. u \in Connection /\ Fits(u, c \in idlers) /\ ~Creates(u)
      BY <1>t, <1>f, <1>n, <2>1 DEF Connection, Places, Fits, Creates, Early
    <3>2. PICK i \in Tokens : i = uc[c].tok BY <2>2, <1>t, QueuedTokens
    <3> DEFINE item == [items[i] EXCEPT !.errors = 0, !.remote = IF Mcn THEN RemoteLimit ELSE @]
    <3>3. items' = [items EXCEPT ![i] = item] BY <2>2, <3>2, <1>t DEF Types
    <3>4. items[i] \in Item BY <1>t DEF Types
    <3>5. 0 \in -1 .. ErrorBound BY ConnectionsAssumption
    <3>6. item \in Item /\ item.mcn = items[i].mcn /\ item.state = items[i].state BY <3>4, <3>5 DEF Item
    <3> HIDE DEF item
    <3>7. /\ items' \in [Tokens -> Item]
          /\ \A j \in Tokens : items'[j].mcn = items[j].mcn /\ items'[j].state = items[j].state
      BY <1>t, <3>3, <3>6 DEF Types
    <3>8. Queued' = Queued /\ Queued \subseteq Tokens BY <1>t, <2>1, QueuedTokens DEF Queued
    <3>9. downloads' \in Seq(Tokens) BY <1>t, <2>1 DEF Types
    <3>10. ~Mcn => (\A j \in Tokens : ~items'[j].mcn) /\ Len(downloads') <= 1
      BY <2>1, <3>7 DEF CInv, SingleItem
    <3>11. \A j \in Queued' : items'[j].state = "ACTIVE" => j \in Queued /\ items[j].state = "ACTIVE"
      BY <3>7, <3>8
    <3>12. Step(c, u) BY <2>2
    <3> HIDE DEF u
    <3> QED BY <1>n, <2>1, <3>1, <3>7, <3>9, <3>10, <3>11, <3>12, SocketKeeps
  <2>3. CASE Step(c, NoConnection) /\ UNCHANGED items
    BY <2>1, <2>3, EarlyEnd DEF Early
  <2>4. CASE Step(c, [uc[c] EXCEPT !.at = "upload"]) /\ UNCHANGED items
    <3> DEFINE u == [uc[c] EXCEPT !.at = "upload"]
    <3>1. u \in Connection /\ Fits(u, c \in idlers) /\ ~Creates(u)
      BY <1>t, <1>f, <1>n, <2>1 DEF Connection, Places, Fits, Creates, Early
    <3>2. Step(c, u) BY <2>4
    <3> HIDE DEF u
    <3> QED BY <1>n, <2>1, <2>4, <3>1, <3>2, SocketMoves
  <2> QED BY <1>2, <2>2, <2>3, <2>4 DEF Inf
<1>3. CASE LookUpItem(c)
  <2>1. UNCHANGED << downloads, items, idlers >> /\ uc[c].at = "found" BY <1>3 DEF LookUpItem
  <2>2. CASE Step(c, NoConnection) BY <2>1, <2>2, EarlyEnd DEF Early
  <2>3. CASE \E i \in FindDownload(c) : Step(c, [uc[c] EXCEPT !.at = "claim", !.tok = i])
    <3>1. PICK i \in FindDownload(c) : Step(c, [uc[c] EXCEPT !.at = "claim", !.tok = i]) BY <2>3
    <3>2. i \in Tokens
      <4>1. downloads # << >> => downloads[1] \in Tokens BY <1>t DEF Types
      <4> QED BY <4>1, <1>t, QueuedTokens DEF FindDownload
    <3> DEFINE u == [uc[c] EXCEPT !.at = "claim", !.tok = i]
    <3>3. u \in Connection /\ Fits(u, c \in idlers) /\ ~Creates(u)
      BY <1>t, <1>f, <1>n, <2>1, <3>2 DEF Connection, Places, Fits, Creates, Early
    <3>4. Step(c, u) BY <3>1
    <3> HIDE DEF u
    <3> QED BY <1>n, <2>1, <3>3, <3>4, SocketMoves
  <2> QED BY <1>3, <2>2, <2>3 DEF LookUpItem
<1>4. CASE ClaimItem(c)
  <2>1. UNCHANGED << downloads, idlers >> /\ uc[c].at = "claim" BY <1>4 DEF ClaimItem
  <2> DEFINE small == Mcn /\ items[uc[c].tok].type = "SMALL"
             u == [uc[c] EXCEPT !.at = "check", !.assoc = TRUE, !.small = small]
  <2>2. Step(c, u) BY <1>4 DEF ClaimItem
  <2>3. small \in BOOLEAN BY ConnectionsAssumption
  <2> HIDE DEF small
  <2>4. u \in Connection /\ Fits(u, c \in idlers) /\ ~Creates(u) /\ \A j : j = uc[c].tok => Frees(u, j)
    BY <1>t, <1>f, <1>n, <2>1, <2>3 DEF Connection, Places, Fits, Creates, Early, Frees
  <2>5. /\ items' \in [Tokens -> Item]
        /\ \A j \in Tokens : (items'[j].mcn => Mcn \/ items[j].mcn) /\ (j # uc[c].tok => items'[j] = items[j])
    <3>1. CASE uc[c].tok \notin Tokens
      <4>1. \A e : [items EXCEPT ![uc[c].tok] = e] = items BY <1>t, <3>1 DEF Types
      <4>2. UNCHANGED items BY <1>4, <4>1 DEF ClaimItem
      <4> QED BY <4>2, <1>t DEF Types
    <3>2. CASE uc[c].tok \in Tokens
      <4>1. PICK i \in Tokens : i = uc[c].tok BY <3>2
      <4> DEFINE type == IF Mcn /\ ~(Mcn /\ items[i].type = "SMALL") THEN "MCN_NORMAL" ELSE items[i].type
                 item == [items[i] EXCEPT !.state = "ACTIVE", !.mcn = Mcn \/ items[i].mcn, !.type = type]
      <4>2. items[i] \in Item BY <1>t DEF Types
      <4>3. type \in {"ANY", "SMALL", "MCN_NORMAL"} /\ (Mcn \/ items[i].mcn) \in BOOLEAN BY <4>2 DEF Item
      <4>4. items' = [items EXCEPT ![i] = item] BY <1>4, <4>1 DEF ClaimItem
      <4> HIDE DEF type
      <4>5. item \in Item /\ item.mcn = (Mcn \/ items[i].mcn) BY <4>2, <4>3 DEF Item
      <4> HIDE DEF item
      <4>6. items' \in [Tokens -> Item] BY <1>t, <4>4, <4>5 DEF Types
      <4>7. items'[i] = item /\ \A j \in Tokens : j # i => items'[j] = items[j] BY <1>t, <4>4 DEF Types
      <4>8. ASSUME NEW j \in Tokens, items'[j].mcn PROVE Mcn \/ items[j].mcn
        <5>1. CASE j = i BY <5>1, <4>5, <4>7, <4>8
        <5>2. CASE j # i BY <5>2, <4>7, <4>8
        <5> QED BY <5>1, <5>2
      <4> QED BY <4>1, <4>6, <4>7, <4>8
    <3> QED BY <3>1, <3>2
  <2>6. Queued' = Queued /\ Queued \subseteq Tokens BY <1>t, <2>1, QueuedTokens DEF Queued
  <2>7. ~Mcn => /\ \A j \in Tokens : ~items'[j].mcn
                /\ ~Creates(u) /\ Len(downloads') <= 1
    BY <2>1, <2>4, <2>5 DEF CInv, SingleItem
  <2>8. \A j \in Queued' : items'[j].state = "ACTIVE" =>
            Frees(u, j) \/ (j \in Queued /\ items[j].state = "ACTIVE" /\ ~Frees(uc[c], j))
    BY <1>n, <2>4, <2>5, <2>6
  <2>9. downloads' \in Seq(Tokens) BY <1>t, <2>1 DEF Types
  <2>10. Fits(u, c \in idlers') /\ idlers' \subseteq Conns BY <1>n, <2>1, <2>4
  <2> HIDE DEF u
  <2> QED BY <2>10, <2>1, <2>2, <2>4, <2>5, <2>7, <2>8, <2>9, SocketStep
<1>5. CASE UploadEnds(c)
  <2>1. UNCHANGED << downloads, items, idlers >> /\ Step(c, NoConnection) /\ uc[c].at = "upload"
    BY <1>5 DEF UploadEnds
  <2> QED BY <2>1, EarlyEnd DEF Early
<1> QED BY <1>2, <1>3, <1>4, <1>5

-----------------------------------------------------------------------------
(* Downloads *)

LEMMA StartableFiles == \A type : Startable(type) \subseteq Files
BY DEF Startable

\* A socket with a download is no idler.
LEMMA BusySocket ==
  ASSUME CInv, NEW c \in Conns, uc[c].file # "NONE" \/ uc[c].st # "IDLE"
  PROVE  c \notin idlers
BY DEF CInv, SocketsFit, Fits

LEMMA DownloadSteps ==
  ASSUME CInv, NEW c \in Conns,
         \/ GetDownload(c) \/ NothingToDownload(c) \/ BecomeIdle(c) \/ EnterIdlers(c)
         \/ StartData(c) \/ EndData(c) \/ FileNotAvailable(c) \/ NoSlots(c)
  PROVE  CInv'
<1>t. Types /\ uc[c] \in Connection BY DEF CInv, Types
<1>f. Fits(uc[c], c \in idlers) BY DEF CInv, SocketsFit
<1>1. CASE GetDownload(c)
  <2>1. uc[c].at = "check" /\ UNCHANGED << downloads, items, idlers >> BY <1>1 DEF GetDownload
  <2>2. PICK f \in Files : Step(c, WithState([uc[c] EXCEPT !.at = "up", !.file = f], "SND"))
    BY <1>1, StartableFiles DEF GetDownload
  <2> DEFINE v == [uc[c] EXCEPT !.at = "up", !.file = f]
             u == WithState(v, "SND")
  <2>3. v \in Connection /\ v.at = "up" /\ v.file = f /\ v.tok = uc[c].tok /\ v.assoc = uc[c].assoc
    BY <1>t DEF Connection, Places
  <2>4. Step(c, u) BY <2>2
  <2> HIDE DEF v
  <2>5. u \in Connection /\ u.at = "up" /\ u.st = "SND" /\ u.tok = uc[c].tok /\ u.assoc = uc[c].assoc
    BY <2>3, StateSet
  <2> HIDE DEF u
  <2>6. Fits(u, c \in idlers) /\ ~Creates(u) /\ \A t : Frees(uc[c], t) => Frees(u, t)
    BY <1>f, <2>1, <2>5 DEF Fits, Creates, Frees, Early
  <2> QED BY <2>1, <2>4, <2>5, <2>6, SocketMoves
<1>2. ASSUME uc[c].at = "check", UNCHANGED << downloads, items, idlers >>,
             Step(c, WithTask([uc[c] EXCEPT !.at = "up"], "DISCONNECT"))
      PROVE  CInv'
  <2> DEFINE v == [uc[c] EXCEPT !.at = "up"]
             u == WithTask(v, "DISCONNECT")
  <2>1. /\ v \in Connection /\ v.at = "up" /\ v.file = uc[c].file /\ v.tok = uc[c].tok
        /\ v.assoc = uc[c].assoc /\ v.st = uc[c].st
    BY <1>t DEF Connection, Places
  <2>2. Step(c, u) BY <1>2
  <2> HIDE DEF v
  <2>3. /\ u \in Connection /\ u.at = "up" /\ u.st = uc[c].st /\ u.tok = uc[c].tok
        /\ u.assoc = uc[c].assoc /\ u.file = uc[c].file
    BY <2>1, TaskAdded DEF Tasks
  <2> HIDE DEF u
  <2>4. Fits(u, c \in idlers) /\ ~Creates(u) /\ \A t : Frees(uc[c], t) => Frees(u, t)
    BY <1>f, <1>2, <2>3 DEF Fits, Creates, Frees, Early
  <2> QED BY <1>2, <2>2, <2>3, <2>4, SocketMoves
<1>3. CASE NothingToDownload(c) BY <1>2, <1>3 DEF NothingToDownload
<1>4. CASE BecomeIdle(c)
  <2>1. uc[c].at = "check" /\ UNCHANGED << downloads, items, idlers >> BY <1>4 DEF BecomeIdle
  <2>2. CASE Step(c, WithState([uc[c] EXCEPT !.at = "idling"], "IDLE"))
    <3> DEFINE v == [uc[c] EXCEPT !.at = "idling"]
               u == WithState(v, "IDLE")
    <3>1. /\ v \in Connection /\ v.at = "idling" /\ v.file = uc[c].file /\ v.tok = uc[c].tok
          /\ v.assoc = uc[c].assoc
      BY <1>t DEF Connection, Places
    <3>2. Step(c, u) BY <2>2
    <3> HIDE DEF v
    <3>3. /\ u \in Connection /\ u.at = "idling" /\ u.st = "IDLE" /\ u.tok = uc[c].tok
          /\ u.assoc = uc[c].assoc /\ u.file = uc[c].file
      BY <3>1, StateSet
    <3> HIDE DEF u
    <3>4. Fits(u, c \in idlers) /\ ~Creates(u) /\ \A t : Frees(uc[c], t) => Frees(u, t)
      BY <1>f, <2>1, <3>3 DEF Fits, Creates, Frees, Early
    <3> QED BY <2>1, <3>2, <3>3, <3>4, SocketMoves
  <2> QED BY <1>2, <1>4, <2>1, <2>2 DEF BecomeIdle
<1>5. CASE EnterIdlers(c)
  <2> DEFINE u == [uc[c] EXCEPT !.at = "up"]
  <2>1. /\ uc[c].at = "idling" /\ UNCHANGED << downloads, items >> /\ idlers' = idlers \union {c} /\ Step(c, u)
    BY <1>5 DEF EnterIdlers
  <2>2. /\ u \in Connection /\ Fits(u, c \in idlers') /\ ~Creates(u) /\ \A t : Frees(uc[c], t) => Frees(u, t)
    BY <1>t, <1>f, <2>1 DEF Connection, Places, Fits, Creates, Frees, Early
  <2>3. idlers' \subseteq Conns /\ \A d \in Conns \ {c} : d \in idlers' <=> d \in idlers
    BY <1>t, <2>1 DEF Types
  <2> HIDE DEF u
  <2> QED BY <2>1, <2>2, <2>3, SocketOnly
<1>6. CASE StartData(c)
  <2> DEFINE u == WithState(uc[c], "RUNNING")
  <2>1. /\ uc[c].at = "up" /\ uc[c].file # "NONE" /\ UNCHANGED << downloads, items, idlers >> /\ Step(c, u)
    BY <1>6 DEF StartData, Reads
  <2>2. /\ u \in Connection /\ u.at = "up" /\ u.st = "RUNNING" /\ u.tok = uc[c].tok /\ u.assoc = uc[c].assoc
        /\ u.file = uc[c].file
    BY <1>t, <2>1, StateSet
  <2> HIDE DEF u
  <2>3. Fits(u, c \in idlers) /\ ~Creates(u) /\ \A t : Frees(uc[c], t) => Frees(u, t)
    BY <1>f, <2>1, <2>2, BusySocket DEF Fits, Creates, Frees, Early
  <2> QED BY <2>1, <2>2, <2>3, SocketMoves
<1>7. CASE EndData(c)
  <2> DEFINE u == [uc[c] EXCEPT !.at = "check", !.file = "NONE"]
  <2>1. uc[c].at = "up" /\ uc[c].file # "NONE" /\ uc[c].st = "RUNNING" /\ UNCHANGED << downloads, items, idlers >>
    BY <1>7 DEF EndData, Reads
  <2>2. c \notin idlers BY <2>1, BusySocket
  <2>3. u \in Connection /\ Fits(u, c \in idlers) /\ ~Creates(u) /\ \A t : Frees(uc[c], t) => Frees(u, t)
    BY <1>t, <1>f, <2>1, <2>2 DEF Connection, Places, Fits, Creates, Frees, Early
  <2>4. CASE Step(c, u)
    <3> HIDE DEF u
    <3> QED BY <2>1, <2>3, <2>4, SocketMoves
  <2>5. CASE uc' = [WithoutFile(uc[c].file, Conns \ {c}) EXCEPT ![c] = u]
    <3>1. uc'[c] = u /\ \A d \in Conns \ {c} : uc'[d] = uc[d] \/ uc'[d] = WithTask(uc[d], "DISCONNECT")
      BY <2>5 DEF WithoutFile
    <3>2. DOMAIN uc' = Conns /\ uc' = [d \in Conns |-> uc'[d]] BY <2>5 DEF WithoutFile
    <3>3. \A d \in Conns \ {c} : /\ uc'[d] \in Connection
                                /\ uc'[d].at = uc[d].at /\ uc'[d].tok = uc[d].tok /\ uc'[d].st = uc[d].st
                                /\ uc'[d].assoc = uc[d].assoc /\ uc'[d].file = uc[d].file
      BY <1>t, <3>1, TaskAdded DEF Types, Tasks
    <3>4. uc' \in [Conns -> Connection] BY <2>3, <3>1, <3>2, <3>3
    <3>5. Types' BY <1>t, <2>1, <3>4 DEF Types
    <3> HIDE DEF u
    <3>6. SocketsFit' BY <2>1, <2>3, <3>1, <3>3 DEF CInv, SocketsFit, Fits
    <3>7. SingleItem' BY <2>1, <2>3, <3>1, <3>3 DEF CInv, SingleItem, Creates
    <3>8. Owned'
      <4>1. \A d \in Conns : \A t : Frees(uc[d], t) => Frees(uc'[d], t) BY <2>3, <3>1, <3>3 DEF Frees
      <4>2. Queued' = Queued BY <2>1 DEF Queued
      <4> QED BY <2>1, <4>1, <4>2 DEF CInv, Owned
    <3> QED BY <3>5, <3>6, <3>7, <3>8 DEF CInv
  <2> QED BY <1>7, <2>4, <2>5 DEF EndData
<1>8. CASE FileNotAvailable(c)
  <2> DEFINE u == [uc[c] EXCEPT !.file = "NONE"]
  <2>1. /\ uc[c].at = "up" /\ uc[c].file # "NONE" /\ UNCHANGED << downloads, items, idlers >> /\ Step(c, u)
    BY <1>8 DEF FileNotAvailable, Reads
  <2>2. u \in Connection /\ Fits(u, c \in idlers) /\ ~Creates(u) /\ \A t : Frees(uc[c], t) => Frees(u, t)
    BY <1>t, <1>f, <2>1 DEF Connection, Fits, Creates, Frees, Early
  <2> HIDE DEF u
  <2> QED BY <2>1, <2>2, SocketMoves
<1>9. CASE NoSlots(c)
  <2> DEFINE v == [uc[c] EXCEPT !.file = "NONE"]
             u == WithTask(v, "DISCONNECT")
  <2>1. /\ uc[c].at = "up" /\ uc[c].file # "NONE" /\ UNCHANGED << downloads, items, idlers >> /\ Step(c, u)
    BY <1>9 DEF NoSlots, Reads
  <2>2. /\ v \in Connection /\ v.at = "up" /\ v.file = "NONE" /\ v.tok = uc[c].tok /\ v.assoc = uc[c].assoc
        /\ v.st = uc[c].st
    BY <1>t, <2>1 DEF Connection
  <2> HIDE DEF v
  <2>3. /\ u \in Connection /\ u.at = "up" /\ u.file = "NONE" /\ u.tok = uc[c].tok /\ u.assoc = uc[c].assoc
        /\ u.st = uc[c].st
    BY <2>2, TaskAdded DEF Tasks
  <2> HIDE DEF u
  <2>4. Fits(u, c \in idlers) /\ ~Creates(u) /\ \A t : Frees(uc[c], t) => Frees(u, t)
    BY <1>f, <2>1, <2>3 DEF Fits, Creates, Frees, Early
  <2> QED BY <2>1, <2>3, <2>4, SocketMoves
<1> QED BY <1>1, <1>3, <1>4, <1>5, <1>6, <1>7, <1>8, <1>9

-----------------------------------------------------------------------------
(* Tasks *)

LEMMA Found == Types => \A c : FindDownload(c) \subseteq Queued
BY DEF Types, FindDownload, Queued

LEMMA Extras == \A t : Extra(t) \subseteq Queued
BY DEF Extra

\* Some items are removed; the others keep their state and their marks.
LEMMA Removing ==
  ASSUME CInv, NEW gone \in SUBSET Queued, NEW its \in [Tokens -> Item], After(gone), items' = Without(gone, its),
         \A t \in Tokens : /\ its[t].mcn = items[t].mcn
                           /\ its[t].state = "ACTIVE" => items[t].state = "ACTIVE"
  PROVE  /\ downloads' \in Seq(Tokens) /\ items' \in [Tokens -> Item]
         /\ ~Mcn => (\A t \in Tokens : ~items'[t].mcn) /\ Len(downloads') <= 1
         /\ \A t \in Queued' : items'[t].state = "ACTIVE" =>
                t \in Queued /\ items[t].state = "ACTIVE" /\ its[t].state = "ACTIVE"
<1>1. downloads' \in Seq(Tokens) /\ Len(downloads') <= Len(downloads) /\ Queued' \subseteq Queued
  BY Erasing DEF CInv
<1>2. items' \in [Tokens -> Item] /\ \A t \in Tokens : items'[t] = NewItem \/ items'[t] = its[t]
  BY NewItemType DEF Without
<1>3. Queued \subseteq Tokens BY QueuedTokens DEF CInv
<1>4. Len(downloads) \in Nat /\ Len(downloads') \in Nat BY <1>1 DEF CInv, Types
<1>5. ASSUME ~Mcn, NEW t \in Tokens PROVE ~items'[t].mcn
  <2>1. ~its[t].mcn BY <1>5 DEF CInv, SingleItem
  <2> QED BY <2>1, <1>2, NewItemType
<1>6. ~Mcn => Len(downloads) <= 1 BY DEF CInv, SingleItem
<1>7. ~Mcn => Len(downloads') <= 1 BY <1>1, <1>4, <1>6
<1>8. ASSUME NEW t \in Queued', items'[t].state = "ACTIVE"
      PROVE  t \in Queued /\ items[t].state = "ACTIVE" /\ its[t].state = "ACTIVE"
  <2>1. t \in Queued /\ t \in Tokens BY <1>1, <1>3
  <2>2. its[t].state = "ACTIVE" BY <2>1, <1>2, <1>8, NewItemType
  <2> QED BY <2>1, <2>2
<1> QED BY <1>1, <1>2, <1>5, <1>7, <1>8

LEMMA TaskSteps ==
  ASSUME CInv, NEW c \in Conns,
         Revive(c) \/ OnDownloadRunning(c) \/ OnIdle(c) \/ OtherState(c) \/ CreateNewMCN(c)
  PROVE  CInv'
<1>t. Types /\ uc[c] \in Connection BY DEF CInv, Types
<1>f. Fits(uc[c], c \in idlers) BY DEF CInv, SocketsFit
<1> DEFINE u == TaskDone(c)
<1>d. ASSUME \E task : NextTask(c, task)
      PROVE  /\ u \in Connection /\ uc[c].at = "up" /\ u.at = "up" /\ u.tok = uc[c].tok /\ u.st = uc[c].st
             /\ u.assoc = uc[c].assoc /\ u.file = uc[c].file
             /\ Fits(u, c \in idlers) /\ ~Creates(u) /\ \A t : Frees(uc[c], t) => Frees(u, t)
  <2>1. /\ u \in Connection /\ uc[c].at = "up" /\ u.at = uc[c].at /\ u.tok = uc[c].tok /\ u.st = uc[c].st
        /\ u.assoc = uc[c].assoc /\ u.file = uc[c].file
    BY <1>t, <1>d, TaskTaken
  <2> HIDE DEF u
  <2> QED BY <2>1, <1>f DEF Fits, Creates, Frees
<1>1. CASE Revive(c)
  <2>1. /\ UNCHANGED << downloads, items >> /\ idlers' = idlers \ {c}
        /\ Step(c, IF c \in idlers THEN [u EXCEPT !.at = "check"] ELSE u)
    BY <1>1 DEF Revive
  <2>2. \E task : NextTask(c, task) BY <1>1 DEF Revive
  <2> HIDE DEF u
  <2>3. idlers' \subseteq Conns /\ \A d \in Conns \ {c} : d \in idlers' <=> d \in idlers
    BY <1>t, <2>1 DEF Types
  <2>4. CASE c \in idlers
    <3> DEFINE v == [u EXCEPT !.at = "check"]
    <3>1. v \in Connection /\ v.at = "check" /\ v.tok = u.tok /\ v.st = u.st /\ v.assoc = u.assoc /\ v.file = u.file
      BY <1>d, <2>2 DEF Connection, Places
    <3>2. Step(c, v) BY <2>1, <2>4
    <3> HIDE DEF v
    <3>3. Fits(v, c \in idlers') /\ ~Creates(v) /\ \A t : Frees(uc[c], t) => Frees(v, t)
      BY <1>d, <2>1, <2>2, <2>4, <3>1 DEF Fits, Creates, Frees, Early
    <3> QED BY <2>1, <2>3, <3>1, <3>2, <3>3, SocketOnly
  <2>5. CASE c \notin idlers
    <3>1. Step(c, u) /\ idlers' = idlers BY <2>1, <2>5
    <3> QED BY <1>d, <2>1, <2>2, <3>1, SocketMoves
  <2> QED BY <2>4, <2>5
<1>2. CASE OnDownloadRunning(c)
  <2>1. /\ UNCHANGED << downloads, idlers >> /\ uc[c].st = "RUNNING"
        /\ items' = [t \in Tokens |-> IF t \in FindDownload(c) THEN [items[t] EXCEPT !.running = TRUE] ELSE items[t]]
    BY <1>2 DEF OnDownloadRunning
  <2>2. \E task : NextTask(c, task) BY <1>2 DEF OnDownloadRunning
  <2>3. /\ items' \in [Tokens -> Item]
        /\ \A t \in Tokens : items'[t].mcn = items[t].mcn /\ items'[t].state = items[t].state
    <3>1. \A t \in Tokens : /\ items[t] \in Item
                            /\ [items[t] EXCEPT !.running = TRUE] \in Item
                            /\ [items[t] EXCEPT !.running = TRUE].mcn = items[t].mcn
                            /\ [items[t] EXCEPT !.running = TRUE].state = items[t].state
      BY <1>t DEF Types, Item
    <3> QED BY <2>1, <3>1
  <2>4. Queued' = Queued /\ Queued \subseteq Tokens BY <1>t, <2>1, QueuedTokens DEF Queued
  <2>5. downloads' \in Seq(Tokens) BY <1>t, <2>1 DEF Types
  <2>6. ~Mcn => (\A t \in Tokens : ~items'[t].mcn) /\ Len(downloads') <= 1
    BY <2>1, <2>3 DEF CInv, SingleItem
  <2>7. \A t \in Queued' : items'[t].state = "ACTIVE" => t \in Queued /\ items[t].state = "ACTIVE"
    BY <2>3, <2>4
  <2>8. Step(c, u) \/ (Mcn /\ Step(c, [u EXCEPT !.at = "create"]))
    <3>1. FindDownload(c) \subseteq Tokens BY <1>t, Found, QueuedTokens
    <3>2. ~Mcn => {t \in FindDownload(c) : ~items[t].running /\ items[t].mcn} = {}
      BY <3>1 DEF CInv, SingleItem
    <3> QED BY <1>2, <3>2 DEF OnDownloadRunning
  <2> HIDE DEF u
  <2>9. CASE Step(c, u) BY <1>d, <2>1, <2>2, <2>3, <2>5, <2>6, <2>7, <2>9, SocketKeeps
  <2>10. CASE Mcn /\ Step(c, [u EXCEPT !.at = "create"])
    <3> DEFINE v == [u EXCEPT !.at = "create"]
    <3>1. v \in Connection /\ v.at = "create" /\ v.tok = u.tok /\ v.st = u.st /\ v.assoc = u.assoc /\ v.file = u.file
      BY <1>d, <2>2 DEF Connection, Places
    <3>2. Step(c, v) BY <2>10
    <3> HIDE DEF v
    <3>3. Fits(v, c \in idlers) /\ \A t : Frees(uc[c], t) => Frees(v, t)
      BY <1>d, <2>2, <3>1 DEF Fits, Frees, Early
    <3> QED BY <2>1, <2>3, <2>5, <2>7, <2>10, <3>1, <3>2, <3>3, SocketKeeps
  <2> QED BY <2>8, <2>9, <2>10
<1>3. CASE OnIdle(c)
  <2> DEFINE was == {t \in FindDownload(c) : items[t].running}
             gone == UNION {Extra(t) : t \in was}
             its == [t \in Tokens |-> IF t \in was THEN [items[t] EXCEPT !.running = FALSE] ELSE items[t]]
  <2>1. UNCHANGED idlers /\ Step(c, u) /\ After(gone) /\ items' = Without(gone, its) BY <1>3 DEF OnIdle
  <2>2. \E task : NextTask(c, task) BY <1>3 DEF OnIdle
  <2>3. gone \in SUBSET Queued BY Extras
  <2>4. its \in [Tokens -> Item] /\ \A t \in Tokens : its[t].mcn = items[t].mcn /\ its[t].state = items[t].state
    <3>1. \A t \in Tokens : /\ items[t] \in Item
                            /\ [items[t] EXCEPT !.running = FALSE] \in Item
                            /\ [items[t] EXCEPT !.running = FALSE].mcn = items[t].mcn
                            /\ [items[t] EXCEPT !.running = FALSE].state = items[t].state
      BY <1>t DEF Types, Item
    <3> QED BY <3>1
  <2> HIDE DEF u, was, gone, its
  <2>5. /\ downloads' \in Seq(Tokens) /\ items' \in [Tokens -> Item]
        /\ ~Mcn => (\A t \in Tokens : ~items'[t].mcn) /\ Len(downloads') <= 1
        /\ \A t \in Queued' : items'[t].state = "ACTIVE" => t \in Queued /\ items[t].state = "ACTIVE"
    BY <2>1, <2>3, <2>4, Removing
  <2> QED BY <1>d, <2>1, <2>2, <2>5, SocketKeeps
<1>4. CASE OtherState(c)
  <2>1. UNCHANGED << downloads, items, idlers >> /\ Step(c, u) /\ \E task : NextTask(c, task)
    BY <1>4 DEF OtherState
  <2> HIDE DEF u
  <2> QED BY <1>d, <2>1, SocketMoves
<1>5. CASE CreateNewMCN(c)
  <2> DEFINE v == [uc[c] EXCEPT !.at = IF uc[c].at = "create" THEN "up" ELSE "drop"]
  <2>1. uc[c].at \in {"create", "failcreate"} /\ UNCHANGED idlers /\ Step(c, v) BY <1>5 DEF CreateNewMCN
  <2>2. v \in Connection /\ Fits(v, c \in idlers) /\ ~Creates(v) /\ \A t : Frees(uc[c], t) => Frees(v, t)
    BY <1>t, <1>f, <2>1 DEF Connection, Places, Fits, Creates, Frees, Early
  <2>3. Mcn BY <2>1 DEF CInv, SingleItem, Creates
  <2> HIDE DEF v
  <2>4. CASE UNCHANGED << downloads, items >>
    BY <2>1, <2>2, <2>4, SocketMoves
  <2>5. CASE CreateItem("MCN_NORMAL", TRUE)
    <3>1. /\ downloads' \in Seq(Tokens) /\ items' \in [Tokens -> Item]
          /\ \A t \in Queued' : items'[t].state = "ACTIVE" => t \in Queued /\ items[t].state = "ACTIVE"
      BY <1>t, <2>5, Creating
    <3> QED BY <2>1, <2>2, <2>3, <3>1, SocketKeeps
  <2> QED BY <1>5, <2>4, <2>5 DEF CreateNewMCN
<1> QED BY <1>1, <1>2, <1>3, <1>4, <1>5

-----------------------------------------------------------------------------
(* The end of a socket *)

LEMMA Failing ==
  ASSUME CInv, NEW c \in Conns, NEW fatal \in BOOLEAN, Failed(c, fatal)
  PROVE  CInv'
<1>t. uc[c] \in Connection BY DEF CInv, Types
<1>f. Fits(uc[c], c \in idlers) BY DEF CInv, SocketsFit
<1>1. uc[c].at \in {"login", "up"} /\ UNCHANGED << downloads, items, idlers >> BY DEF Failed
<1>2. CASE ~uc[c].assoc
  <2>1. uc[c].at = "login" /\ Step(c, NoConnection) BY <1>f, <1>1, <1>2 DEF Failed, Fits, Early
  <2> QED BY <1>1, <2>1, EarlyEnd DEF Early
<1>3. CASE uc[c].assoc
  <2>1. PICK at \in {"put", "fail"} : Step(c, [uc[c] EXCEPT !.tasks = << >>, !.fatal = fatal, !.at = at])
    <3>1. CASE uc[c].st = "IDLE" /\ ~(online /\ Startable(ConnType(c)) # {}) BY <1>3, <3>1 DEF Failed
    <3>2. CASE ~(uc[c].st = "IDLE" /\ ~(online /\ Startable(ConnType(c)) # {})) BY <1>3, <3>2 DEF Failed
    <3> QED BY <3>1, <3>2
  <2> DEFINE u == [uc[c] EXCEPT !.tasks = << >>, !.fatal = fatal, !.at = at]
  <2>2. << >> \in Seq(Tasks) OBVIOUS
  <2>3. u \in Connection /\ Fits(u, c \in idlers) /\ ~Creates(u) /\ \A t : Frees(uc[c], t) => Frees(u, t)
    BY <1>t, <1>f, <1>1, <1>3, <2>2 DEF Connection, Places, Fits, Creates, Frees, Early
  <2>4. Step(c, u) BY <2>1
  <2> HIDE DEF u
  <2> QED BY <1>1, <2>3, <2>4, SocketMoves
<1> QED BY <1>2, <1>3

LEMMA EndSteps ==
  ASSUME CInv, NEW c \in Conns,
         \/ Disconnect(c) \/ ConnectionFails(c) \/ DisconnectInactive(c)
         \/ FailDownload(c) \/ PutCQI(c) \/ DropConnection(c)
  PROVE  CInv'
<1>t. Types /\ uc[c] \in Connection BY DEF CInv, Types
<1>f. Fits(uc[c], c \in idlers) BY DEF CInv, SocketsFit
<1>1. CASE Disconnect(c) \/ ConnectionFails(c) \/ DisconnectInactive(c)
  BY <1>1, Failing DEF Disconnect, ConnectionFails, DisconnectInactive
<1>2. CASE FailDownload(c)
  <2>0. PICK t : t = uc[c].tok OBVIOUS
  <2> DEFINE gone == IF t \in Queued THEN Extra(t) ELSE {}
             failed == [items[t] EXCEPT !.running = FALSE, !.state = "WAITING", !.attempt = "RECENT",
                                        !.errors = IF uc[c].fatal THEN -1 ELSE More(items[t].errors)]
             its == IF t \notin Queued THEN items
                    ELSE IF items[t].state = "WAITING" THEN [items EXCEPT ![t] = [items[t] EXCEPT !.running = FALSE]]
                    ELSE [items EXCEPT ![t] = failed]
  <2>1. uc[c].at = "fail" /\ UNCHANGED idlers /\ After(gone) BY <1>2, <2>0 DEF FailDownload
  <2>2. items' = Without(gone, its) BY <1>2, <2>0 DEF FailDownload
  <2>3. gone \in SUBSET Queued BY Extras
  <2>4. PICK at \in {"failcreate", "drop"} : /\ Step(c, [uc[c] EXCEPT !.at = at])
                                             /\ at = "failcreate" => t \in Queued /\ items[t].mcn
    BY <1>2, <2>0 DEF FailDownload
  <2>5. /\ its \in [Tokens -> Item]
        /\ \A u \in Tokens : /\ its[u].mcn = items[u].mcn
                             /\ its[u].state = "ACTIVE" => items[u].state = "ACTIVE" /\ (t \in Queued => u # t)
    <3>1. CASE t \notin Queued BY <1>t, <3>1 DEF Types
    <3>2. CASE t \in Queued
      <4>1. t \in Tokens /\ items[t] \in Item /\ items[t].errors \in -1 .. ErrorBound
        BY <1>t, <3>2, QueuedTokens DEF Types, Item
      <4>2. (IF uc[c].fatal THEN -1 ELSE More(items[t].errors)) \in -1 .. ErrorBound
        BY <4>1, MoreType, ConnectionsAssumption
      <4>3. failed \in Item /\ failed.mcn = items[t].mcn /\ failed.state = "WAITING" BY <4>1, <4>2 DEF Item, Attempts
      <4> HIDE DEF failed
      <4> DEFINE kept == [items[t] EXCEPT !.running = FALSE]
      <4>4. kept \in Item /\ kept.mcn = items[t].mcn /\ kept.state = items[t].state BY <4>1 DEF Item
      <4>5. \/ its = [items EXCEPT ![t] = kept] /\ items[t].state = "WAITING"
            \/ its = [items EXCEPT ![t] = failed]
        BY <3>2
      <4> HIDE DEF kept, its
      <4> QED BY <1>t, <4>1, <4>3, <4>4, <4>5 DEF Types
    <3> QED BY <3>1, <3>2
  <2> HIDE DEF failed, its, gone
  <2>6. /\ downloads' \in Seq(Tokens) /\ items' \in [Tokens -> Item]
        /\ ~Mcn => (\A u \in Tokens : ~items'[u].mcn) /\ Len(downloads') <= 1
        /\ \A u \in Queued' : items'[u].state = "ACTIVE" =>
               u \in Queued /\ items[u].state = "ACTIVE" /\ its[u].state = "ACTIVE"
    BY <2>1, <2>2, <2>3, <2>5, Removing
  <2> DEFINE v == [uc[c] EXCEPT !.at = at]
  <2>7. v \in Connection /\ Fits(v, c \in idlers) BY <1>t, <1>f, <2>1 DEF Connection, Places, Fits, Early
  <2>8. ~Mcn => ~Creates(v)
    <3>1. ~Mcn => at = "drop" BY <1>t, <2>4, QueuedTokens DEF CInv, SingleItem
    <3> QED BY <1>t, <3>1 DEF Creates, Connection
  <2>9. Step(c, v) BY <2>4
  <2>10. \A u \in Queued' : items'[u].state = "ACTIVE" =>
            u \in Queued /\ items[u].state = "ACTIVE" /\ ~Frees(uc[c], u)
    <3>1. Queued \subseteq Tokens BY <1>t, QueuedTokens
    <3> QED BY <2>0, <2>5, <2>6, <3>1 DEF Frees
  <2>11. idlers' \subseteq Conns /\ Fits(v, c \in idlers') BY <1>t, <2>1, <2>7 DEF Types
  <2> HIDE DEF v
  <2> QED BY <2>1, <2>6, <2>7, <2>8, <2>9, <2>10, <2>11, SocketStep
<1>3. CASE PutCQI(c)
  <2>0. PICK t : t = uc[c].tok OBVIOUS
  <2> DEFINE v == [uc[c] EXCEPT !.at = "drop"]
  <2>1. /\ uc[c].at = "put" /\ UNCHANGED idlers /\ Step(c, v)
        /\ After(Queued \intersect {t}) /\ items' = Without({t}, items)
    BY <1>3, <2>0 DEF PutCQI
  <2>2. v \in Connection /\ Fits(v, c \in idlers) /\ ~Creates(v)
    BY <1>t, <1>f, <2>1 DEF Connection, Places, Fits, Creates, Early
  <2>3. /\ downloads' \in Seq(Tokens) /\ items' \in [Tokens -> Item]
        /\ ~Mcn => (\A u \in Tokens : ~items'[u].mcn) /\ Len(downloads') <= 1
        /\ \A u \in Queued' : items'[u].state = "ACTIVE" => u # t /\ u \in Queued /\ items[u].state = "ACTIVE"
    BY <2>1, Putting
  <2>4. \A u \in Queued' : items'[u].state = "ACTIVE" =>
            u \in Queued /\ items[u].state = "ACTIVE" /\ ~Frees(uc[c], u)
    BY <2>0, <2>3 DEF Frees
  <2>5. idlers' \subseteq Conns /\ Fits(v, c \in idlers') BY <1>t, <2>1, <2>2 DEF Types
  <2> HIDE DEF v
  <2> QED BY <2>1, <2>2, <2>3, <2>4, <2>5, SocketStep
<1>4. CASE DropConnection(c)
  <2>1. /\ uc[c].at = "drop" /\ Step(c, NoConnection) /\ idlers' = idlers \ {c} /\ UNCHANGED << downloads, items >>
    BY <1>4 DEF DropConnection
  <2>2. c \notin idlers' /\ idlers' \subseteq Conns /\ \A d \in Conns \ {c} : d \in idlers' <=> d \in idlers
    BY <1>t, <2>1 DEF Types
  <2>3. /\ Fits(NoConnection, c \in idlers') /\ ~Creates(NoConnection)
        /\ \A t : ~Frees(uc[c], t)
    BY <2>1, <2>2 DEF Fits, Creates, NoConnection, Early, Frees
  <2> QED BY <2>1, <2>2, <2>3, NoConnectionType, SocketOnly
<1> QED BY <1>1, <1>2, <1>3, <1>4

-----------------------------------------------------------------------------
(* The theorems *)

LEMMA StepCInv == CInv /\ [Next]_vars => CInv'
<1> SUFFICES ASSUME CInv, [Next]_vars PROVE CInv' OBVIOUS
<1>1. CASE UNCHANGED vars BY <1>1 DEF vars, CInv, Types, SocketsFit, SingleItem, Owned, Queued
<1>2. CASE \E f \in Files : AddFile(f) \/ RemoveFile(f)
  <2>1. TRUE \in BOOLEAN OBVIOUS
  <2> QED BY <1>2, <2>1, QueueSteps
<1>3. CASE UserDisconnected \/ UserConnected \/ QueueThread
  <2>1. "SMALL" \in Files /\ TRUE \in BOOLEAN BY DEF Files
  <2> QED BY <1>3, <2>1, QueueSteps DEF QueueThread
<1>4. CASE \E t \in Tokens : ForceItem(t) \/ TimerVisit(t) \/ Elapse(t) \/ ForgetToken(t)
  BY <1>4, TimerSteps
<1>5. CASE TimerConnect \/ TimerRemove
  BY <1>5, TimerEnds
<1>6. ASSUME NEW c \in Conns, DisconnectInactive(c) \/ SocketThread(c) \/ Peer(c) PROVE CInv'
  BY <1>6, LoginSteps, DownloadSteps, TaskSteps, EndSteps DEF SocketThread, Peer
<1>7. CASE \E c \in Conns, t \in Tokens : PeerConnects(c, t)
  BY <1>7, PeerStep
<1> QED BY <1>1, <1>2, <1>3, <1>4, <1>5, <1>6, <1>7 DEF Next

\* CInv holds at the start and every step keeps it.
LEMMA Invariant == Spec => []CInv
BY InitCInv, StepCInv, PTL DEF Spec

-----------------------------------------------------------------------------
(* The theorems *)

\* An item that addDownloadConnection made ACTIVE always has a socket, past its
\* login, whose failDownload or putCQI is still to come and will free the item:
\* idle, revived, in a download, timed out or about to fail.
THEOREM ActiveItemsHaveSockets == Spec => []ActiveItemHasSocket
<1>1. CInv => ActiveItemHasSocket BY DEF CInv, Owned, Frees, ActiveItemHasSocket
<1> QED BY <1>1, Invariant, PTL

\* From the moment checkDownloads puts a socket among the idlers until a revival
\* or the end takes it out, it has no download and asks for none.
THEOREM IdlersStayIdle == Spec => []IdlersIdle
<1>1. CInv => IdlersIdle
  <2> SUFFICES ASSUME CInv, NEW c \in idlers
               PROVE  uc[c].file = "NONE" /\ uc[c].st = "IDLE" /\ uc[c].at \notin {"none", "check"}
    BY DEF IdlersIdle
  <2>1. Fits(uc[c], TRUE) BY DEF CInv, Types, SocketsFit
  <2> QED BY <2>1 DEF Fits, Early
<1> QED BY <1>1, Invariant, PTL

\* checkDownloads and what follows it never run on a socket with a download,
\* however revivals, ends of chunks and state changes are queued.
THEOREM OneDownload == Spec => []OneDownloadAtATime
<1>1. CInv => OneDownloadAtATime BY DEF CInv, SocketsFit, Fits, OneDownloadAtATime
<1> QED BY <1>1, Invariant, PTL

\* No interleaving of getDownloadConnection, onDownloadRunning and failDownload
\* gives a second item to a user without MCN: only a marked item is replaced or
\* joined by another, and no item of such a user is ever marked.
THEOREM SingleItemWithoutMcn == Spec => []OneItemWithoutMcn
<1>1. CInv => OneItemWithoutMcn BY DEF CInv, SingleItem, OneItemWithoutMcn
<1> QED BY <1>1, Invariant, PTL

-----------------------------------------------------------------------------
(* Tokens and types.  A token is handed out again only when nothing refers to *)
(* it any more, so no two items have the same one.                            *)

Distinct == \A i, j \in DOMAIN downloads : downloads[i] = downloads[j] => i = j

\* The timer asks the user to connect for an item of the queue.
TimerOK ==
    /\ timer \in [at : {"idle", "connect", "remove"}, tok : Tokens \union {NoToken}]
    /\ timer.at = "connect" => timer.tok \in Tokens

TokensOK == removedTokens \subseteq Tokens /\ offers \subseteq Tokens

OthersOK == requests \in [BOOLEAN -> {"no", "idle", "queue"}] /\ queue \subseteq Files /\ online \in BOOLEAN

RInv == Distinct /\ TimerOK /\ TokensOK /\ OthersOK

LEMMA DistinctAppend ==
  ASSUME Types, Distinct, NEW t, t \notin Queued, downloads' = Append(downloads, t)
  PROVE  Distinct'
<1> DEFINE n == Len(downloads)
<1>1. downloads \in Seq(Tokens) /\ n \in Nat /\ DOMAIN downloads = 1 .. n BY DEF Types
<1>2. /\ DOMAIN downloads' = 1 .. n + 1 /\ downloads'[n + 1] = t
      /\ \A i \in 1 .. n : downloads'[i] = downloads[i]
  BY <1>1
<1>3. \A i \in 1 .. n : downloads[i] # t BY DEF Queued
<1> HIDE DEF n
<1> QED BY <1>1, <1>2, <1>3 DEF Distinct

LEMMA DistinctErased ==
  ASSUME Types, Distinct, NEW gone \in SUBSET Queued, After(gone)
  PROVE  Distinct'
<1>1. CASE gone = {} BY <1>1 DEF After, Distinct
<1>2. CASE gone # {}
  <2>1. PICK t \in gone : downloads' = Erased(Index(t)) BY <1>2 DEF After
  <2>2. PICK k \in 1 .. Len(downloads) : downloads' = Erased(k) BY <2>1, IndexOf
  <2> DEFINE n == Len(downloads)
             a == SubSeq(downloads, 1, k - 1)
             b == SubSeq(downloads, k + 1, n)
             At(i) == IF i < k THEN i ELSE i + 1
  <2>3. downloads \in Seq(Tokens) /\ n \in Nat /\ k \in 1 .. n /\ DOMAIN downloads = 1 .. n BY DEF Types
  <2>4. a \in Seq(Tokens) /\ Len(a) = k - 1 /\ \A i \in 1 .. k - 1 : a[i] = downloads[i] BY <2>3
  <2>5. b \in Seq(Tokens) /\ Len(b) = n - k /\ \A i \in 1 .. n - k : b[i] = downloads[k + i]
    <3> HIDE DEF n
    <3>1. k + 1 \in Int /\ n \in Int /\ \A i \in k + 1 .. n : downloads[i] \in Tokens BY <2>3
    <3>2. /\ b \in Seq(Tokens) /\ Len(b) = IF k + 1 <= n THEN n - (k + 1) + 1 ELSE 0
          /\ \A i \in 1 .. n - (k + 1) + 1 : b[i] = downloads[k + 1 + i - 1]
      BY <3>1, SubSeqProperties
    <3> HIDE DEF b
    <3>3. Len(b) = n - k BY <2>3, <3>2
    <3>4. \A i \in 1 .. n - k : i \in 1 .. n - (k + 1) + 1 /\ k + 1 + i - 1 = k + i BY <2>3
    <3> QED BY <3>2, <3>3, <3>4
  <2>6. downloads' = a \o b BY <2>2 DEF Erased
  <2> HIDE DEF n, a, b
  <2>7. DOMAIN (a \o b) = 1 .. n - 1 BY <2>3, <2>4, <2>5
  <2>8. ASSUME NEW i \in 1 .. n - 1 PROVE (a \o b)[i] = downloads[At(i)] /\ At(i) \in 1 .. n
    <3>1. CASE i < k
      <4>1. (a \o b)[i] = a[i] BY <2>3, <2>4, <2>5, <3>1
      <4> QED BY <4>1, <2>3, <2>4, <3>1
    <3>2. CASE ~(i < k)
      <4>1. i > Len(a) /\ i <= Len(a) + Len(b) BY <2>3, <2>4, <2>5, <3>2
      <4>2. (a \o b)[i] = b[i - Len(a)] BY <4>1, <2>4, <2>5, ConcatProperties
      <4>3. i - (k - 1) \in 1 .. n - k /\ k + (i - (k - 1)) = i + 1 BY <2>3, <3>2
      <4> QED BY <4>2, <4>3, <2>3, <2>4, <2>5, <3>2
    <3> QED BY <3>1, <3>2
  <2>9. \A i, j \in 1 .. n - 1 : At(i) = At(j) => i = j BY <2>3
  <2> HIDE DEF At
  <2> SUFFICES ASSUME NEW i \in 1 .. n - 1, NEW j \in 1 .. n - 1, (a \o b)[i] = (a \o b)[j] PROVE i = j
    BY <2>6, <2>7 DEF Distinct
  <2>10. downloads[At(i)] = downloads[At(j)] /\ At(i) \in 1 .. n /\ At(j) \in 1 .. n BY <2>8
  <2>11. At(i) = At(j) BY <2>3, <2>10 DEF Distinct
  <2> QED BY <2>9, <2>11
<1> QED BY <1>1, <1>2

LEMMA DistinctCount ==
  ASSUME Types, Distinct
  PROVE  Cardinality(Queued) = Len(downloads)
<1> DEFINE n == Len(downloads)
<1>1. downloads \in Seq(Tokens) /\ n \in Nat /\ DOMAIN downloads = 1 .. n BY DEF Types
<1>2. downloads \in [1 .. n -> Queued] BY <1>1 DEF Queued
<1>3. \A t \in Queued : \E i \in 1 .. n : downloads[i] = t BY <1>1 DEF Queued
<1>4. downloads \in Bijection(1 .. n, Queued)
  BY <1>1, <1>2, <1>3 DEF Distinct, Bijection, Injection, IsInjective, Surjection
<1>5. IsFiniteSet(1 .. n) /\ Cardinality(1 .. n) = n
  <2>1. IsFiniteSet(1 .. n) /\ Cardinality(1 .. n) = IF 1 > n THEN 0 ELSE n - 1 + 1 BY <1>1, FS_Interval
  <2> QED BY <1>1, <2>1
<1> HIDE DEF n
<1>6. Cardinality(1 .. n) = Cardinality(Queued) BY <1>4, <1>5, FS_Bijection DEF ExistsBijection
<1> QED BY <1>5, <1>6 DEF n

\* What getCQIUnsafe and putCQIUnsafe do to the tokens.
LEMMA ItemCreated ==
  ASSUME Types, RInv, NEW type, NEW mcn, CreateItem(type, mcn)
  PROVE  Distinct'
<1>1. PICK t \in Fresh : downloads' = Append(downloads, t) BY DEF CreateItem
<1>2. t \notin Queued BY DEF Fresh
<1> QED BY <1>1, <1>2, DistinctAppend DEF RInv

LEMMA ItemsPut ==
  ASSUME Types, RInv, NEW gone \in SUBSET Queued, After(gone)
  PROVE  Distinct' /\ removedTokens' \subseteq Tokens
<1>1. removedTokens' \subseteq removedTokens \union gone BY DEF After
<1>2. gone \subseteq Tokens BY QueuedTokens
<1> QED BY <1>1, <1>2, DistinctErased DEF RInv, TokensOK

LEMMA InitRInv == Init => RInv
BY DEF Init, RInv, Distinct, TimerOK, TokensOK, OthersOK

LEMMA StepRInv == CInv /\ RInv /\ [Next]_vars => RInv'
<1> SUFFICES ASSUME CInv, RInv, [Next]_vars PROVE RInv' OBVIOUS
<1>t. Types /\ Queued \subseteq Tokens BY QueuedTokens DEF CInv
<1>1. ASSUME UNCHANGED << downloads, removedTokens, offers, timer >>, OthersOK' PROVE RInv'
  BY <1>1 DEF RInv, Distinct, TimerOK, TokensOK
<1>2. ASSUME UNCHANGED << downloads, removedTokens, offers, timer, requests, queue, online >> PROVE RInv'
  BY <1>1, <1>2 DEF RInv, OthersOK
<1>3. ASSUME UNCHANGED << offers, timer, requests, queue, online >>, Distinct', removedTokens' \subseteq Tokens PROVE RInv'
  BY <1>3 DEF RInv, TimerOK, TokensOK, OthersOK
<1>4. ASSUME NEW f \in Files, AddFile(f) \/ RemoveFile(f) PROVE RInv'
  BY <1>4, <1>1 DEF AddFile, RemoveFile, RInv, OthersOK
<1>5. ASSUME UserDisconnected \/ UserConnected PROVE RInv'
  BY <1>5, <1>1 DEF UserDisconnected, UserConnected, RInv, OthersOK
<1>6. ASSUME NEW small \in BOOLEAN, CheckIdle(small) PROVE RInv'
  BY <1>6, <1>1 DEF CheckIdle, RInv, OthersOK
<1>7. ASSUME NEW small \in BOOLEAN, GetDownloadConnection(small) PROVE RInv'
  <2>1. /\ UNCHANGED << removedTokens, offers, timer, queue, online >>
        /\ requests' = [requests EXCEPT ![small] = "no"]
    BY <1>7 DEF GetDownloadConnection
  <2>2. Distinct'
    <3>1. CASE UNCHANGED downloads BY <3>1 DEF RInv, Distinct
    <3>2. CASE CreateItem(IF small THEN "SMALL" ELSE "ANY", FALSE) BY <3>2, <1>t, ItemCreated
    <3> QED BY <1>7, <3>1, <3>2 DEF GetDownloadConnection
  <2> QED BY <2>1, <2>2 DEF RInv, TimerOK, TokensOK, OthersOK
<1>8. ASSUME NEW t \in Tokens, ForceItem(t) \/ TimerWait(t) \/ Elapse(t) PROVE RInv'
  BY <1>8, <1>2 DEF ForceItem, TimerWait, Elapse
<1>9. ASSUME NEW t \in Tokens, TimerGiveUp(t) \/ TimerAttempt(t) PROVE RInv'
  <2>1. /\ UNCHANGED << downloads, removedTokens, offers, requests, queue, online >>
        /\ timer' = timer \/ \E at \in {"connect", "remove"} : timer' = [at |-> at, tok |-> t]
    BY <1>9 DEF TimerGiveUp, TimerAttempt, Timer
  <2>2. TimerOK' BY <2>1 DEF RInv, TimerOK
  <2> QED BY <2>1, <2>2 DEF RInv, Distinct, TokensOK, OthersOK
<1>10. ASSUME NEW t \in Tokens, ForgetToken(t) PROVE RInv'
  BY <1>10 DEF ForgetToken, RInv, Distinct, TimerOK, TokensOK, OthersOK
<1>11. ASSUME TimerConnect PROVE RInv'
  <2>1. /\ UNCHANGED << downloads, removedTokens, requests, queue, online >>
        /\ offers' \subseteq offers \union {timer.tok} /\ timer.at = "connect"
        /\ timer' = [at |-> "idle", tok |-> NoToken]
    BY <1>11 DEF TimerConnect, Timer
  <2> QED BY <2>1 DEF RInv, Distinct, TimerOK, TokensOK, OthersOK
<1>12. ASSUME TimerRemove PROVE RInv'
  <2>1. /\ UNCHANGED << offers, requests, queue, online >> /\ After(Queued \intersect {timer.tok})
        /\ timer' = [at |-> "idle", tok |-> NoToken]
    BY <1>12 DEF TimerRemove, Timer
  <2>2. Distinct' /\ removedTokens' \subseteq Tokens BY <1>t, <2>1, ItemsPut
  <2> QED BY <2>1, <2>2 DEF RInv, TimerOK, TokensOK, OthersOK
<1>13. ASSUME NEW c \in Conns, Inf(c) \/ LookUpItem(c) \/ ClaimItem(c) \/ UploadEnds(c) PROVE RInv'
  BY <1>13, <1>2 DEF Inf, LookUpItem, ClaimItem, UploadEnds
<1>14. ASSUME NEW c \in Conns, GetDownload(c) \/ NothingToDownload(c) \/ BecomeIdle(c) \/ EnterIdlers(c)
                               \/ StartData(c) \/ NoSlots(c) \/ Revive(c) \/ OnDownloadRunning(c) \/ OtherState(c)
       PROVE RInv'
  BY <1>14, <1>2 DEF GetDownload, NothingToDownload, BecomeIdle, EnterIdlers, StartData, NoSlots, Revive,
     OnDownloadRunning, OtherState
<1>15. ASSUME NEW c \in Conns, EndData(c) \/ FileNotAvailable(c) PROVE RInv'
  BY <1>15, <1>1 DEF EndData, FileNotAvailable, RInv, OthersOK
<1>16. ASSUME NEW c \in Conns, OnIdle(c) PROVE RInv'
  <2>1. \E gone \in SUBSET Queued : After(gone)
    BY <1>16, Extras DEF OnIdle
  <2>2. Distinct' /\ removedTokens' \subseteq Tokens BY <1>t, <2>1, ItemsPut
  <2> QED BY <1>16, <2>2, <1>3 DEF OnIdle
<1>17. ASSUME NEW c \in Conns, CreateNewMCN(c) PROVE RInv'
  <2>1. UNCHANGED downloads \/ CreateItem("MCN_NORMAL", TRUE) BY <1>17 DEF CreateNewMCN
  <2>2. Distinct' BY <1>t, <2>1, ItemCreated DEF RInv, Distinct
  <2>3. UNCHANGED << removedTokens, offers, timer, requests, queue, online >> BY <1>17 DEF CreateNewMCN
  <2> QED BY <2>2, <2>3, <1>3 DEF RInv, TokensOK
<1>18. ASSUME NEW c \in Conns, Disconnect(c) \/ ConnectionFails(c) \/ DisconnectInactive(c) \/ DropConnection(c)
       PROVE RInv'
  BY <1>18, <1>2 DEF Disconnect, ConnectionFails, DisconnectInactive, Failed, DropConnection
<1>19. ASSUME NEW c \in Conns, FailDownload(c) \/ PutCQI(c) PROVE RInv'
  <2>1. \E gone \in SUBSET Queued : After(gone)
    <3>1. CASE FailDownload(c)
      <4> DEFINE gone == IF uc[c].tok \in Queued THEN Extra(uc[c].tok) ELSE {}
      <4>1. gone \in SUBSET Queued BY Extras
      <4>2. After(gone) BY <3>1 DEF FailDownload
      <4> QED BY <4>1, <4>2
    <3>2. CASE PutCQI(c) BY <3>2 DEF PutCQI
    <3> QED BY <1>19, <3>1, <3>2
  <2>2. Distinct' /\ removedTokens' \subseteq Tokens BY <1>t, <2>1, ItemsPut
  <2>3. UNCHANGED << offers, timer, requests, queue, online >> BY <1>19 DEF FailDownload, PutCQI
  <2> QED BY <2>2, <2>3, <1>3
<1>20. ASSUME NEW c \in Conns, NEW t \in Tokens, PeerConnects(c, t) PROVE RInv'
  BY <1>20 DEF PeerConnects, RInv, Distinct, TimerOK, TokensOK, OthersOK
<1>21. CASE UNCHANGED vars BY <1>21, <1>2 DEF vars
<1>22. ASSUME NEW c \in Conns, SocketThread(c) \/ Peer(c) PROVE RInv'
  BY <1>22, <1>13, <1>14, <1>15, <1>16, <1>17, <1>18, <1>19 DEF SocketThread, Peer
<1> QED BY <1>4, <1>5, <1>6, <1>7, <1>8, <1>9, <1>10, <1>11, <1>12, <1>18, <1>20, <1>21, <1>22
     DEF Next, QueueThread, TimerVisit

\* The variables have their types, and no two items of the user have one token,
\* however attempts, removals and logins with old tokens interleave.
THEOREM TypeCorrect == Spec => []TypeOK
<1>1. CInv /\ RInv => TypeOK
  BY DistinctCount DEF CInv, Types, RInv, TimerOK, TokensOK, OthersOK, TypeOK
<1>2. Init => RInv BY InitRInv
<1> QED BY <1>1, <1>2, Invariant, StepRInv, PTL DEF Spec
=============================================================================
