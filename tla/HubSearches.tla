---------------------------- MODULE HubSearches ----------------------------
(***************************************************************************)
(* Searches: the SearchQueue of each hub, popped by the timer thread with  *)
(* an interval between two searches, and the SearchInstances that queue    *)
(* their searches on all hubs and wait until the hubs have sent them.      *)
(*                                                                         *)
(* An instance is used by one thread, which visits one hub after the       *)
(* other.  The time since the last search of a hub is counted in units of  *)
(* five seconds, the interval of the highest priority.                     *)
(***************************************************************************)
EXTENDS Naturals, Sequences, FiniteSets

CONSTANTS
    SearchHubs,
    Searchers,      \* SearchInstances
    Intervals,      \* the intervals of the priorities used: 1 HIGH, 2 NORMAL, 3 LOW
    MinInterval,    \* the hub's own interval
    Interleaved     \* may the timer and the hubs meet a search that is being queued?

ASSUME SearchAssumption ==
    /\ IsFiniteSet(SearchHubs) /\ IsFiniteSet(Searchers)
    /\ Intervals \subseteq 1 .. 4 /\ Intervals # {}
    /\ MinInterval \in 1 .. 4 /\ Interleaved \in BOOLEAN

VARIABLES
    queue,     \* SearchQueue::searchQueue of each hub
    age,       \* the time since its lastSearchTick
    popping,   \* where the timer thread is with the search of a hub
    asking,    \* what the thread of an instance is doing
    waiting    \* SearchInstance::queuedHubUrls

searchVars == << queue, age, popping, asking, waiting >>

-----------------------------------------------------------------------------
Larger(a, b) == IF a > b THEN a ELSE b

\* SearchQueue::getInterval
Interval(search) == Larger(search.interval, MinInterval)

\* The clock stops where no search has to wait any more.
LastAge == CHOOSE m \in Intervals \union {MinInterval} : \A n \in Intervals \union {MinInterval} : n <= m

\* getCurrentQueueTime() = 0
MaySearch(h) == queue[h] # << >> => age[h] >= Interval(Head(queue[h]))

\* Mutant: add keeps the owner's former search.
MutRemaining(q, owner) == q

\* cancelSearch: the first search of the owner is erased.
Remaining(q, owner) ==
    LET Own == {k \in DOMAIN q : q[k].owner = owner}
        first == CHOOSE k \in Own : \A j \in Own : k <= j
    IN  IF Own = {} THEN q
        ELSE [k \in 1 .. Len(q) - 1 |-> IF k < first THEN q[k] ELSE q[k + 1]]

\* upper_bound by priority: behind all searches that are as urgent.
Inserted(q, search) ==
    LET n == Cardinality({k \in DOMAIN q : q[k].interval <= search.interval})
    IN  [k \in 1 .. Len(q) + 1 |-> IF k <= n THEN q[k] ELSE IF k = n + 1 THEN search ELSE q[k - 1]]

NotAsking == [step |-> "none", interval |-> 0, left |-> {}, queued |-> {}, late |-> FALSE]
NotPopping == [step |-> "none"]

\* Windows in which another thread overtakes the thread of an instance.
AskingAllowed == Interleaved \/ popping = NotPopping
NobodyAsking == Interleaved \/ \A i \in Searchers : asking[i] = NotAsking

SearchInit ==
    /\ queue = [h \in SearchHubs |-> << >>]
    /\ age = [h \in SearchHubs |-> LastAge]
    /\ popping = NotPopping
    /\ asking = [i \in Searchers |-> NotAsking]
    /\ waiting = [i \in Searchers |-> {}]

-----------------------------------------------------------------------------
\* SearchInstance::reset: the old search is cancelled on all hubs.
Reset(i, interval) ==
    /\ asking[i] = NotAsking /\ AskingAllowed
    /\ queue' = [h \in SearchHubs |-> Remaining(queue[h], i)]
    /\ waiting' = [waiting EXCEPT ![i] = {}]
    /\ asking' = [asking EXCEPT ![i] = [NotAsking EXCEPT !.step = "queue", !.interval = interval, !.left = SearchHubs]]
    /\ UNCHANGED << age, popping >>

\* Does the search wait in the new queue q of a hub, or in one of an earlier hub?
Late(i, h, q, search) == asking[i].late \/ Head(q) # search \/ age[h] < Interval(search)

\* SearchManager::search and SearchQueue::add for the next hub, if it is there
\* and connected.
AskHub(i, h, connected) ==
    LET search == [owner |-> i, interval |-> asking[i].interval]
        q == Inserted(Remaining(queue[h], i), search)
    IN  /\ asking[i].step = "queue" /\ h \in asking[i].left /\ AskingAllowed
        /\ IF connected
           THEN /\ queue' = [queue EXCEPT ![h] = q]
                /\ asking' = [asking EXCEPT ![i] = [asking[i] EXCEPT !.left = @ \ {h}, !.queued = @ \union {h},
                                                                   !.late = Late(i, h, q, search)]]
           ELSE /\ asking' = [asking EXCEPT ![i].left = @ \ {h}]
                /\ UNCHANGED queue
        /\ UNCHANGED << age, popping, waiting >>

\* The end of SearchInstance::hubSearch: the hubs to wait for, unless all of
\* them search at once.
Record(i) ==
    /\ asking[i].step = "queue" /\ asking[i].left = {}
    /\ waiting' = [waiting EXCEPT ![i] = IF asking[i].late THEN asking[i].queued ELSE @]
    /\ asking' = [asking EXCEPT ![i] = NotAsking]
    /\ UNCHANGED << queue, age, popping >>

-----------------------------------------------------------------------------
\* SearchQueue::maybePop looks at the time under the lock ...
PopCheck(h) ==
    /\ popping = NotPopping /\ NobodyAsking
    /\ MaySearch(h)
    /\ Interleaved \/ queue[h] # << >>
    /\ popping' = [step |-> "pop", hub |-> h]
    /\ UNCHANGED << queue, age, asking, waiting >>

\* ... and takes the first search under another one.
Pop ==
    /\ popping.step = "pop"
    /\ LET h == popping.hub
       IN  IF queue[h] = << >>
           THEN /\ popping' = NotPopping
                /\ UNCHANGED << queue, age >>
           ELSE /\ popping' = [step |-> "fire", hub |-> h, owner |-> Head(queue[h]).owner]
                /\ queue' = [queue EXCEPT ![h] = Tail(@)]
                /\ age' = [age EXCEPT ![h] = 0]
    /\ UNCHANGED << asking, waiting >>

\* Mutant: the instance is not told.
MutOutgoingSearch ==
    /\ popping.step = "fire"
    /\ popping' = NotPopping
    /\ UNCHANGED << queue, age, asking, waiting >>

\* OutgoingSearch: the instance has one hub less to wait for.  Whether the search
\* is sent depends on the state of the hub.
OutgoingSearch ==
    /\ popping.step = "fire"
    /\ waiting' = [waiting EXCEPT ![popping.owner] = @ \ {popping.hub}]
    /\ popping' = NotPopping
    /\ UNCHANGED << queue, age, asking >>

\* ClientDisconnected: nobody waits for the hub, its queue stays as it is.
RemoveQueuedUrl(h) ==
    /\ NobodyAsking
    /\ waiting' = [i \in Searchers |-> waiting[i] \ {h}]
    /\ UNCHANGED << queue, age, popping, asking >>

TimePasses ==
    /\ \E h \in SearchHubs : age[h] < LastAge
    /\ age' = [h \in SearchHubs |-> IF age[h] < LastAge THEN age[h] + 1 ELSE age[h]]
    /\ UNCHANGED << queue, popping, asking, waiting >>

-----------------------------------------------------------------------------
\* A search replaces its owner's former one.
SearchTypeOK ==
    /\ \A h \in SearchHubs : /\ age[h] \in 0 .. LastAge
                             /\ Len(queue[h]) <= Cardinality(Searchers)
                             /\ \A k \in DOMAIN queue[h] : queue[h][k].owner \in Searchers
    /\ \A i \in Searchers : waiting[i] \subseteq SearchHubs
    /\ popping.step \in {"none", "pop", "fire"}
=============================================================================
