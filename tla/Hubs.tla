-------------------------------- MODULE Hubs --------------------------------
(***************************************************************************)
(* The clients of several ADC hubs: connecting, logging in, losing the     *)
(* connection, reconnecting and closing (Client, AdcHub), composed with    *)
(* the users on the hubs (HubUsers) and the searches sent to them          *)
(* (HubSearches).                                                          *)
(*                                                                         *)
(* Threads: one per hub's socket, the timer, and users' requests.  A       *)
(* listener is never called by two threads at a time, so the timer waits   *)
(* in connect() until the old socket's thread is through with on(Failed),  *)
(* and shutdown waits for both.                                            *)
(***************************************************************************)
EXTENDS HubUsers, HubSearches

CONSTANTS
    DisallowPassed,   \* SETTING(DISALLOW_CONNECTION_TO_PASSED_HUBS)
    Strict,           \* hubs that ask for a password and may send us away
    Closable          \* hubs a user may close

ASSUME HubsAssumption ==
    /\ SearchHubs = Hubs /\ Strict \subseteq Hubs /\ Closable \subseteq Hubs
    /\ DisallowPassed \in BOOLEAN

VARIABLES
    state,            \* Client::state
    autoReconnect,
    counted,          \* countType # COUNT_UNCOUNTED
    failing,          \* where on(Failed) of a hub's socket is
    closing           \* hubs putClient has announced as disconnected

sessionVars == << state, autoReconnect, counted, failing, closing >>

vars == << usersVars, searchVars, sessionVars >>

-----------------------------------------------------------------------------
States == {"disconnected", "connecting", "protocol", "identify", "verify", "normal", "closed"}

\* Client::isConnected of a hub findClient finds.
IsConnected(h) == state[h] \notin {"disconnected", "connecting", "closed"}

\* The socket's thread can handle something new.
Free(h) == Handled(h) /\ failing[h] = "none"

SetConnectState(h, s) == state' = [state EXCEPT ![h] = s]

Init ==
    /\ UsersInit
    /\ SearchInit
    /\ state = [h \in Hubs |-> "connecting"]
    /\ autoReconnect = [h \in Hubs |-> TRUE]
    /\ counted = [h \in Hubs |-> FALSE]
    /\ failing = [h \in Hubs |-> "none"]
    /\ closing = {}

-----------------------------------------------------------------------------
(* What the hub sends; the socket's thread handles it.                     *)

Connected(h) ==
    /\ Free(h) /\ state[h] = "connecting"
    /\ SetConnectState(h, "protocol")
    /\ UNCHANGED << usersVars, searchVars, autoReconnect, counted, failing, closing >>

\* SID: infoImpl sends our INF.
SessionId(h) ==
    /\ Free(h) /\ state[h] = "protocol"
    /\ SetConnectState(h, "identify")
    /\ UNCHANGED << usersVars, searchVars, autoReconnect, counted, failing, closing >>

\* GPA: the stored password, or the one the user types, does not change the state.
GetPassword(h) ==
    /\ h \in Strict /\ Free(h) /\ state[h] = "identify"
    /\ SetConnectState(h, "verify")
    /\ UNCHANGED << usersVars, searchVars, autoReconnect, counted, failing, closing >>

\* Our own INF: we are logged in, registered or not, and the hub is counted
\* (updateCounts).  A hub that is not counted on purpose will be disconnected.
OwnInf(h) ==
    /\ Free(h) /\ state[h] \in {"identify", "verify", "normal"}
    /\ SetConnectState(h, "normal")
    /\ \E registered \in BOOLEAN :
         LET allowed == registered \/ ~DisallowPassed
         IN  /\ counted' = [counted EXCEPT ![h] = allowed]
             /\ autoReconnect' = [autoReconnect EXCEPT ![h] = allowed /\ (@ \/ state[h] # "normal")]
    /\ UNCHANGED << usersVars, searchVars, failing, closing >>

\* INF and QUI of others.
UserInf(h, u) == Free(h) /\ IsConnected(h) /\ Join(h, u) /\ UNCHANGED << searchVars, sessionVars >>
UserQuit(h, u) == Free(h) /\ IsConnected(h) /\ Quit(h, u) /\ UNCHANGED << searchVars, sessionVars >>
UserStep(h) == Presence(h) /\ UNCHANGED << searchVars, sessionVars >>

\* QUI of our own SID with TL: when to come back, or never.
QuitMe(h, back) ==
    /\ h \in Strict /\ Free(h) /\ state[h] = "normal"
    /\ autoReconnect' = [autoReconnect EXCEPT ![h] = back]
    /\ UNCHANGED << usersVars, searchVars, state, counted, failing, closing >>

-----------------------------------------------------------------------------
(* The end of a connection.                                                *)

\* Mutant: the users stay.
MutSocketFails(h) ==
    /\ Free(h) /\ state[h] \notin {"disconnected", "closed"}
    /\ counted' = [counted EXCEPT ![h] = FALSE]
    /\ failing' = [failing EXCEPT ![h] = "clear"]
    /\ UNCHANGED << usersVars, searchVars, state, autoReconnect, closing >>

\* on(Failed): the network, the hub, or disconnect() of our own.
SocketFails(h) ==
    /\ Free(h) /\ state[h] \notin {"disconnected", "closed"}
    /\ counted' = [counted EXCEPT ![h] = FALSE]
    /\ ClearUsers(h)
    /\ failing' = [failing EXCEPT ![h] = "clear"]
    /\ UNCHANGED << searchVars, state, autoReconnect, closing >>

\* ... the state changes when all users are offline ...
SetDisconnected(h) ==
    /\ failing[h] = "clear" /\ Handled(h)
    /\ SetConnectState(h, "disconnected")
    /\ failing' = [failing EXCEPT ![h] = "notify"]
    /\ UNCHANGED << usersVars, searchVars, autoReconnect, counted, closing >>

\* ... and the listeners are told.
FireDisconnected(h) ==
    /\ failing[h] = "notify"
    /\ RemoveQueuedUrl(h)
    /\ failing' = [failing EXCEPT ![h] = "none"]
    /\ UNCHANGED << usersVars, state, autoReconnect, counted, closing >>

\* The timer: connect() when it is time to.
TimerConnect(h) ==
    /\ state[h] = "disconnected" /\ autoReconnect[h] /\ failing[h] = "none"
    /\ SetConnectState(h, "connecting")
    /\ UNCHANGED << usersVars, searchVars, autoReconnect, counted, failing, closing >>

\* reconnect(): disconnect(true) is handled by SocketFails.
Reconnect(h) ==
    /\ state[h] # "closed" /\ ~autoReconnect[h]
    /\ autoReconnect' = [autoReconnect EXCEPT ![h] = TRUE]
    /\ UNCHANGED << usersVars, searchVars, state, counted, failing, closing >>

\* putClient: ClientDisconnected is fired first ...
AnnounceClosing(h) ==
    /\ h \in Closable \ closing
    /\ RemoveQueuedUrl(h)
    /\ closing' = closing \union {h}
    /\ UNCHANGED << usersVars, state, autoReconnect, counted, failing >>

\* ... then shutdown: the client leaves the timer, and its socket's thread clears
\* the users.
Shutdown(h) ==
    /\ h \in closing /\ state[h] # "closed"
    /\ Free(h) /\ popping = NotPopping
    /\ SetConnectState(h, "closed")
    /\ counted' = [counted EXCEPT ![h] = FALSE]
    /\ ClearUsers(h)
    /\ UNCHANGED << searchVars, autoReconnect, failing, closing >>

-----------------------------------------------------------------------------
(* Searches.                                                               *)

StartSearch(i, interval) == Reset(i, interval) /\ UNCHANGED << usersVars, sessionVars >>

SearchOnHub(i, h) ==
    /\ Interleaved \/ h \notin closing \/ state[h] = "closed"
    /\ AskHub(i, h, IsConnected(h))
    /\ UNCHANGED << usersVars, sessionVars >>

RecordSearch(i) == Record(i) /\ UNCHANGED << usersVars, sessionVars >>

\* on(Second) of a client that is connected, logged in or not.
TimerSearch(h) == IsConnected(h) /\ PopCheck(h) /\ UNCHANGED << usersVars, sessionVars >>

TimerPops == (Pop \/ OutgoingSearch) /\ UNCHANGED << usersVars, sessionVars >>

Elapse == TimePasses /\ UNCHANGED << usersVars, sessionVars >>

Forget == CleanUserMap /\ UNCHANGED << searchVars, sessionVars >>

HubSends(h) == Connected(h) \/ SessionId(h) \/ GetPassword(h) \/ OwnInf(h)

SocketThread(h) == UserStep(h) \/ SetDisconnected(h) \/ FireDisconnected(h)

Next ==
    \/ \E h \in Hubs :
         \/ HubSends(h) \/ SocketThread(h) \/ SocketFails(h)
         \/ TimerConnect(h) \/ Reconnect(h) \/ AnnounceClosing(h) \/ Shutdown(h)
         \/ TimerSearch(h)
    \/ \E h \in Hubs, back \in BOOLEAN : QuitMe(h, back)
    \/ \E h \in Hubs, u \in Users : UserInf(h, u) \/ UserQuit(h, u)
    \/ \E i \in Searchers, interval \in Intervals : StartSearch(i, interval)
    \/ \E i \in Searchers, h \in Hubs : SearchOnHub(i, h)
    \/ \E i \in Searchers : RecordSearch(i)
    \/ TimerPops \/ Elapse \/ Forget

Spec == Init /\ [][Next]_vars

\* Threads go on and time passes; neither hubs nor users owe us anything, and no hub
\* has to be connected again.
Fairness ==
    /\ \A h \in Hubs : WF_vars(SocketThread(h)) /\ WF_vars(TimerSearch(h))
    /\ \A h \in Closable : WF_vars(Shutdown(h))
    /\ \A i \in Searchers : WF_vars(RecordSearch(i) \/ \E h \in Hubs : SearchOnHub(i, h))
    /\ WF_vars(TimerPops) /\ WF_vars(Elapse)

FairSpec == Spec /\ Fairness

-----------------------------------------------------------------------------
\* The types of the three parts.
TypeOK ==
    /\ UsersTypeOK /\ SearchTypeOK
    /\ state \in [Hubs -> States]
    /\ autoReconnect \in [Hubs -> BOOLEAN] /\ counted \in [Hubs -> BOOLEAN]
    /\ failing \in [Hubs -> {"none", "clear", "notify"}]
    /\ closing \subseteq Closable

\* Nothing of a connection outlives it: before the timer connects again, and
\* once a closed hub's thread is done, no user is on the hub, the hub is not
\* counted and no search waits for it.
NothingLeft ==
    \A h \in Hubs :
        Free(h) /\ state[h] \in {"disconnected", "connecting", "closed"} =>
            /\ ~counted[h] /\ listed[h] = {}
            /\ \A u \in Users : h \notin HubsOf(u)
            /\ ~Interleaved => \A i \in Searchers : h \notin waiting[i]

\* Once it is left alone a search instance waits for no hub any more: each one
\* sends the search, is disconnected or is closed.  When another thread
\* overtakes hubSearch between the queues and queuedHubUrls, the instance may
\* wait for ever; see Interleaved.
SearchReported ==
    <>[][\A i \in Searchers, interval \in Intervals : ~StartSearch(i, interval)]_vars =>
        \A i \in Searchers : <>[](waiting[i] = {})
=============================================================================
