------------------------------ MODULE HubUsers ------------------------------
(***************************************************************************)
(* Users on several hubs: the user list of each hub (AdcHub::users) and    *)
(* what ClientManager makes of them, its maps of online and of offline     *)
(* users and the ONLINE flag of a user.                                    *)
(*                                                                         *)
(* The thread of a hub's socket handles one command at a time.  putOnline  *)
(* and putOffline take ClientManager::cs, release it and go on with what   *)
(* they found, so the steps of two hubs' threads interleave.  Our own user *)
(* and the hub itself are left out.                                        *)
(***************************************************************************)
EXTENDS FiniteSets

CONSTANTS
    Hubs,
    Users,
    Overlap,     \* may two threads be at work on one user?
    NoUser

ASSUME UsersAssumption == NoUser \notin Users /\ Overlap \in BOOLEAN

VARIABLES
    known,         \* ClientManager::users
    listed,        \* the users of each hub
    onlineUsers,   \* pairs of a user and a hub
    offlineUsers,
    flagged,       \* users with the flag ONLINE
    work,          \* what the thread of each hub is doing for which user
    leaving        \* users clearUsers has still to put offline

usersVars == << known, listed, onlineUsers, offlineUsers, flagged, work, leaving >>

-----------------------------------------------------------------------------
Nothing == [step |-> "none", user |-> NoUser]

\* The thread has handled its last command.
Handled(h) == work[h] = Nothing /\ leaving[h] = {}

Does(h, step) == work[h].step = step
GoOn(h, step) == work' = [work EXCEPT ![h].step = step]
Ready(h) == work' = [work EXCEPT ![h] = Nothing]

Alone(h, u) == Overlap \/ \A k \in Hubs \ {h} : work[k].user # u

HubsOf(u) == {h \in Hubs : << u, h >> \in onlineUsers}

UsersInit ==
    /\ known = {}
    /\ listed = [h \in Hubs |-> {}]
    /\ onlineUsers = {}
    /\ offlineUsers = {}
    /\ flagged = {}
    /\ work = [h \in Hubs |-> Nothing]
    /\ leaving = [h \in Hubs |-> {}]

\* parseInfUser: the INF of a user whose CID is not on the hub yet.
Join(h, u) ==
    /\ Handled(h) /\ u \notin listed[h] /\ Alone(h, u)
    /\ known' = known \union {u}
    /\ listed' = [listed EXCEPT ![h] = @ \union {u}]
    /\ work' = [work EXCEPT ![h] = [step |-> "add", user |-> u]]
    /\ UNCHANGED << onlineUsers, offlineUsers, flagged, leaving >>

\* putOnline: the entry is made under the lock ...
PutOnline(h) ==
    /\ Does(h, "add")
    /\ onlineUsers' = onlineUsers \union {<< work[h].user, h >>}
    /\ GoOn(h, "flag")
    /\ UNCHANGED << known, listed, offlineUsers, flagged, leaving >>

\* Mutant: a user who comes back stays in the list of the offline ones.
MutFlagOnline(h) ==
    /\ Does(h, "flag")
    /\ flagged' = flagged \union {work[h].user}
    /\ Ready(h)
    /\ UNCHANGED << known, listed, onlineUsers, offlineUsers, leaving >>

\* ... then a user without the flag has come online ...
FlagOnline(h) ==
    /\ Does(h, "flag")
    /\ IF work[h].user \in flagged THEN Ready(h) ELSE GoOn(h, "forget")
    /\ flagged' = flagged \union {work[h].user}
    /\ UNCHANGED << known, listed, onlineUsers, offlineUsers, leaving >>

\* ... and is not offline any more.
ForgetOffline(h) ==
    /\ Does(h, "forget")
    /\ offlineUsers' = offlineUsers \ {work[h].user}
    /\ Ready(h)
    /\ UNCHANGED << known, listed, onlineUsers, flagged, leaving >>

\* putUser: the hub says that a user has quit.
Quit(h, u) ==
    /\ Handled(h) /\ u \in listed[h] /\ Alone(h, u)
    /\ listed' = [listed EXCEPT ![h] = @ \ {u}]
    /\ work' = [work EXCEPT ![h] = [step |-> "remove", user |-> u]]
    /\ UNCHANGED << known, onlineUsers, offlineUsers, flagged, leaving >>

\* Mutant: the user is listed as offline only when the flag goes.
MutPutOffline(h) ==
    LET u == work[h].user
        last == HubsOf(u) = {h}
    IN  /\ Does(h, "remove")
        /\ onlineUsers' = onlineUsers \ {<< u, h >>}
        /\ IF last THEN GoOn(h, "unflag") ELSE Ready(h)
        /\ UNCHANGED << known, listed, offlineUsers, flagged, leaving >>

\* putOffline: the entry goes under the lock, the last one makes the user offline ...
PutOffline(h) ==
    LET u == work[h].user
        last == HubsOf(u) = {h}
    IN  /\ Does(h, "remove")
        /\ onlineUsers' = onlineUsers \ {<< u, h >>}
        /\ offlineUsers' = IF last THEN offlineUsers \union {u} ELSE offlineUsers
        /\ IF last THEN GoOn(h, "unflag") ELSE Ready(h)
        /\ UNCHANGED << known, listed, flagged, leaving >>

\* ... and the flag goes after the lock was released.
Unflag(h) ==
    /\ Does(h, "unflag")
    /\ flagged' = flagged \ {work[h].user}
    /\ Ready(h)
    /\ UNCHANGED << known, listed, onlineUsers, offlineUsers, leaving >>

\* clearUsers takes the whole list ...
ClearUsers(h) ==
    /\ Handled(h)
    /\ leaving' = [leaving EXCEPT ![h] = listed[h]]
    /\ listed' = [listed EXCEPT ![h] = {}]
    /\ UNCHANGED << known, onlineUsers, offlineUsers, flagged, work >>

\* ... and puts one user offline after the other.
NextLeaving(h) ==
    /\ work[h] = Nothing
    /\ \E u \in leaving[h] :
         /\ Alone(h, u)
         /\ leaving' = [leaving EXCEPT ![h] = @ \ {u}]
         /\ work' = [work EXCEPT ![h] = [step |-> "remove", user |-> u]]
    /\ UNCHANGED << known, listed, onlineUsers, offlineUsers, flagged >>

Unreferenced ==
    {u \in known : /\ HubsOf(u) = {}
                   /\ \A h \in Hubs : u \notin listed[h] \union leaving[h] /\ work[h].user # u}

\* Users nothing refers to are forgotten; a favorite or the source of a file stays.
CleanUserMap ==
    /\ \E gone \in SUBSET Unreferenced \ {{}} :
         /\ known' = known \ gone
         /\ offlineUsers' = offlineUsers \ gone
         /\ flagged' = flagged \ gone
    /\ UNCHANGED << listed, onlineUsers, work, leaving >>

\* What the thread of a hub goes on with.
Presence(h) ==
    \/ PutOnline(h) \/ FlagOnline(h) \/ ForgetOffline(h)
    \/ PutOffline(h) \/ Unflag(h)
    \/ NextLeaving(h)

UsersNext ==
    \/ \E h \in Hubs : Presence(h) \/ ClearUsers(h)
    \/ \E h \in Hubs, u \in Users : Join(h, u) \/ Quit(h, u)
    \/ CleanUserMap

UsersSpec == UsersInit /\ [][UsersNext]_usersVars

-----------------------------------------------------------------------------
UsersTypeOK ==
    /\ known \subseteq Users
    /\ listed \in [Hubs -> SUBSET Users]
    /\ onlineUsers \subseteq Users \X Hubs
    /\ offlineUsers \subseteq Users /\ flagged \subseteq Users
    /\ work \in [Hubs -> [step : {"none", "add", "flag", "forget", "remove", "unflag"}, user : Users \union {NoUser}]]
    /\ leaving \in [Hubs -> SUBSET Users]

Found(u) == u \in offlineUsers \/ \E h \in Hubs : << u, h >> \in onlineUsers

\* putOffline: "so we ensure that we should always find the user in atleast one
\* of the lists".  A user who could be found is found until he is forgotten,
\* whatever other hubs' threads do to him between their locks.
StaysFound == [][\A u \in Users : Found(u) /\ u \in known' => Found(u)']_usersVars

\* Between the commands about a user, a user with the flag, on which downloads from
\* him depend, is on a hub and not listed as offline: putOnline and putOffline change
\* the flag after their locks, and other hubs' threads meet them there.  That a user
\* on a hub has the flag is promised only when no two threads meet on him: putOffline
\* takes the flag that putOnline has just seen, and he stays on the other hub without
\* it.
OnlineAsFlagged ==
    \A u \in Users : (\A h \in Hubs : work[h].user # u) =>
        /\ u \in flagged => HubsOf(u) # {} /\ u \notin offlineUsers
        /\ ~Overlap => (HubsOf(u) # {} => u \in flagged)
=============================================================================
