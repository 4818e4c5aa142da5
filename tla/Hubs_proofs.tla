----------------------------- MODULE Hubs_proofs -----------------------------
(***************************************************************************)
(* Proofs about Hubs, for any number of hubs, users and search instances:  *)
(* users are always found, the flag ONLINE is right between the commands,  *)
(* nothing of a connection outlives it, and the variables have their types *)
(* with every search queue sorted and without a second search of an owner. *)
(***************************************************************************)
EXTENDS Hubs, FiniteSetTheorems, WellFoundedInduction, TLAPS

-----------------------------------------------------------------------------
(* The users of the hubs.                                                  *)

\* The types, and a thread has a user exactly while it is at work for one.
WorkOK == \A h \in Hubs : work[h].step = "none" <=> work[h].user = NoUser

\* What a thread does with a user depends on the lists of its hub.
ListsOK ==
    \A h \in Hubs :
        /\ leaving[h] # {} => listed[h] = {}
        /\ work[h].step \in {"add", "flag", "forget"} => work[h].user \in listed[h]
        /\ work[h].step \in {"remove", "unflag"} => work[h].user \notin listed[h] \union leaving[h]

\* A user has an entry in onlineUsers from putOnline's lock to putOffline's.
Entry(u, h) ==
    \/ u \in listed[h] /\ ~(work[h].step = "add" /\ work[h].user = u)
    \/ u \in leaving[h]
    \/ work[h].step = "remove" /\ work[h].user = u

EntriesOK == \A h \in Hubs, u \in Users : << u, h >> \in onlineUsers <=> Entry(u, h)

\* The inductive invariant that needs no assumption about overlaps.
ListInv == UsersTypeOK /\ WorkOK /\ ListsOK /\ EntriesOK

\* The flag and the lists of a user agree.
Settled(u) ==
    /\ u \in flagged <=> HubsOf(u) # {}
    /\ HubsOf(u) # {} => u \notin offlineUsers

\* How far the flag and offlineUsers are behind onlineUsers while a thread is at
\* work for a user.
Flag(h, u) ==
    /\ work[h].step \in {"add", "remove"} => Settled(u)
    /\ work[h].step = "flag" => (u \in flagged => u \notin offlineUsers)
    /\ work[h].step = "forget" => u \in flagged
    /\ work[h].step = "unflag" => HubsOf(u) = {}

\* No two threads are at work for one user.
Exclusive == \A h, k \in Hubs : h # k => work[h].user # work[k].user \/ work[h].user = NoUser

FlagInv ==
    ~Overlap =>
        /\ Exclusive
        /\ \A u \in Users : (\A h \in Hubs : work[h].user # u) => Settled(u)
        /\ \A h \in Hubs : work[h].user # NoUser => Flag(h, work[h].user)

-----------------------------------------------------------------------------
\* The invariant about the lists is inductive, whatever threads overlap.
LEMMA ListInvInit == UsersInit => ListInv
BY UsersAssumption DEF UsersInit, ListInv, UsersTypeOK, WorkOK, ListsOK, EntriesOK, Entry, Nothing

LEMMA ListInvNext == ListInv /\ [UsersNext]_usersVars => ListInv'
<1> SUFFICES ASSUME ListInv, [UsersNext]_usersVars
             PROVE ListInv'
  OBVIOUS
<1> USE UsersAssumption DEF ListInv, UsersTypeOK, WorkOK, ListsOK, EntriesOK, Entry, Does, GoOn, Ready, Nothing, Handled
<1>1. ASSUME NEW h \in Hubs, PutOnline(h) PROVE ListInv'
  <2>1. UsersTypeOK' /\ WorkOK'
    BY <1>1 DEF PutOnline
  <2>2. ListsOK'
    BY <1>1 DEF PutOnline
  <2>3. ASSUME NEW k \in Hubs, NEW v \in Users
        PROVE (<< v, k >> \in onlineUsers <=> Entry(v, k))'
    <3>1. CASE k = h
      BY <1>1, <3>1 DEF PutOnline
    <3>2. CASE k # h
      BY <1>1, <3>2 DEF PutOnline
    <3> QED
      BY <3>1, <3>2
  <2> QED
    BY <2>1, <2>2, <2>3
<1>2. ASSUME NEW h \in Hubs, FlagOnline(h) PROVE ListInv'
  <2>1. UsersTypeOK' /\ WorkOK'
    BY <1>2 DEF FlagOnline
  <2>2. ListsOK'
    BY <1>2 DEF FlagOnline
  <2>3. ASSUME NEW k \in Hubs, NEW v \in Users
        PROVE (<< v, k >> \in onlineUsers <=> Entry(v, k))'
    <3>1. CASE k = h
      BY <1>2, <3>1 DEF FlagOnline
    <3>2. CASE k # h
      BY <1>2, <3>2 DEF FlagOnline
    <3> QED
      BY <3>1, <3>2
  <2> QED
    BY <2>1, <2>2, <2>3
<1>3. ASSUME NEW h \in Hubs, ForgetOffline(h) PROVE ListInv'
  <2>1. UsersTypeOK' /\ WorkOK'
    BY <1>3 DEF ForgetOffline
  <2>2. ListsOK'
    BY <1>3 DEF ForgetOffline
  <2>3. EntriesOK'
    BY <1>3 DEF ForgetOffline
  <2> QED
    BY <2>1, <2>2, <2>3
<1>4. ASSUME NEW h \in Hubs, PutOffline(h) PROVE ListInv'
  <2>1. UsersTypeOK' /\ WorkOK'
    BY <1>4 DEF PutOffline
  <2>2. ListsOK'
    BY <1>4 DEF PutOffline
  <2>3. ASSUME NEW k \in Hubs, NEW v \in Users
        PROVE (<< v, k >> \in onlineUsers <=> Entry(v, k))'
    <3>1. CASE k = h
      BY <1>4, <3>1 DEF PutOffline
    <3>2. CASE k # h
      BY <1>4, <3>2 DEF PutOffline
    <3> QED
      BY <3>1, <3>2
  <2> QED
    BY <2>1, <2>2, <2>3
<1>5. ASSUME NEW h \in Hubs, Unflag(h) PROVE ListInv'
  BY <1>5 DEF Unflag
<1>6. ASSUME NEW h \in Hubs, NextLeaving(h) PROVE ListInv'
  BY <1>6 DEF NextLeaving
<1>7. ASSUME NEW h \in Hubs, ClearUsers(h) PROVE ListInv'
  BY <1>7 DEF ClearUsers
<1>8. ASSUME NEW h \in Hubs, NEW u \in Users, Join(h, u) PROVE ListInv'
  BY <1>8 DEF Join
<1>9. ASSUME NEW h \in Hubs, NEW u \in Users, Quit(h, u) PROVE ListInv'
  BY <1>9 DEF Quit
<1>10. ASSUME CleanUserMap PROVE ListInv'
  BY <1>10 DEF CleanUserMap, Unreferenced
<1>11. CASE UNCHANGED usersVars
  BY <1>11 DEF usersVars
<1> QED
  BY <1>1, <1>2, <1>3, <1>4, <1>5, <1>6, <1>7, <1>8, <1>9, <1>10, <1>11 DEF UsersNext, Presence

\* Every user keeps Found unless he is forgotten: putOffline lists the user as
\* offline under the lock that takes his last entry, and putOnline removes him
\* from offlineUsers when he has one.
LEMMA FoundNext ==
    ListInv /\ [UsersNext]_usersVars => \A u \in Users : Found(u) /\ u \in known' => Found(u)'
<1> SUFFICES ASSUME ListInv, [UsersNext]_usersVars, NEW u \in Users, Found(u), u \in known'
             PROVE Found(u)'
  OBVIOUS
<1> USE DEF Found
<1>1. ASSUME NEW h \in Hubs, PutOnline(h) PROVE Found(u)'
  BY <1>1 DEF PutOnline
<1>2. ASSUME NEW h \in Hubs, FlagOnline(h) PROVE Found(u)'
  BY <1>2 DEF FlagOnline
<1>3. ASSUME NEW h \in Hubs, ForgetOffline(h) PROVE Found(u)'
  <2>1. CASE u = work[h].user
    <3>1. << u, h >> \in onlineUsers
      BY <1>3, <2>1 DEF ForgetOffline, Does, ListInv, ListsOK, EntriesOK, Entry
    <3> QED
      BY <3>1, <1>3 DEF ForgetOffline
  <2>2. CASE u # work[h].user
    BY <1>3, <2>2 DEF ForgetOffline
  <2> QED
    BY <2>1, <2>2
<1>4. ASSUME NEW h \in Hubs, PutOffline(h) PROVE Found(u)'
  <2>1. CASE u = work[h].user /\ HubsOf(u) # {h} /\ u \notin offlineUsers
    <3>1. PICK k \in Hubs : k # h /\ << u, k >> \in onlineUsers
      BY <2>1 DEF HubsOf
    <3>2. << u, k >> \in onlineUsers'
      BY <3>1, <1>4 DEF PutOffline
    <3> QED
      BY <3>2
  <2>2. CASE u = work[h].user /\ HubsOf(u) = {h}
    BY <1>4, <2>2 DEF PutOffline
  <2>3. CASE u # work[h].user \/ u \in offlineUsers
    BY <1>4, <2>3 DEF PutOffline
  <2> QED
    BY <2>1, <2>2, <2>3
<1>5. ASSUME NEW h \in Hubs, Unflag(h) \/ NextLeaving(h) \/ ClearUsers(h) PROVE Found(u)'
  BY <1>5 DEF Unflag, NextLeaving, ClearUsers
<1>6. ASSUME NEW h \in Hubs, NEW v \in Users, Join(h, v) \/ Quit(h, v) PROVE Found(u)'
  BY <1>6 DEF Join, Quit
<1>7. ASSUME CleanUserMap PROVE Found(u)'
  BY <1>7 DEF CleanUserMap
<1>8. CASE UNCHANGED usersVars
  BY <1>8 DEF usersVars
<1> QED
  BY <1>1, <1>2, <1>3, <1>4, <1>5, <1>6, <1>7, <1>8 DEF UsersNext, Presence

\* A step of the thread of one hub for one user leaves the other users alone.
LEMMA OneUser ==
    ASSUME ListInv, FlagInv, ~Overlap, NEW h \in Hubs, NEW u \in Users,
           work[h].user \in {u, NoUser}, work'[h].user \in {u, NoUser},
           \A k \in Hubs \ {h} : work'[k] = work[k] /\ work[k].user # u,
           \A v \in Users \ {u} : v \in flagged' <=> v \in flagged,
           \A v \in Users \ {u} : v \in offlineUsers' <=> v \in offlineUsers,
           \A v \in Users \ {u} : HubsOf(v)' = HubsOf(v),
           work'[h].user = NoUser => Settled(u)',
           work'[h].user = u => Flag(h, u)'
    PROVE FlagInv'
<1> USE UsersAssumption
<1>1. Exclusive'
  BY DEF FlagInv, Exclusive
<1>2. ASSUME NEW v \in Users, \A k \in Hubs : work'[k].user # v PROVE Settled(v)'
  <2>1. CASE v = u
    BY <1>2, <2>1
  <2>2. CASE v # u
    <3>1. \A k \in Hubs : work[k].user # v
      BY <1>2, <2>2
    <3> QED
      BY <3>1, <2>2 DEF FlagInv, Settled
  <2> QED
    BY <2>1, <2>2
<1>3. ASSUME NEW k \in Hubs, work'[k].user # NoUser PROVE Flag(k, work[k].user)'
  <2>1. CASE k = h
    BY <1>3, <2>1
  <2>2. CASE k # h
    <3>1. work'[k] = work[k] /\ work[k].user # u /\ work[k].user # NoUser
      BY <1>3, <2>2
    <3>2. work[k].user \in Users
      BY <3>1 DEF ListInv, UsersTypeOK
    <3>3. Flag(k, work[k].user)
      BY <3>1 DEF FlagInv
    <3> QED
      BY <3>1, <3>2, <3>3 DEF Flag, Settled
  <2> QED
    BY <2>1, <2>2
<1> QED
  BY <1>1, <1>2, <1>3 DEF FlagInv

\* The thread of a hub that is at work for a user is the only one.
LEMMA AtWorkAlone ==
    ASSUME ListInv, FlagInv, ~Overlap, NEW h \in Hubs, work[h].step # "none"
    PROVE /\ work[h].user \in Users
          /\ Flag(h, work[h].user)
          /\ \A k \in Hubs \ {h} : work[k].user # work[h].user
<1>1. work[h].user # NoUser
  BY DEF ListInv, WorkOK
<1> QED
  BY <1>1 DEF ListInv, UsersTypeOK, FlagInv, Exclusive

\* The flag is right between the commands about a user.
LEMMA FlagInvNext == ListInv /\ FlagInv /\ [UsersNext]_usersVars => FlagInv'
<1> SUFFICES ASSUME ListInv, FlagInv, [UsersNext]_usersVars, ~Overlap
             PROVE FlagInv'
  BY DEF FlagInv
<1> USE UsersAssumption
<1>t. UsersTypeOK /\ WorkOK
  BY DEF ListInv
<1>1. ASSUME NEW h \in Hubs, PutOnline(h) PROVE FlagInv'
  <2>1. PICK u \in Users : /\ work[h].user = u /\ Flag(h, u)
                           /\ \A k \in Hubs \ {h} : work[k].user # u
    BY <1>1, AtWorkAlone DEF PutOnline, Does
  <2>2. work'[h].user = u /\ work'[h].step = "flag" /\ \A k \in Hubs \ {h} : work'[k] = work[k]
    BY <1>1, <1>t, <2>1 DEF PutOnline, GoOn, UsersTypeOK
  <2>3. \A v \in Users \ {u} : HubsOf(v)' = HubsOf(v)
    BY <1>1, <2>1 DEF PutOnline, HubsOf
  <2>4. Flag(h, u)'
    BY <1>1, <2>1, <2>2 DEF PutOnline, Does, Flag, Settled
  <2> QED
    BY <1>1, <2>1, <2>2, <2>3, <2>4, OneUser DEF PutOnline
<1>2. ASSUME NEW h \in Hubs, FlagOnline(h) PROVE FlagInv'
  <2>1. PICK u \in Users : /\ work[h].user = u /\ Flag(h, u)
                           /\ \A k \in Hubs \ {h} : work[k].user # u
    BY <1>2, AtWorkAlone DEF FlagOnline, Does
  <2>2. \A k \in Hubs \ {h} : work'[k] = work[k]
    BY <1>2, <1>t DEF FlagOnline, GoOn, Ready, UsersTypeOK
  <2>3. \A v \in Users : HubsOf(v)' = HubsOf(v)
    BY <1>2 DEF FlagOnline, HubsOf
  <2>4. h \in HubsOf(u)
    BY <1>2, <2>1 DEF FlagOnline, Does, ListInv, ListsOK, EntriesOK, Entry, HubsOf
  <2>5. CASE u \in flagged
    <3>1. work'[h].user = NoUser
      BY <1>2, <1>t, <2>1, <2>5 DEF FlagOnline, Ready, Nothing, UsersTypeOK
    <3>2. Settled(u)'
      BY <1>2, <2>1, <2>3, <2>4, <2>5 DEF FlagOnline, Does, Flag, Settled
    <3> QED
      BY <1>2, <1>t, <2>1, <2>2, <2>3, <3>1, <3>2, OneUser DEF FlagOnline
  <2>6. CASE u \notin flagged
    <3>1. work'[h].user = u /\ work'[h].step = "forget"
      BY <1>2, <1>t, <2>1, <2>6 DEF FlagOnline, GoOn, UsersTypeOK
    <3>2. Flag(h, u)'
      BY <1>2, <3>1, <2>1 DEF FlagOnline, Flag
    <3> QED
      BY <1>2, <1>t, <2>1, <2>2, <2>3, <3>1, <3>2, OneUser DEF FlagOnline
  <2> QED
    BY <2>5, <2>6
<1>3. ASSUME NEW h \in Hubs, ForgetOffline(h) PROVE FlagInv'
  <2>1. PICK u \in Users : /\ work[h].user = u /\ Flag(h, u)
                           /\ \A k \in Hubs \ {h} : work[k].user # u
    BY <1>3, AtWorkAlone DEF ForgetOffline, Does
  <2>2. work'[h].user = NoUser /\ \A k \in Hubs \ {h} : work'[k] = work[k]
    BY <1>3, <1>t DEF ForgetOffline, Ready, Nothing, UsersTypeOK
  <2>3. \A v \in Users : HubsOf(v)' = HubsOf(v)
    BY <1>3 DEF ForgetOffline, HubsOf
  <2>4. h \in HubsOf(u)
    BY <1>3, <2>1 DEF ForgetOffline, Does, ListInv, ListsOK, EntriesOK, Entry, HubsOf
  <2>5. Settled(u)'
    BY <1>3, <2>1, <2>3, <2>4 DEF ForgetOffline, Does, Flag, Settled
  <2> QED
    BY <1>3, <2>1, <2>2, <2>3, <2>5, OneUser DEF ForgetOffline
<1>4. ASSUME NEW h \in Hubs, PutOffline(h) PROVE FlagInv'
  <2>1. PICK u \in Users : /\ work[h].user = u /\ Flag(h, u)
                           /\ \A k \in Hubs \ {h} : work[k].user # u
    BY <1>4, AtWorkAlone DEF PutOffline, Does
  <2>2. \A k \in Hubs \ {h} : work'[k] = work[k]
    BY <1>4, <1>t DEF PutOffline, GoOn, Ready, UsersTypeOK
  <2>3. \A v \in Users \ {u} : HubsOf(v)' = HubsOf(v)
    BY <1>4, <2>1 DEF PutOffline, HubsOf
  <2>4. h \in HubsOf(u) /\ HubsOf(u)' = HubsOf(u) \ {h}
    BY <1>4, <2>1 DEF PutOffline, Does, ListInv, EntriesOK, Entry, HubsOf
  <2>5. Settled(u)
    BY <1>4, <2>1 DEF PutOffline, Does, Flag
  <2>6. CASE HubsOf(u) = {h}
    <3>1. work'[h].user = u /\ work'[h].step = "unflag"
      BY <1>4, <1>t, <2>1, <2>6 DEF PutOffline, GoOn, UsersTypeOK
    <3>2. Flag(h, u)'
      BY <3>1, <2>4, <2>6 DEF Flag
    <3> QED
      BY <1>4, <2>1, <2>2, <2>3, <3>1, <3>2, OneUser DEF PutOffline
  <2>7. CASE HubsOf(u) # {h}
    <3>1. work'[h].user = NoUser
      BY <1>4, <1>t, <2>1, <2>7 DEF PutOffline, Ready, Nothing, UsersTypeOK
    <3>2. Settled(u)'
      BY <1>4, <2>4, <2>5, <2>7 DEF PutOffline, Settled
    <3> QED
      BY <1>4, <2>1, <2>2, <2>3, <2>7, <3>1, <3>2, OneUser DEF PutOffline
  <2> QED
    BY <2>6, <2>7
<1>5. ASSUME NEW h \in Hubs, Unflag(h) PROVE FlagInv'
  <2>1. PICK u \in Users : /\ work[h].user = u /\ Flag(h, u)
                           /\ \A k \in Hubs \ {h} : work[k].user # u
    BY <1>5, AtWorkAlone DEF Unflag, Does
  <2>2. work'[h].user = NoUser /\ \A k \in Hubs \ {h} : work'[k] = work[k]
    BY <1>5, <1>t DEF Unflag, Ready, Nothing, UsersTypeOK
  <2>3. \A v \in Users : HubsOf(v)' = HubsOf(v)
    BY <1>5 DEF Unflag, HubsOf
  <2>4. Settled(u)'
    BY <1>5, <2>1, <2>3 DEF Unflag, Does, Flag, Settled
  <2> QED
    BY <1>5, <2>1, <2>2, <2>3, <2>4, OneUser DEF Unflag
<1>6. ASSUME NEW h \in Hubs, NEW u \in Users,
             Alone(h, u), work[h] = Nothing, UNCHANGED << onlineUsers, offlineUsers, flagged >>,
             \E step \in {"add", "remove"} : work' = [work EXCEPT ![h] = [step |-> step, user |-> u]]
      PROVE FlagInv'
  <2>1. work[h].user = NoUser /\ work'[h].user = u /\ work'[h].step \in {"add", "remove"}
    BY <1>6, <1>t DEF Nothing, UsersTypeOK
  <2>2. \A k \in Hubs \ {h} : work'[k] = work[k] /\ work[k].user # u
    BY <1>6, <1>t DEF Alone, UsersTypeOK
  <2>3. \A v \in Users : HubsOf(v)' = HubsOf(v)
    BY <1>6 DEF HubsOf
  <2>4. Settled(u)
    BY <2>1, <2>2 DEF FlagInv
  <2>5. Flag(h, u)'
    BY <1>6, <2>1, <2>3, <2>4 DEF Flag, Settled
  <2> QED
    BY <1>6, <2>1, <2>2, <2>3, <2>5, OneUser
<1>7. ASSUME NEW h \in Hubs, NextLeaving(h) PROVE FlagInv'
  <2>1. PICK u \in leaving[h] : Alone(h, u) /\ work' = [work EXCEPT ![h] = [step |-> "remove", user |-> u]]
    BY <1>7 DEF NextLeaving
  <2>2. u \in Users
    BY <2>1, <1>t DEF UsersTypeOK
  <2> QED
    BY <1>6, <1>7, <2>1, <2>2 DEF NextLeaving
<1>8. ASSUME NEW h \in Hubs, NEW u \in Users, Join(h, u) \/ Quit(h, u) PROVE FlagInv'
  BY <1>6, <1>8 DEF Join, Quit, Handled
<1>9. ASSUME UNCHANGED << work, onlineUsers, offlineUsers, flagged >> PROVE FlagInv'
  <2>1. \A v \in Users : HubsOf(v)' = HubsOf(v)
    BY <1>9 DEF HubsOf
  <2>2. \A v \in Users : Settled(v)' = Settled(v)
    BY <1>9, <2>1 DEF Settled
  <2>3. \A h \in Hubs : work[h].user # NoUser => work[h].user \in Users
    BY <1>t DEF UsersTypeOK
  <2> QED
    BY <1>9, <2>1, <2>2, <2>3 DEF FlagInv, Exclusive, Flag
<1>10. ASSUME NEW h \in Hubs, ClearUsers(h) PROVE FlagInv'
  BY <1>9, <1>10 DEF ClearUsers
<1>11. ASSUME CleanUserMap PROVE FlagInv'
  <2>1. PICK gone \in SUBSET Unreferenced \ {{}} : offlineUsers' = offlineUsers \ gone /\ flagged' = flagged \ gone
    BY <1>11 DEF CleanUserMap
  <2>2. \A v \in Users : HubsOf(v)' = HubsOf(v)
    BY <1>11 DEF CleanUserMap, HubsOf
  <2>3. \A v \in gone : HubsOf(v) = {} /\ \A h \in Hubs : work[h].user # v
    BY <2>1 DEF Unreferenced
  <2>4. \A v \in Users : Settled(v) => Settled(v)'
    BY <2>1, <2>2, <2>3 DEF Settled
  <2>5. ASSUME NEW h \in Hubs, work[h].user # NoUser PROVE Flag(h, work[h].user)'
    <3>1. work[h].user \in Users /\ work[h].user \notin gone /\ Flag(h, work[h].user)
      BY <1>t, <2>3, <2>5 DEF UsersTypeOK, FlagInv
    <3> QED
      BY <1>11, <2>1, <2>2, <2>4, <3>1 DEF Flag, CleanUserMap
  <2> QED
    BY <1>11, <2>4, <2>5 DEF FlagInv, Exclusive, CleanUserMap
<1>12. CASE UNCHANGED usersVars
  BY <1>9, <1>12 DEF usersVars
<1> QED
  BY <1>1, <1>2, <1>3, <1>4, <1>5, <1>7, <1>8, <1>10, <1>11, <1>12 DEF UsersNext, Presence

LEMMA FlagInvInit == UsersInit => FlagInv
BY UsersAssumption DEF UsersInit, FlagInv, Exclusive, Flag, Settled, HubsOf, Nothing

\* However threads overlap, the flag of a user who is on no hub will be taken by the
\* thread that took his last entry, and one who is flagged and listed as offline has
\* a thread that takes the flag or the list's entry.
AtWork(u, steps) == \E h \in Hubs : work[h].user = u /\ work[h].step \in steps

InTime(u) ==
    /\ HubsOf(u) = {} => AtWork(u, {"unflag"})
    /\ u \in offlineUsers => AtWork(u, {"unflag", "forget"})

LateInv == \A u \in flagged : InTime(u)

LEMMA LateInvNext == ListInv /\ LateInv /\ [UsersNext]_usersVars => LateInv'
<1> SUFFICES ASSUME ListInv, LateInv, [UsersNext]_usersVars, NEW u \in flagged'
             PROVE InTime(u)'
  BY DEF LateInv
<1> USE UsersAssumption DEF InTime
<1>t. UsersTypeOK
  BY DEF ListInv
<1>1. ASSUME NEW h \in Hubs, work[h].step \notin {"unflag", "forget"} \/ work[h].user # u,
             \A k \in Hubs \ {h} : work'[k] = work[k],
             u \in flagged, HubsOf(u)' = {} => HubsOf(u) = {},
             u \in offlineUsers' => u \in offlineUsers
      PROVE InTime(u)'
  <2>1. ASSUME NEW steps \in SUBSET {"unflag", "forget"}, AtWork(u, steps) PROVE AtWork(u, steps)'
    BY <1>1, <2>1 DEF AtWork
  <2>2. HubsOf(u) = {} => AtWork(u, {"unflag"})
    BY <1>1 DEF LateInv
  <2>3. u \in offlineUsers => AtWork(u, {"unflag", "forget"})
    BY <1>1 DEF LateInv
  <2> QED
    BY <1>1, <2>1, <2>2, <2>3
<1>2. ASSUME NEW h \in Hubs, PutOnline(h)
      PROVE InTime(u)'
  <2>1. HubsOf(u) \subseteq HubsOf(u)'
    BY <1>2 DEF PutOnline, HubsOf
  <2>2. work[h].step \notin {"unflag", "forget"} /\ \A k \in Hubs \ {h} : work'[k] = work[k]
    BY <1>2, <1>t DEF PutOnline, Does, GoOn, UsersTypeOK
  <2> QED
    BY <1>2, <2>1, <2>2, <1>1 DEF PutOnline
<1>3. ASSUME NEW h \in Hubs, FlagOnline(h)
      PROVE InTime(u)'
  <2>1. HubsOf(u)' = HubsOf(u)
    BY <1>3 DEF FlagOnline, HubsOf
  <2>2. work[h].step = "flag" /\ \A k \in Hubs \ {h} : work'[k] = work[k]
    BY <1>3, <1>t DEF FlagOnline, Does, GoOn, Ready, UsersTypeOK
  <2>3. CASE u \in flagged
    BY <1>3, <2>1, <2>2, <2>3, <1>1 DEF FlagOnline
  <2>4. CASE u \notin flagged
    <3>1. u = work[h].user
      BY <1>3, <2>4 DEF FlagOnline
    <3>2. h \in HubsOf(u)
      BY <2>2, <3>1, <1>t DEF ListInv, ListsOK, EntriesOK, Entry, HubsOf, UsersTypeOK
    <3>3. work'[h].user = u /\ work'[h].step = "forget"
      BY <1>3, <1>t, <2>4, <3>1 DEF FlagOnline, GoOn, UsersTypeOK
    <3> QED
      BY <2>1, <3>2, <3>3 DEF AtWork
  <2> QED
    BY <2>3, <2>4
<1>4. ASSUME NEW h \in Hubs, ForgetOffline(h)
      PROVE InTime(u)'
  <2>1. HubsOf(u)' = HubsOf(u) /\ u \in flagged
    BY <1>4 DEF ForgetOffline, HubsOf
  <2>2. work[h].step = "forget" /\ \A k \in Hubs \ {h} : work'[k] = work[k]
    BY <1>4, <1>t DEF ForgetOffline, Does, Ready, UsersTypeOK
  <2>3. CASE work[h].user = u
    <3>1. u \notin offlineUsers'
      BY <1>4, <2>3 DEF ForgetOffline
    <3>2. HubsOf(u) # {}
      BY <2>2, <2>3, <1>t DEF ListInv, ListsOK, EntriesOK, Entry, HubsOf, UsersTypeOK
    <3> QED
      BY <2>1, <3>1, <3>2
  <2>4. CASE work[h].user # u
    BY <1>4, <2>1, <2>2, <2>4, <1>1 DEF ForgetOffline
  <2> QED
    BY <2>3, <2>4
<1>5. ASSUME NEW h \in Hubs, PutOffline(h)
      PROVE InTime(u)'
  <2>1. u \in flagged /\ work[h].step = "remove" /\ \A k \in Hubs \ {h} : work'[k] = work[k]
    BY <1>5, <1>t DEF PutOffline, Does, GoOn, Ready, UsersTypeOK
  <2>2. CASE work[h].user = u /\ HubsOf(u) = {h}
    <3>1. work'[h].user = u /\ work'[h].step = "unflag"
      BY <1>5, <1>t, <2>2 DEF PutOffline, GoOn, UsersTypeOK
    <3> QED
      BY <3>1 DEF AtWork
  <2>3. CASE work[h].user # u \/ HubsOf(u) # {h}
    <3>1. HubsOf(u)' = {} => HubsOf(u) = {}
      BY <1>5, <2>3 DEF PutOffline, HubsOf
    <3>2. u \in offlineUsers' => u \in offlineUsers
      BY <1>5, <2>3 DEF PutOffline
    <3> QED
      BY <2>1, <3>1, <3>2, <1>1
  <2> QED
    BY <2>2, <2>3
<1>6. ASSUME NEW h \in Hubs, Unflag(h)
      PROVE InTime(u)'
  <2>1. HubsOf(u)' = HubsOf(u) /\ u \in flagged /\ work[h].user # u
    BY <1>6 DEF Unflag, HubsOf
  <2>2. \A k \in Hubs \ {h} : work'[k] = work[k]
    BY <1>6, <1>t DEF Unflag, Ready, UsersTypeOK
  <2> QED
    BY <1>6, <2>1, <2>2, <1>1 DEF Unflag
<1>7. ASSUME NEW h \in Hubs, work[h] = Nothing, UNCHANGED << onlineUsers, offlineUsers, flagged >>,
             \A k \in Hubs \ {h} : work'[k] = work[k]
      PROVE InTime(u)'
  BY <1>7, <1>1 DEF HubsOf, Nothing
<1>8. ASSUME NEW h \in Hubs, NextLeaving(h)
      PROVE InTime(u)'
  BY <1>8, <1>7, <1>t DEF NextLeaving, UsersTypeOK
<1>9. ASSUME NEW h \in Hubs, NEW v \in Users, Join(h, v) \/ Quit(h, v)
      PROVE InTime(u)'
  BY <1>9, <1>7, <1>t DEF Join, Quit, Handled, UsersTypeOK
<1>10. ASSUME UNCHANGED << work, onlineUsers >>, u \in flagged,
              u \in offlineUsers' => u \in offlineUsers
      PROVE InTime(u)'
  BY <1>10 DEF LateInv, HubsOf, AtWork
<1>11. CASE \E h \in Hubs : ClearUsers(h)
  BY <1>11, <1>10 DEF ClearUsers
<1>12. CASE CleanUserMap
  BY <1>12, <1>10 DEF CleanUserMap
<1>13. CASE UNCHANGED usersVars
  BY <1>13, <1>10 DEF usersVars
<1> QED
  BY <1>2, <1>3, <1>4, <1>5, <1>6, <1>8, <1>9, <1>11, <1>12, <1>13 DEF UsersNext, Presence

-----------------------------------------------------------------------------
\* Whatever a hub sends, however its connection ends and whatever is searched,
\* the users see a step of their own or nothing.
LEMMA UsersStep == [Next]_vars => [UsersNext]_usersVars
<1> SUFFICES ASSUME [Next]_vars PROVE [UsersNext]_usersVars
  OBVIOUS
<1>1. ASSUME NEW h \in Hubs, HubSends(h) PROVE UNCHANGED usersVars
  BY <1>1 DEF HubSends, Connected, SessionId, GetPassword, OwnInf
<1>2. ASSUME NEW h \in Hubs, SocketThread(h) PROVE [UsersNext]_usersVars
  BY <1>2 DEF SocketThread, UserStep, SetDisconnected, FireDisconnected, UsersNext
<1>3. ASSUME NEW h \in Hubs, SocketFails(h) \/ Shutdown(h) PROVE UsersNext
  BY <1>3 DEF SocketFails, Shutdown, UsersNext
<1>4. ASSUME NEW h \in Hubs, TimerConnect(h) \/ Reconnect(h) \/ AnnounceClosing(h) \/ TimerSearch(h)
      PROVE UNCHANGED usersVars
  BY <1>4 DEF TimerConnect, Reconnect, AnnounceClosing, TimerSearch
<1>5. ASSUME NEW h \in Hubs, NEW back \in BOOLEAN, QuitMe(h, back) PROVE UNCHANGED usersVars
  BY <1>5 DEF QuitMe
<1>6. ASSUME NEW h \in Hubs, NEW u \in Users, UserInf(h, u) \/ UserQuit(h, u) PROVE UsersNext
  BY <1>6 DEF UserInf, UserQuit, UsersNext
<1>7. ASSUME NEW i \in Searchers, NEW interval \in Intervals, StartSearch(i, interval)
      PROVE UNCHANGED usersVars
  BY <1>7 DEF StartSearch
<1>8. ASSUME NEW i \in Searchers, NEW h \in Hubs, SearchOnHub(i, h) PROVE UNCHANGED usersVars
  BY <1>8 DEF SearchOnHub
<1>9. ASSUME NEW i \in Searchers, RecordSearch(i) PROVE UNCHANGED usersVars
  BY <1>9 DEF RecordSearch
<1>10. ASSUME TimerPops \/ Elapse PROVE UNCHANGED usersVars
  BY <1>10 DEF TimerPops, Elapse
<1>11. ASSUME Forget PROVE UsersNext
  BY <1>11 DEF Forget, UsersNext
<1>12. CASE UNCHANGED vars
  BY <1>12 DEF vars
<1> QED
  BY <1>1, <1>2, <1>3, <1>4, <1>5, <1>6, <1>7, <1>8, <1>9, <1>10, <1>11, <1>12 DEF Next

\* The hubs implement HubUsers: the sessions and the searches, which guard and
\* drive the commands about users, take no other step with them.
THEOREM HubsAreUsers == Spec => UsersSpec
<1>1. Init => UsersInit
  BY DEF Init
<1> QED
  BY <1>1, UsersStep, PTL DEF Spec, UsersSpec

\* The lists, the entries and the steps of the threads belong together.
LEMMA UsersInvariant == UsersSpec => [](ListInv /\ FlagInv /\ LateInv)
<1>1. UsersInit => ListInv /\ FlagInv /\ LateInv
  BY ListInvInit, FlagInvInit DEF UsersInit, LateInv
<1>2. ListInv /\ FlagInv /\ LateInv /\ [UsersNext]_usersVars => (ListInv /\ FlagInv /\ LateInv)'
  BY ListInvNext, FlagInvNext, LateInvNext
<1> QED
  BY <1>1, <1>2, PTL DEF UsersSpec

\* putOffline's comment: "so we ensure that we should always find the user in
\* atleast one of the lists", whatever the threads of other hubs do to the same
\* user between the locks.
THEOREM AlwaysFound == Spec => StaysFound
<1>1. ListInv /\ [UsersNext]_usersVars => [\A u \in Users : Found(u) /\ u \in known' => Found(u)']_usersVars
  BY FoundNext
<1> QED
  BY <1>1, HubsAreUsers, UsersInvariant, PTL DEF UsersSpec, StaysFound

\* Between the commands about a user, one with ClientManager's flag ONLINE is on a hub
\* and not listed by offlineUsers, however the threads of other hubs meet putOnline and
\* putOffline behind their locks; and a user on a hub has the flag as long as no two
\* threads are at work for one user.
THEOREM FlaggedOnline == Spec => []OnlineAsFlagged
<1>1. FlagInv /\ LateInv => OnlineAsFlagged
  <2>1. LateInv => \A u \in Users : (\A h \in Hubs : work[h].user # u) =>
                      (u \in flagged => HubsOf(u) # {} /\ u \notin offlineUsers)
    BY DEF LateInv, InTime, AtWork
  <2>2. FlagInv => \A u \in Users : (\A h \in Hubs : work[h].user # u) =>
                      (~Overlap => (HubsOf(u) # {} => u \in flagged))
    BY DEF FlagInv, Settled
  <2> QED
    BY <2>1, <2>2 DEF OnlineAsFlagged
<1> QED
  BY <1>1, HubsAreUsers, UsersInvariant, PTL

-----------------------------------------------------------------------------
(* The sessions, their users and the searches that wait for them.          *)

SessionTypes ==
    /\ state \in [Hubs -> States]
    /\ counted \in [Hubs -> BOOLEAN]
    /\ failing \in [Hubs -> {"none", "clear", "notify"}]

\* A hub without a connection has no users and is not counted.
Down(h) == state[h] \in {"disconnected", "connecting", "closed"} \/ failing[h] # "none"
DownOK == \A h \in Hubs : Down(h) => listed[h] = {} /\ ~counted[h]

Asking == [step : {"none", "queue"}, interval : 0 .. 4, left : SUBSET Hubs,
           queued : SUBSET Hubs, late : BOOLEAN]

SearchTypes == waiting \in [Searchers -> SUBSET Hubs] /\ asking \in [Searchers -> Asking]

\* A hub that an instance waits for, or is going to, will send the search or has
\* its disconnection still to be announced.
Reports(h) == h \notin closing /\ (IsConnected(h) \/ failing[h] = "notify")
ReportsOK ==
    ~Interleaved => \A i \in Searchers : \A h \in waiting[i] \union asking[i].queued : Reports(h)

SessionInv == SessionTypes /\ DownOK
SearchInv == SearchTypes /\ ReportsOK

LEMMA SessionInvNext == ListInv /\ SessionInv /\ [Next]_vars => SessionInv'
<1> SUFFICES ASSUME ListInv, SessionInv, [Next]_vars PROVE SessionInv'
  OBVIOUS
<1> USE DEF SessionInv, SessionTypes, DownOK, Down, States, SetConnectState
<1>t. UsersTypeOK
  BY DEF ListInv
<1>1. ASSUME NEW h \in Hubs, Connected(h) \/ SessionId(h) \/ GetPassword(h) PROVE SessionInv'
  BY <1>1 DEF Connected, SessionId, GetPassword, Free, usersVars
<1>2. ASSUME NEW h \in Hubs, OwnInf(h) PROVE SessionInv'
  BY <1>2 DEF OwnInf, Free, usersVars
<1>3. ASSUME UNCHANGED << state, counted, failing >>, \A h \in Hubs : listed'[h] \subseteq listed[h]
      PROVE SessionInv'
  BY <1>3
<1>4. ASSUME NEW h \in Hubs, UserStep(h) PROVE SessionInv'
  <2>1. listed' = listed
    BY <1>4 DEF UserStep, Presence, PutOnline, FlagOnline, ForgetOffline, PutOffline, Unflag, NextLeaving
  <2> QED
    BY <1>4, <2>1, <1>3 DEF UserStep, sessionVars
<1>5. ASSUME NEW h \in Hubs, SetDisconnected(h) \/ FireDisconnected(h) PROVE SessionInv'
  BY <1>5 DEF SetDisconnected, FireDisconnected, usersVars
<1>6. ASSUME NEW h \in Hubs, SocketFails(h) \/ Shutdown(h) PROVE SessionInv'
  BY <1>6, <1>t DEF SocketFails, Shutdown, ClearUsers, UsersTypeOK
<1>7. ASSUME NEW h \in Hubs, TimerConnect(h) PROVE SessionInv'
  BY <1>7 DEF TimerConnect, usersVars
<1>8. ASSUME NEW h \in Hubs, Reconnect(h) \/ AnnounceClosing(h) \/ TimerSearch(h) PROVE SessionInv'
  BY <1>8, <1>3 DEF Reconnect, AnnounceClosing, TimerSearch, usersVars, sessionVars
<1>9. ASSUME NEW h \in Hubs, NEW back \in BOOLEAN, QuitMe(h, back) PROVE SessionInv'
  BY <1>9, <1>3 DEF QuitMe, usersVars
<1>10. ASSUME NEW h \in Hubs, NEW u \in Users, UserInf(h, u) PROVE SessionInv'
  BY <1>10, <1>t DEF UserInf, Free, IsConnected, Join, UsersTypeOK, sessionVars
<1>11. ASSUME NEW h \in Hubs, NEW u \in Users, UserQuit(h, u) PROVE SessionInv'
  <2>1. \A k \in Hubs : listed'[k] \subseteq listed[k]
    BY <1>11, <1>t DEF UserQuit, Quit, UsersTypeOK
  <2> QED
    BY <1>11, <2>1, <1>3 DEF UserQuit, sessionVars
<1>12. ASSUME NEW i \in Searchers, NEW interval \in Intervals, StartSearch(i, interval) PROVE SessionInv'
  BY <1>12, <1>3 DEF StartSearch, usersVars, sessionVars
<1>13. ASSUME NEW i \in Searchers, NEW h \in Hubs, SearchOnHub(i, h) PROVE SessionInv'
  BY <1>13, <1>3 DEF SearchOnHub, usersVars, sessionVars
<1>14. ASSUME NEW i \in Searchers, RecordSearch(i) PROVE SessionInv'
  BY <1>14, <1>3 DEF RecordSearch, usersVars, sessionVars
<1>15. ASSUME TimerPops \/ Elapse \/ Forget PROVE SessionInv'
  BY <1>15, <1>3 DEF TimerPops, Elapse, Forget, CleanUserMap, usersVars, sessionVars
<1>16. CASE UNCHANGED vars
  BY <1>16, <1>3 DEF vars, usersVars, sessionVars
<1> QED
  BY <1>1, <1>2, <1>4, <1>5, <1>6, <1>7, <1>8, <1>9, <1>10, <1>11, <1>12, <1>13, <1>14, <1>15, <1>16
  DEF Next, HubSends, SocketThread

LEMMA SearchInvNext == SessionInv /\ SearchInv /\ [Next]_vars => SearchInv'
<1> SUFFICES ASSUME SessionInv, SearchInv, [Next]_vars PROVE SearchInv'
  OBVIOUS
<1> USE HubsAssumption, SearchAssumption DEF SearchInv, SearchTypes, ReportsOK, Reports, IsConnected
<1>t. SessionTypes
  BY DEF SessionInv
<1>1. ASSUME UNCHANGED << waiting, asking, closing >>,
             \A h \in Hubs : Reports(h) => IsConnected(h)' \/ failing'[h] = "notify"
      PROVE SearchInv'
  BY <1>1 DEF Asking
<1>2. ASSUME NEW h \in Hubs, HubSends(h) PROVE SearchInv'
  BY <1>2, <1>1, <1>t DEF HubSends, Connected, SessionId, GetPassword, OwnInf, Free, SetConnectState, searchVars, SessionTypes
<1>3. ASSUME UNCHANGED << searchVars, sessionVars >> PROVE SearchInv'
  BY <1>3, <1>1 DEF searchVars, sessionVars
<1>4. ASSUME NEW h \in Hubs, UserStep(h) PROVE SearchInv'
  BY <1>4, <1>3 DEF UserStep
<1>5. ASSUME NEW h \in Hubs, SetDisconnected(h) PROVE SearchInv'
  BY <1>5, <1>1, <1>t DEF SetDisconnected, SetConnectState, searchVars, SessionTypes
<1>6. ASSUME NEW h \in Hubs, FireDisconnected(h) PROVE SearchInv'
  <2>1. SearchTypes'
    BY <1>6 DEF FireDisconnected, RemoveQueuedUrl
  <2>2. ASSUME ~Interleaved, NEW i \in Searchers, NEW k \in waiting'[i] \union asking'[i].queued
        PROVE Reports(k)'
    <3>1. asking'[i].queued = {}
      BY <1>6, <2>2 DEF FireDisconnected, RemoveQueuedUrl, NobodyAsking, NotAsking
    <3>2. k \in waiting[i] /\ k # h
      BY <1>6, <2>2, <3>1 DEF FireDisconnected, RemoveQueuedUrl
    <3> QED
      BY <1>6, <1>t, <2>2, <3>2 DEF FireDisconnected, SessionTypes
  <2> QED
    BY <2>1, <2>2
<1>7. ASSUME NEW h \in Hubs, SocketFails(h) PROVE SearchInv'
  BY <1>7, <1>1, <1>t DEF SocketFails, Free, searchVars, SessionTypes
<1>8. ASSUME NEW h \in Hubs, TimerConnect(h) PROVE SearchInv'
  <2>1. ~Reports(h)
    BY <1>8 DEF TimerConnect
  <2> QED
    BY <1>8, <2>1, <1>1, <1>t DEF TimerConnect, SetConnectState, searchVars, SessionTypes
<1>9. ASSUME NEW h \in Hubs, Reconnect(h) PROVE SearchInv'
  BY <1>9, <1>1 DEF Reconnect, searchVars
<1>10. ASSUME NEW h \in Hubs, AnnounceClosing(h) PROVE SearchInv'
  <2>1. SearchTypes'
    BY <1>10 DEF AnnounceClosing, RemoveQueuedUrl
  <2>2. ASSUME ~Interleaved, NEW i \in Searchers, NEW k \in waiting'[i] \union asking'[i].queued
        PROVE Reports(k)'
    <3>1. asking'[i].queued = {}
      BY <1>10, <2>2 DEF AnnounceClosing, RemoveQueuedUrl, NobodyAsking, NotAsking
    <3>2. k \in waiting[i] /\ k # h
      BY <1>10, <2>2, <3>1 DEF AnnounceClosing, RemoveQueuedUrl
    <3> QED
      BY <1>10, <2>2, <3>2 DEF AnnounceClosing
  <2> QED
    BY <2>1, <2>2
<1>11. ASSUME NEW h \in Hubs, Shutdown(h) PROVE SearchInv'
  <2>1. ~Reports(h)
    BY <1>11 DEF Shutdown
  <2> QED
    BY <1>11, <2>1, <1>1, <1>t DEF Shutdown, SetConnectState, searchVars, SessionTypes
<1>12. ASSUME NEW h \in Hubs, TimerSearch(h) PROVE SearchInv'
  BY <1>12, <1>1 DEF TimerSearch, PopCheck, sessionVars
<1>13. ASSUME NEW h \in Hubs, NEW back \in BOOLEAN, QuitMe(h, back) PROVE SearchInv'
  BY <1>13, <1>1 DEF QuitMe, searchVars
<1>14. ASSUME NEW h \in Hubs, NEW u \in Users, UserInf(h, u) \/ UserQuit(h, u) PROVE SearchInv'
  BY <1>14, <1>3 DEF UserInf, UserQuit
<1>15. ASSUME NEW i \in Searchers, NEW interval \in Intervals, StartSearch(i, interval) PROVE SearchInv'
  <2> DEFINE a == [NotAsking EXCEPT !.step = "queue", !.interval = interval, !.left = SearchHubs]
  <2>0. a \in Asking /\ a.queued = {}
    <3>1. NotAsking \in Asking /\ NotAsking.queued = {}
      BY DEF NotAsking, Asking
    <3>i. interval \in 0 .. 4 /\ SearchHubs \in SUBSET Hubs
      OBVIOUS
    <3>2. ASSUME NEW r \in Asking
          PROVE LET c == [r EXCEPT !.step = "queue", !.interval = interval, !.left = SearchHubs]
                IN  c \in Asking /\ c.queued = r.queued
      BY <3>i DEF Asking
    <3> QED
      BY <3>1, <3>2
  <2> HIDE DEF a
  <2>1. /\ waiting' = [waiting EXCEPT ![i] = {}]
        /\ asking' = [asking EXCEPT ![i] = a]
        /\ UNCHANGED << state, failing, closing >>
    BY <1>15 DEF StartSearch, Reset, sessionVars, a
  <2>2. SearchTypes'
    BY <2>0, <2>1
  <2>3. \A j \in Searchers : waiting'[j] \union asking'[j].queued \subseteq waiting[j] \union asking[j].queued
    BY <2>0, <2>1
  <2> QED
    BY <2>1, <2>2, <2>3
<1>16. ASSUME NEW i \in Searchers, NEW h \in Hubs, SearchOnHub(i, h) PROVE SearchInv'
  <2>1. UNCHANGED << waiting, state, failing, closing >>
    BY <1>16 DEF SearchOnHub, AskHub, sessionVars
  <2>2. PICK a \in Asking :
          /\ asking' = [asking EXCEPT ![i] = a]
          /\ \/ a.queued = asking[i].queued
             \/ a.queued = asking[i].queued \union {h} /\ IsConnected(h) /\ (Interleaved \/ h \notin closing)
    <3> DEFINE search == [owner |-> i, interval |-> asking[i].interval]
               q == Inserted(Remaining(queue[h], i), search)
               a == [asking[i] EXCEPT !.left = @ \ {h}, !.queued = @ \union {h}, !.late = Late(i, h, q, search)]
               b == [asking[i] EXCEPT !.left = @ \ {h}]
    <3>1. Late(i, h, q, search) \in BOOLEAN
      BY DEF Late
    <3>2. CASE IsConnected(h)
      <4>1. asking' = [asking EXCEPT ![i] = a]
        BY <1>16, <3>2 DEF SearchOnHub, AskHub
      <4>2. Interleaved \/ h \notin closing
        BY <1>16, <3>2 DEF SearchOnHub
      <4> HIDE DEF q, search
      <4>3. a \in Asking /\ a.queued = asking[i].queued \union {h}
        BY <3>1 DEF Asking
      <4> QED
        BY <3>2, <4>1, <4>2, <4>3
    <3>3. CASE ~IsConnected(h)
      <4>1. asking' = [asking EXCEPT ![i] = b]
        BY <1>16, <3>3 DEF SearchOnHub, AskHub
      <4>2. b \in Asking /\ b.queued = asking[i].queued
        BY DEF Asking
      <4> QED
        BY <4>1, <4>2
    <3> QED
      BY <3>2, <3>3
  <2>3. SearchTypes'
    BY <2>1, <2>2
  <2>4. ASSUME ~Interleaved, NEW j \in Searchers, NEW k \in waiting'[j] \union asking'[j].queued
        PROVE Reports(k)'
    BY <2>1, <2>2, <2>4
  <2> QED
    BY <2>3, <2>4
<1>17. ASSUME NEW i \in Searchers, RecordSearch(i) PROVE SearchInv'
  <2>0. NotAsking \in Asking /\ NotAsking.queued = {}
    BY DEF NotAsking, Asking
  <2>1. /\ \E hubs \in {asking[i].queued, waiting[i]} : waiting' = [waiting EXCEPT ![i] = hubs]
        /\ asking' = [asking EXCEPT ![i] = NotAsking]
        /\ UNCHANGED << state, failing, closing >>
    BY <1>17 DEF RecordSearch, Record, sessionVars
  <2>2. SearchTypes'
    BY <2>0, <2>1 DEF Asking
  <2>3. \A j \in Searchers : waiting'[j] \union asking'[j].queued \subseteq waiting[j] \union asking[j].queued
    BY <2>0, <2>1
  <2> QED
    BY <2>1, <2>2, <2>3
<1>18. ASSUME Pop, UNCHANGED sessionVars PROVE SearchInv'
  BY <1>18, <1>1 DEF Pop, sessionVars
<1>19. ASSUME OutgoingSearch, UNCHANGED sessionVars PROVE SearchInv'
  <2>1. SearchTypes' /\ \A j \in Searchers : waiting'[j] \subseteq waiting[j]
    BY <1>19 DEF OutgoingSearch
  <2> QED
    BY <1>19, <2>1 DEF OutgoingSearch, sessionVars
<1>20. ASSUME Elapse PROVE SearchInv'
  BY <1>20, <1>1 DEF Elapse, TimePasses, sessionVars
<1>21. ASSUME Forget PROVE SearchInv'
  BY <1>21, <1>3 DEF Forget
<1>22. CASE UNCHANGED vars
  BY <1>22, <1>3 DEF vars
<1> QED
  BY <1>2, <1>4, <1>5, <1>6, <1>7, <1>8, <1>9, <1>10, <1>11, <1>12, <1>13, <1>14, <1>15, <1>16,
     <1>17, <1>18, <1>19, <1>20, <1>21, <1>22 DEF Next, SocketThread, TimerPops

\* Before the timer connects to a hub again, and when a closed hub's thread is
\* done, none of its users, its counts and, unless a search is overtaken while
\* it is queued, no instance that waits for it, is left of the old connection.
THEOREM NothingOutlives == Spec => []NothingLeft
<1>1. Init => SessionInv /\ SearchInv
  BY HubsAssumption DEF Init, UsersInit, SearchInit, SessionInv, SessionTypes, DownOK, Down, States,
     SearchInv, SearchTypes, Asking, ReportsOK, NotAsking
<1>2. ListInv /\ SessionInv /\ SearchInv => NothingLeft
  <2> SUFFICES ASSUME ListInv, SessionInv, SearchInv, NEW h \in Hubs, Free(h),
                      state[h] \in {"disconnected", "connecting", "closed"}
               PROVE /\ ~counted[h] /\ listed[h] = {}
                     /\ \A u \in Users : h \notin HubsOf(u)
                     /\ ~Interleaved => \A i \in Searchers : h \notin waiting[i]
    BY DEF NothingLeft
  <2>1. ~counted[h] /\ listed[h] = {}
    BY DEF SessionInv, DownOK, Down
  <2>2. \A u \in Users : ~Entry(u, h)
    BY <2>1 DEF Entry, Free, Handled, Nothing
  <2>3. \A u \in Users : h \notin HubsOf(u)
    BY <2>2 DEF HubsOf, ListInv, EntriesOK
  <2>4. ~Interleaved => \A i \in Searchers : h \notin waiting[i]
    BY DEF SearchInv, ReportsOK, Reports, IsConnected, Free
  <2> QED
    BY <2>1, <2>3, <2>4
<1> QED
  BY <1>1, <1>2, HubsAreUsers, UsersInvariant, SessionInvNext, SearchInvNext, PTL DEF Spec

-----------------------------------------------------------------------------
(* The searches that wait for a hub, and the types of all parts.           *)

Entries == [owner : Searchers, interval : 0 .. 4]

OncePerOwner(q) == \A j, k \in DOMAIN q : q[j].owner = q[k].owner => j = k
UrgentFirst(q) == \A j, k \in DOMAIN q : j <= k => q[j].interval <= q[k].interval

QueueOK(q) == q \in Seq(Entries) /\ OncePerOwner(q) /\ UrgentFirst(q)

QueuesOK == queue \in [SearchHubs -> Seq(Entries)] /\ \A h \in SearchHubs : QueueOK(queue[h])

LEMMA EntryTypes ==
  ASSUME NEW q, QueueOK(q), NEW k \in DOMAIN q
  PROVE  q[k] \in Entries /\ q[k].owner \in Searchers /\ q[k].interval \in 0 .. 4
<1>1. q[k] \in Entries
  <2>1. q \in Seq(Entries) BY DEF QueueOK
  <2> HIDE DEF QueueOK, Entries
  <2> QED BY <2>1
<1> QED BY <1>1 DEF Entries

\* Without the first search of an owner the queue holds none of him.
LEMMA RemainingOK ==
  ASSUME NEW q, QueueOK(q), NEW o
  PROVE  /\ QueueOK(Remaining(q, o))
         /\ \A k \in DOMAIN Remaining(q, o) : Remaining(q, o)[k].owner # o
<1> DEFINE Own == {k \in DOMAIN q : q[k].owner = o}
           first == CHOOSE k \in Own : \A j \in Own : k <= j
           n == Len(q)
           At(k) == IF k < first THEN k ELSE k + 1
           r == [k \in 1 .. n - 1 |-> IF k < first THEN q[k] ELSE q[k + 1]]
<1>1. q \in Seq(Entries) /\ n \in Nat /\ DOMAIN q = 1 .. n BY DEF QueueOK
<1>2. CASE Own = {}
  <2>1. Remaining(q, o) = q BY <1>2 DEF Remaining
  <2> QED BY <1>2, <2>1
<1>3. CASE Own # {}
  <2>1. Remaining(q, o) = r BY <1>3 DEF Remaining
  <2>2. first \in Own /\ \A k \in Own : k = first
    <3>1. PICK k \in Own : TRUE BY <1>3
    <3>2. \A j \in Own : j = k BY <3>1 DEF QueueOK, OncePerOwner
    <3>3. k \in Nat BY <1>1, <3>1
    <3>4. \A j \in Own : k <= j BY <3>2, <3>3
    <3>5. first \in Own BY <3>1, <3>4
    <3> QED BY <3>2, <3>5
  <2>3. first \in 1 .. n BY <1>1, <2>2
  <2>4. \A k \in 1 .. n : k # first => q[k].owner # o BY <1>1, <2>2
  <2> HIDE DEF first, n, Own
  <2>5. \A k \in 1 .. n - 1 : /\ At(k) \in 1 .. n /\ At(k) # first
                              /\ r[k] = q[At(k)]
    BY <1>1, <2>3
  <2>6. \A j, k \in 1 .. n - 1 : (At(j) = At(k) => j = k) /\ (j <= k => At(j) <= At(k))
    BY <1>1, <2>3
  <2>7. r \in Seq(Entries) /\ DOMAIN r = 1 .. n - 1
    <3>1. \A k \in 1 .. n - 1 : r[k] \in Entries BY <1>1, <2>5
    <3>2. n - 1 \in Nat BY <1>1, <2>3
    <3>3. r \in [1 .. n - 1 -> Entries] BY <3>1
    <3> HIDE DEF r
    <3> QED BY <3>2, <3>3
  <2> HIDE DEF r, At
  <2>8. OncePerOwner(r) BY <1>1, <2>5, <2>6, <2>7 DEF QueueOK, OncePerOwner
  <2>9. UrgentFirst(r) BY <1>1, <2>5, <2>6, <2>7 DEF QueueOK, UrgentFirst
  <2>10. \A k \in DOMAIN r : r[k].owner # o BY <2>4, <2>5, <2>7
  <2> QED BY <2>1, <2>7, <2>8, <2>9, <2>10 DEF QueueOK
<1> QED BY <1>2, <1>3

\* A set of natural numbers has a least element: the intervals 0 .. n - 1 are
\* finite sets, and strict inclusion of finite sets is well-founded.
LEMMA LeastNumber ==
  ASSUME NEW S \in SUBSET Nat, S # {}
  PROVE  \E n \in S : \A m \in S : n <= m
<1> DEFINE Below(n) == 0 .. (n - 1)
           F == {Below(n) : n \in S}
<1>1. F \subseteq FiniteSubsetsOf(Nat) /\ F # {}
  <2>1. ASSUME NEW n \in S PROVE Below(n) \in FiniteSubsetsOf(Nat)
    <3>1. IsFiniteSet(0 .. (n - 1)) BY FS_Interval, SMT
    <3>2. 0 .. (n - 1) \subseteq Nat BY SMT
    <3> QED BY <3>1, <3>2 DEF FiniteSubsetsOf
  <2> QED BY <2>1
<1>2. PICK X \in F : \A Y \in F : ~(<<Y, X>> \in StrictSubsetOrdering(Nat))
  <2>1. IsWellFoundedOn(StrictSubsetOrdering(Nat), FiniteSubsetsOf(Nat))
    BY FS_StrictSubsetOrderingWellFounded
  <2> HIDE DEF F
  <2> QED BY <1>1, <2>1, WFMin
<1>3. PICK n \in S : X = Below(n) BY <1>2
<1>4. ASSUME NEW m \in S PROVE n <= m
  <2> SUFFICES ASSUME m < n PROVE FALSE BY SMT
  <2>1. Below(m) \subseteq Below(n) BY SMT
  <2>2. m \in Below(n) /\ m \notin Below(m) BY SMT
  <2>3. Below(m) \in F /\ Below(m) \subseteq Nat /\ Below(n) \subseteq Nat BY SMT
  <2>4. <<Below(m), Below(n)>> \in StrictSubsetOrdering(Nat)
    BY <2>1, <2>2, <2>3 DEF StrictSubsetOrdering
  <2> QED BY <2>3, <2>4, <1>2, <1>3
<1> QED BY <1>4

\* The position that Inserted counts is the upper bound of the search's priority.
LEMMA UpperBound ==
  ASSUME NEW q, QueueOK(q), NEW x \in 0 .. 4
  PROVE  LET n == Cardinality({k \in DOMAIN q : q[k].interval <= x})
         IN  n \in 0 .. Len(q) /\ \A k \in 1 .. Len(q) : k <= n <=> q[k].interval <= x
<1> DEFINE U == {k \in DOMAIN q : q[k].interval <= x}
           V == {k \in DOMAIN q : ~(q[k].interval <= x)}
<1>1. /\ q \in Seq(Entries) /\ Len(q) \in Nat /\ DOMAIN q = 1 .. Len(q)
      /\ \A k \in DOMAIN q : q[k].interval \in 0 .. 4
  BY EntryTypes DEF QueueOK
<1>2. \E m \in 0 .. Len(q) : U = 1 .. m
  <2>1. CASE V = {}
    <3>1. U = 1 .. Len(q) BY <1>1, <2>1
    <3> QED BY <1>1, <3>1
  <2>2. CASE V # {}
    <3>1. V \in SUBSET Nat BY <1>1
    <3>2. PICK m \in V : \A k \in V : m <= k BY <2>2, <3>1, LeastNumber
    <3>3. m \in 1 .. Len(q) /\ ~(q[m].interval <= x) BY <1>1, <3>2
    <3>4. \A k \in 1 .. Len(q) : k < m => k \in U BY <1>1, <3>2, <3>3
    <3>5. \A k \in U : k < m
      BY <1>1, <3>3 DEF QueueOK, UrgentFirst
    <3>6. U = 1 .. m - 1 BY <1>1, <3>3, <3>4, <3>5
    <3>7. m - 1 \in 0 .. Len(q) BY <3>3
    <3> QED BY <3>6, <3>7
  <2> QED BY <2>1, <2>2
<1>3. PICK m \in 0 .. Len(q) : U = 1 .. m BY <1>2
<1>4. Cardinality(U) = m
  <2>1. Cardinality(1 .. m) = IF 1 > m THEN 0 ELSE m - 1 + 1 BY <1>1, FS_Interval
  <2> HIDE DEF U
  <2> QED BY <1>1, <1>3, <2>1
<1>5. \A k \in 1 .. Len(q) : k <= m <=> q[k].interval <= x BY <1>1, <1>3
<1> QED BY <1>3, <1>4, <1>5

LEMMA InsertedOK ==
  ASSUME NEW q, QueueOK(q), NEW s \in Entries, \A k \in DOMAIN q : q[k].owner # s.owner
  PROVE  QueueOK(Inserted(q, s))
<1> DEFINE n == Cardinality({k \in DOMAIN q : q[k].interval <= s.interval})
           l == Len(q)
           r == [k \in 1 .. l + 1 |-> IF k <= n THEN q[k] ELSE IF k = n + 1 THEN s ELSE q[k - 1]]
           At(k) == IF k <= n THEN k ELSE k - 1
<1>1. q \in Seq(Entries) /\ l \in Nat /\ DOMAIN q = 1 .. l BY DEF QueueOK
<1>2. Inserted(q, s) = r BY DEF Inserted
<1>3. s.interval \in 0 .. 4 /\ \A k \in 1 .. l : q[k].interval \in 0 .. 4 BY <1>1, EntryTypes DEF Entries
<1>4. n \in 0 .. l /\ \A k \in 1 .. l : k <= n <=> q[k].interval <= s.interval BY <1>3, UpperBound
<1> HIDE DEF n, l
<1>5. /\ n + 1 \in 1 .. l + 1 /\ r[n + 1] = s
      /\ \A k \in 1 .. l + 1 : k # n + 1 => At(k) \in 1 .. l /\ r[k] = q[At(k)]
      /\ DOMAIN r = 1 .. l + 1
  BY <1>1, <1>4
<1>6. r \in Seq(Entries)
  <2>1. \A k \in 1 .. l + 1 : r[k] \in Entries BY <1>1, <1>5
  <2>2. r \in [1 .. l + 1 -> Entries] BY <2>1
  <2> HIDE DEF r
  <2> QED BY <1>1, <2>2
<1>7. \A j, k \in 1 .. l + 1 : j # n + 1 /\ k # n + 1 => (At(j) = At(k) => j = k) /\ (j <= k => At(j) <= At(k))
  BY <1>1, <1>4
<1>8. \A k \in 1 .. l + 1 : k # n + 1 => (At(k) <= n <=> k < n + 1)
  BY <1>1, <1>4
<1> HIDE DEF r, At
<1>9. OncePerOwner(r)
  <2> SUFFICES ASSUME NEW j \in 1 .. l + 1, NEW k \in 1 .. l + 1, r[j].owner = r[k].owner PROVE j = k
    BY <1>5 DEF OncePerOwner
  <2>1. CASE j = n + 1 /\ k # n + 1 BY <1>1, <1>5, <2>1
  <2>2. CASE j # n + 1 /\ k = n + 1 BY <1>1, <1>5, <2>2
  <2>3. CASE j # n + 1 /\ k # n + 1 BY <1>1, <1>5, <1>7, <2>3 DEF QueueOK, OncePerOwner
  <2> QED BY <2>1, <2>2, <2>3
<1>10. UrgentFirst(r)
  <2> SUFFICES ASSUME NEW j \in 1 .. l + 1, NEW k \in 1 .. l + 1, j <= k
               PROVE r[j].interval <= r[k].interval
    BY <1>5 DEF UrgentFirst
  <2>1. CASE j = n + 1 /\ k = n + 1 BY <1>3, <1>5, <2>1
  <2>2. CASE j = n + 1 /\ k # n + 1
    <3>1. ~(At(k) <= n) BY <1>4, <1>8, <2>2
    <3>2. ~(q[At(k)].interval <= s.interval) BY <1>4, <1>5, <2>2, <3>1
    <3> QED BY <1>3, <1>5, <2>2, <3>2
  <2>3. CASE j # n + 1 /\ k = n + 1
    <3>1. At(j) <= n BY <1>4, <1>8, <2>3
    <3>2. q[At(j)].interval <= s.interval BY <1>4, <1>5, <2>3, <3>1
    <3> QED BY <1>5, <2>3, <3>2
  <2>4. CASE j # n + 1 /\ k # n + 1
    BY <1>1, <1>5, <1>7, <2>4 DEF QueueOK, UrgentFirst
  <2> QED BY <2>1, <2>2, <2>3, <2>4
<1> QED BY <1>2, <1>6, <1>9, <1>10 DEF QueueOK

\* maybePop takes the front.
LEMMA TailOK ==
  ASSUME NEW q, QueueOK(q), q # << >>
  PROVE  QueueOK(Tail(q)) /\ Head(q).owner \in Searchers
<1>1. /\ q \in Seq(Entries) /\ Len(q) \in Nat \ {0} /\ DOMAIN q = 1 .. Len(q)
      /\ Tail(q) \in Seq(Entries) /\ DOMAIN Tail(q) = 1 .. Len(q) - 1
      /\ \A k \in 1 .. Len(q) - 1 : k + 1 \in DOMAIN q /\ Tail(q)[k] = q[k + 1]
      /\ Head(q) \in Entries
  BY DEF QueueOK
<1>2. OncePerOwner(Tail(q)) BY <1>1 DEF QueueOK, OncePerOwner
<1>3. UrgentFirst(Tail(q)) BY <1>1 DEF QueueOK, UrgentFirst
<1> QED BY <1>1, <1>2, <1>3 DEF QueueOK, Entries

\* No owner has two searches in the queue, so it is not longer than there are owners.
LEMMA QueueLength ==
  ASSUME NEW q, QueueOK(q)
  PROVE  Len(q) <= Cardinality(Searchers) /\ \A k \in DOMAIN q : q[k].owner \in Searchers
<1> DEFINE f == [k \in 1 .. Len(q) |-> q[k].owner]
<1>1. /\ Len(q) \in Nat /\ DOMAIN q = 1 .. Len(q)
      /\ \A k \in DOMAIN q : q[k].owner \in Searchers
  BY EntryTypes DEF QueueOK
<1>2. f \in Injection(1 .. Len(q), Searchers)
  BY <1>1 DEF Injection, IsInjective, QueueOK, OncePerOwner
<1>3. Cardinality(1 .. Len(q)) <= Cardinality(Searchers)
  <2> HIDE DEF f
  <2> QED BY <1>2, SearchAssumption, FS_Injection
<1>4. Cardinality(1 .. Len(q)) = IF 1 > Len(q) THEN 0 ELSE Len(q) - 1 + 1
  BY <1>1, FS_Interval
<1> QED BY <1>1, <1>3, <1>4

\* The clock stops at the longest interval.
LEMMA LastAgeOK == LastAge \in 1 .. 4
<1> DEFINE S == Intervals \union {MinInterval}
           Longest(m) == m \in S /\ \A n \in S : n <= m
<1>1. S \subseteq 1 .. 4 /\ S # {} BY SearchAssumption
<1> HIDE DEF S
<1>2. \E m \in S : \A n \in S : n <= m
  <2>1. CASE 4 \in S BY <1>1, <2>1
  <2>2. CASE 4 \notin S /\ 3 \in S BY <1>1, <2>2
  <2>3. CASE 4 \notin S /\ 3 \notin S /\ 2 \in S BY <1>1, <2>3
  <2>4. CASE 4 \notin S /\ 3 \notin S /\ 2 \notin S
    <3>1. \A n \in S : n = 1 BY <1>1, <2>4
    <3>2. PICK m \in S : m = 1 BY <1>1, <3>1
    <3> QED BY <3>1, <3>2
  <2> QED BY <2>1, <2>2, <2>3, <2>4
<1>3. (CHOOSE m \in S : \A n \in S : n <= m) \in S BY <1>2
<1> QED BY <1>1, <1>3 DEF LastAge, S

\* What is left of the types, once SessionInv and SearchInv are known.
ClockOK == age \in [SearchHubs -> 0 .. LastAge]
PoppingOK == popping.step \in {"none", "pop", "fire"}

SessionRest == autoReconnect \in [Hubs -> BOOLEAN] /\ closing \subseteq Closable

QueueInv == QueuesOK /\ ClockOK /\ PoppingOK

LEMMA QueueInvNext == SearchInv /\ QueueInv /\ [Next]_vars => QueueInv'
<1> SUFFICES ASSUME SearchInv, QueueInv, [Next]_vars PROVE QueueInv'
  OBVIOUS
<1>t. /\ queue \in [SearchHubs -> Seq(Entries)] /\ \A h \in SearchHubs : QueueOK(queue[h])
      /\ asking \in [Searchers -> Asking]
  BY DEF QueueInv, QueuesOK, SearchInv, SearchTypes
<1>1. ASSUME UNCHANGED << queue, age, popping >> PROVE QueueInv'
  BY <1>1 DEF QueueInv, QueuesOK, ClockOK, PoppingOK
<1>2. ASSUME NEW i \in Searchers, NEW interval \in Intervals, Reset(i, interval) PROVE QueueInv'
  <2>1. queue' = [h \in SearchHubs |-> Remaining(queue[h], i)] /\ UNCHANGED << age, popping >>
    BY <1>2 DEF Reset
  <2>2. \A h \in SearchHubs : QueueOK(Remaining(queue[h], i)) BY <1>t, RemainingOK
  <2>3. \A h \in SearchHubs : Remaining(queue[h], i) \in Seq(Entries) BY <2>2 DEF QueueOK
  <2>4. QueuesOK' BY <2>1, <2>2, <2>3 DEF QueuesOK
  <2> QED BY <2>1, <2>4 DEF QueueInv, ClockOK, PoppingOK
<1>3. ASSUME NEW i \in Searchers, NEW h \in Hubs, NEW connected \in BOOLEAN, AskHub(i, h, connected)
      PROVE QueueInv'
  <2> DEFINE search == [owner |-> i, interval |-> asking[i].interval]
             q == Inserted(Remaining(queue[h], i), search)
  <2>1. h \in SearchHubs BY HubsAssumption
  <2>2. search \in Entries BY <1>t DEF Entries, Asking
  <2>3. QueueOK(q)
    <3>1. search.owner = i OBVIOUS
    <3> HIDE DEF search
    <3> QED BY <1>t, <2>1, <2>2, <3>1, RemainingOK, InsertedOK
  <2>4. q \in Seq(Entries) BY <2>3 DEF QueueOK
  <2>5. queue' = [queue EXCEPT ![h] = q] \/ queue' = queue
    BY <1>3 DEF AskHub
  <2> HIDE DEF q, search
  <2>6. QueuesOK' BY <1>t, <2>1, <2>3, <2>4, <2>5 DEF QueuesOK
  <2>7. UNCHANGED << age, popping >> BY <1>3 DEF AskHub
  <2> QED BY <2>6, <2>7 DEF QueueInv, ClockOK, PoppingOK
<1>4. ASSUME NEW h \in Hubs, PopCheck(h) PROVE QueueInv'
  BY <1>4 DEF PopCheck, QueueInv, QueuesOK, ClockOK, PoppingOK
<1>5. ASSUME Pop PROVE QueueInv'
  <2> DEFINE h == popping.hub
  <2>1. CASE queue[h] = << >>
    <3>1. popping' = NotPopping /\ UNCHANGED << queue, age >> BY <1>5, <2>1 DEF Pop
    <3> QED BY <3>1 DEF QueueInv, QueuesOK, ClockOK, PoppingOK, NotPopping
  <2>2. CASE queue[h] # << >>
    <3>1. /\ popping' = [step |-> "fire", hub |-> h, owner |-> Head(queue[h]).owner]
          /\ queue' = [queue EXCEPT ![h] = Tail(queue[h])]
          /\ age' = [age EXCEPT ![h] = 0]
      BY <1>5, <2>2 DEF Pop
    <3>2. PoppingOK' BY <3>1 DEF PoppingOK
    <3>3. 0 \in 0 .. LastAge BY LastAgeOK
    <3>4. ClockOK' BY <3>1, <3>3 DEF QueueInv, ClockOK
    <3>5. h \in SearchHubs => QueueOK(Tail(queue[h])) BY <1>t, <2>2, TailOK
    <3>6. h \in SearchHubs => Tail(queue[h]) \in Seq(Entries) BY <3>5 DEF QueueOK
    <3> HIDE DEF h
    <3>7. QueuesOK' BY <1>t, <3>1, <3>5, <3>6 DEF QueuesOK
    <3> QED BY <3>2, <3>4, <3>7 DEF QueueInv
  <2> QED BY <2>1, <2>2
<1>6. ASSUME OutgoingSearch PROVE QueueInv'
  BY <1>6 DEF OutgoingSearch, NotPopping, QueueInv, QueuesOK, ClockOK, PoppingOK
<1>7. ASSUME TimePasses PROVE QueueInv'
  <2>1. age' = [h \in SearchHubs |-> IF age[h] < LastAge THEN age[h] + 1 ELSE age[h]]
        /\ UNCHANGED << queue, popping >>
    BY <1>7 DEF TimePasses
  <2>2. ClockOK' BY <2>1, LastAgeOK DEF QueueInv, ClockOK
  <2> QED BY <2>1, <2>2 DEF QueueInv, QueuesOK, PoppingOK
<1>8. ASSUME NEW h \in Hubs, RemoveQueuedUrl(h) PROVE QueueInv'
  BY <1>8, <1>1 DEF RemoveQueuedUrl
<1>9. ASSUME UNCHANGED searchVars PROVE QueueInv'
  BY <1>9, <1>1 DEF searchVars
<1>10. ASSUME NEW h \in Hubs, HubSends(h) \/ SocketThread(h) PROVE QueueInv'
  BY <1>10, <1>8, <1>9 DEF HubSends, SocketThread, Connected, SessionId, GetPassword, OwnInf, UserStep,
     SetDisconnected, FireDisconnected
<1>11. ASSUME NEW h \in Hubs, SocketFails(h) \/ TimerConnect(h) \/ Reconnect(h) \/ AnnounceClosing(h) \/ Shutdown(h)
              \/ TimerSearch(h)
       PROVE QueueInv'
  BY <1>11, <1>4, <1>8, <1>9 DEF SocketFails, TimerConnect, Reconnect, AnnounceClosing, Shutdown, TimerSearch
<1>12. ASSUME NEW h \in Hubs, NEW back \in BOOLEAN, QuitMe(h, back) PROVE QueueInv'
  BY <1>12, <1>9 DEF QuitMe
<1>13. ASSUME NEW h \in Hubs, NEW u \in Users, UserInf(h, u) \/ UserQuit(h, u) PROVE QueueInv'
  BY <1>13, <1>9 DEF UserInf, UserQuit
<1>14. ASSUME NEW i \in Searchers, NEW interval \in Intervals, StartSearch(i, interval) PROVE QueueInv'
  BY <1>14, <1>2 DEF StartSearch
<1>15. ASSUME NEW i \in Searchers, NEW h \in Hubs, SearchOnHub(i, h) PROVE QueueInv'
  <2>1. IsConnected(h) \in BOOLEAN BY DEF IsConnected
  <2> QED BY <1>15, <2>1, <1>3 DEF SearchOnHub
<1>16. ASSUME NEW i \in Searchers, RecordSearch(i) PROVE QueueInv'
  BY <1>16, <1>1 DEF RecordSearch, Record
<1>17. ASSUME TimerPops \/ Elapse \/ Forget PROVE QueueInv'
  BY <1>17, <1>5, <1>6, <1>7, <1>9 DEF TimerPops, Elapse, Forget
<1>18. CASE UNCHANGED vars
  BY <1>18, <1>9 DEF vars
<1> QED
  BY <1>10, <1>11, <1>12, <1>13, <1>14, <1>15, <1>16, <1>17, <1>18 DEF Next

\* Reconnecting is a flag of each hub, and only hubs a user may close are closing.
LEMMA SessionRestNext == SessionTypes /\ SessionRest /\ [Next]_vars => SessionRest'
<1> SUFFICES ASSUME SessionTypes, SessionRest, [Next]_vars PROVE SessionRest'
  OBVIOUS
<1> USE DEF SessionRest
<1>1. ASSUME UNCHANGED << autoReconnect, closing >> PROVE SessionRest'
  BY <1>1
<1>2. ASSUME NEW h \in Hubs, Connected(h) \/ SessionId(h) \/ GetPassword(h) \/ SocketThread(h) PROVE SessionRest'
  BY <1>2, <1>1 DEF Connected, SessionId, GetPassword, SocketThread, UserStep, SetDisconnected, FireDisconnected, sessionVars
<1>3. ASSUME NEW h \in Hubs, OwnInf(h) PROVE SessionRest'
  <2>1. PICK b \in BOOLEAN : autoReconnect' = [autoReconnect EXCEPT ![h] = b]
    <3>1. PICK registered \in BOOLEAN :
            autoReconnect' = [autoReconnect EXCEPT ![h] = (registered \/ ~DisallowPassed)
                                                         /\ (autoReconnect[h] \/ state[h] # "normal")]
      BY <1>3 DEF OwnInf
    <3>2. ((registered \/ ~DisallowPassed) /\ (autoReconnect[h] \/ state[h] # "normal")) \in BOOLEAN
      OBVIOUS
    <3> QED BY <3>1, <3>2
  <2> QED BY <1>3, <2>1 DEF OwnInf
<1>4. ASSUME NEW h \in Hubs, SocketFails(h) \/ TimerConnect(h) \/ Shutdown(h) \/ TimerSearch(h) PROVE SessionRest'
  BY <1>4, <1>1 DEF SocketFails, TimerConnect, Shutdown, TimerSearch, sessionVars
<1>5. ASSUME NEW h \in Hubs, Reconnect(h) \/ AnnounceClosing(h) PROVE SessionRest'
  BY <1>5 DEF Reconnect, AnnounceClosing
<1>6. ASSUME NEW h \in Hubs, NEW back \in BOOLEAN, QuitMe(h, back) PROVE SessionRest'
  BY <1>6 DEF QuitMe
<1>7. ASSUME UNCHANGED sessionVars PROVE SessionRest'
  BY <1>7, <1>1 DEF sessionVars
<1>8. CASE \/ \E h \in Hubs, u \in Users : UserInf(h, u) \/ UserQuit(h, u)
           \/ \E i \in Searchers, interval \in Intervals : StartSearch(i, interval)
           \/ \E i \in Searchers, h \in Hubs : SearchOnHub(i, h)
           \/ \E i \in Searchers : RecordSearch(i)
           \/ TimerPops \/ Elapse \/ Forget
           \/ UNCHANGED vars
  BY <1>8, <1>7 DEF UserInf, UserQuit, StartSearch, SearchOnHub, RecordSearch, TimerPops, Elapse, Forget, vars
<1> QED
  BY <1>2, <1>3, <1>4, <1>5, <1>6, <1>8 DEF Next, HubSends

LEMMA HubsInvariant == Spec => [](ListInv /\ SessionInv /\ SearchInv /\ QueueInv /\ SessionRest)
<1>1. Init => SessionInv /\ SearchInv
  BY HubsAssumption DEF Init, UsersInit, SearchInit, SessionInv, SessionTypes, DownOK, Down, States,
     SearchInv, SearchTypes, Asking, ReportsOK, NotAsking
<1>2. Init => QueueInv /\ SessionRest
  <2> SUFFICES ASSUME Init PROVE QueueInv /\ SessionRest
    OBVIOUS
  <2>1. QueueOK(<< >>) /\ << >> \in Seq(Entries)
    BY DEF QueueOK, OncePerOwner, UrgentFirst
  <2>2. QueuesOK BY <2>1 DEF Init, SearchInit, QueuesOK
  <2>3. LastAge \in 0 .. LastAge BY LastAgeOK
  <2>4. ClockOK /\ PoppingOK BY <2>3 DEF Init, SearchInit, ClockOK, PoppingOK, NotPopping
  <2>5. SessionRest BY DEF Init, SessionRest
  <2> QED BY <2>2, <2>4, <2>5 DEF QueueInv
<1>3. SessionInv => SessionTypes BY DEF SessionInv
<1> QED
  BY <1>1, <1>2, <1>3, HubsAreUsers, UsersInvariant, SessionInvNext, SearchInvNext, QueueInvNext, SessionRestNext, PTL DEF Spec

\* The variables of the three parts have their types: in particular a search
\* replaces its owner's former one in the queue of every hub, so no queue grows
\* longer than there are instances, however the requests, the timer and the hubs
\* interleave.
THEOREM TypeCorrect == Spec => []TypeOK
<1>1. ListInv /\ SessionInv /\ SearchInv /\ QueueInv /\ SessionRest => TypeOK
  <2> SUFFICES ASSUME ListInv, SessionInv, SearchInv, QueueInv, SessionRest PROVE TypeOK
    OBVIOUS
  <2>1. \A h \in SearchHubs : /\ Len(queue[h]) <= Cardinality(Searchers)
                              /\ \A k \in DOMAIN queue[h] : queue[h][k].owner \in Searchers
    BY QueueLength DEF QueueInv, QueuesOK
  <2>2. \A h \in SearchHubs : age[h] \in 0 .. LastAge BY DEF QueueInv, ClockOK
  <2>3. \A i \in Searchers : waiting[i] \subseteq SearchHubs
    BY HubsAssumption DEF SearchInv, SearchTypes
  <2>4. SearchTypeOK BY <2>1, <2>2, <2>3 DEF SearchTypeOK, QueueInv, PoppingOK
  <2> QED BY <2>4 DEF TypeOK, ListInv, SessionInv, SessionTypes, SessionRest
<1> QED BY <1>1, HubsInvariant, PTL

\* The queue of a hub is sorted by the interval of the priorities, so maybePop
\* takes the most urgent search, and upper_bound finds its place.
THEOREM MostUrgentFirst == Spec => [](\A h \in SearchHubs : UrgentFirst(queue[h]))
<1>1. QueueInv => \A h \in SearchHubs : UrgentFirst(queue[h]) BY DEF QueueInv, QueuesOK, QueueOK
<1> QED BY <1>1, HubsInvariant, PTL
=============================================================================
