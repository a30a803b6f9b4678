------------------------ MODULE TicketServicesProofs ------------------------
(* Proofs about the parts of TicketServices, for any number of users,       *)
(* requests, devices, sockets and connections and whatever the bounds.      *)
EXTENDS TicketServices, Sequences, TLAPS

USE DEF Monitored, Accessed, Tried, Clocked

-----------------------------------------------------------------------------
(*                       Membership (MemberAccess)                          *)

(* Removals are in the past and of people who are not members.              *)
Removals ==
    /\ accessTime \in Nat
    /\ members \subseteq Users
    /\ removed \in [Users -> Nat \cup {None}]
    /\ \A u \in members : removed[u] = None
    /\ \A u \in Users : removed[u] # None => removed[u] <= accessTime

(* A user in a snapshot taken since t was removed after t, if at all.       *)
GoneSince(found, t) == \A u \in found : removed[u] # None => t <= removed[u]

Request == [pc : {"idle", "lookup", "prewarm"}, user : Users \cup {None},
            kind : {"page", "fresh", "optional", "callback", None},
            started : Nat, token : Nat \cup {None}, found : (SUBSET Users) \cup {None}]

(* A lookup is not older than its timeout, and what it found was true       *)
(* after it began.                                                          *)
Lookups ==
    /\ cookie \in [Users -> Nat \cup {None}]
    /\ request \in [Requests -> Request]
    /\ \A r \in Requests : request[r].pc # "idle" =>
         /\ request[r].user \in Users
         /\ request[r].started <= accessTime
         /\ accessTime <= request[r].started + LookupTime
         /\ request[r].found # None =>
              request[r].found \subseteq Users /\ GoneSince(request[r].found, request[r].started)

(* A cached snapshot is older than its stamp by a lookup at most.           *)
Cached ==
    cache # None =>
        /\ cache.at \in Nat /\ cache.at <= accessTime
        /\ cache.members \subseteq Users
        /\ \A u \in cache.members : removed[u] # None => cache.at <= removed[u] + LookupTime

LateBounds == /\ servedLate \in Nat /\ servedLate <= LookupTime + CacheAge
              /\ wokeLate \in Nat /\ wokeLate <= LookupTime

AccessInv == Removals /\ Lookups /\ Cached /\ LateBounds

LEMMA AccessInit ==
    ASSUME NEW b \in AccessSizes, Access(b)!Init PROVE AccessInv
BY AccessAssumption
   DEF Access!Init, Access!idleRequest, AccessInv, Removals, Lookups, Cached, LateBounds, Request

(* Whoever a lookup or the cache still calls a member was removed lately.   *)
LEMMA LateIsBounded ==
    ASSUME NEW b \in AccessSizes, Removals, NEW u \in Users, NEW t \in Nat,
           removed[u] # None => t <= removed[u], t <= accessTime
    PROVE  Access(b)!late(u) \in Nat /\ Access(b)!late(u) <= accessTime - t
BY DEF Removals, Access!late

(* The request a handler leaves behind.                                     *)
LEMMA NewRequest ==
    ASSUME NEW b \in AccessSizes, Removals, Lookups, Removals', accessTime' = accessTime, removed' = removed,
           NEW r \in Requests, NEW x \in Request,
           x.pc # "idle" => x.user \in Users /\ x.started = accessTime /\ x.found = None,
           request' = [request EXCEPT ![r] = x], cookie' \in [Users -> Nat \cup {None}]
    PROVE  Lookups'
BY AccessAssumption DEF Lookups, Removals, GoneSince, Request

LEMMA IdleRequest == \A b \in AccessSizes : Access(b)!idleRequest \in Request /\ Access(b)!idleRequest.pc = "idle" /\ Access(b)!idleRequest.found = None
BY DEF Access!idleRequest, Request

LEMMA SlidingCookie ==
    ASSUME NEW b \in AccessSizes, Removals, Lookups, NEW u \in Users, NEW token \in Nat \cup {None}
    PROVE  Access(b)!refreshServerSessionCookie(u, token) \in [Users -> Nat \cup {None}]
BY AccessAssumption DEF Lookups, Removals, Access!refreshServerSessionCookie

LEMMA AccessStep ==
    ASSUME NEW b \in AccessSizes, AccessInv, Access(b)!Next PROVE AccessInv'
<1> USE AccessAssumption
<1> USE DEF AccessInv
<1>1. ASSUME NEW r \in Requests, NEW u \in Users, Access(b)!ServeFromCache(r, u) PROVE AccessInv'
  <2>1. Removals' /\ Cached'
    BY <1>1 DEF Access!ServeFromCache, Access!envVars, Removals, Cached
  <2>2. Lookups'
    <3> DEFINE x == [Access(b)!idleRequest EXCEPT !.pc = "prewarm", !.user = u, !.started = accessTime]
    <3>1. x \in Request /\ x.user = u /\ x.started = accessTime /\ x.found = None
      BY IdleRequest DEF Request, Removals
    <3>2. cookie' \in [Users -> Nat \cup {None}]
      BY <1>1, SlidingCookie DEF Access!ServeFromCache, Access!Serve, Lookups
    <3>3. request' = [request EXCEPT ![r] = x] /\ UNCHANGED <<removed, accessTime>>
      BY <1>1 DEF Access!ServeFromCache, Access!envVars
    <3> QED BY <2>1, <3>1, <3>2, <3>3, NewRequest
  <2>3. Access(b)!late(u) \in Nat /\ Access(b)!late(u) <= LookupTime + CacheAge
    BY <1>1, LateIsBounded DEF Access!ServeFromCache, Access!cachedSnapshot, Removals, Cached, Access!late
  <2>4. LateBounds'
    BY <1>1, <2>3 DEF Access!ServeFromCache, Access!Serve, Access!Larger, LateBounds
  <2> QED BY <2>1, <2>2, <2>4
<1>2. ASSUME NEW r \in Requests, NEW u \in Users, NEW k \in Access(b)!Kinds,
             Access(b)!identifyMemberFromRequest(r, u, k) PROVE AccessInv'
  <2>1. Removals' /\ Cached' /\ LateBounds'
    BY <1>2 DEF Access!identifyMemberFromRequest, Access!envVars, Removals, Cached, LateBounds
  <2> DEFINE x == [Access(b)!idleRequest EXCEPT !.pc = "lookup", !.user = u, !.kind = k,
                                                !.started = accessTime, !.token = cookie[u]]
  <2>2. x \in Request /\ x.user = u /\ x.started = accessTime /\ x.found = None
    BY IdleRequest DEF Request, Removals, Lookups, Access!Kinds
  <2>3. request' = [request EXCEPT ![r] = x] /\ UNCHANGED <<removed, accessTime, cookie>>
    BY <1>2 DEF Access!identifyMemberFromRequest, Access!envVars
  <2>4. Lookups'
    BY <2>1, <2>2, <2>3, NewRequest DEF Lookups
  <2> QED BY <2>1, <2>4
<1>3. ASSUME NEW r \in Requests, NEW u \in Users, Access(b)!handleAuthCallback(r, u) PROVE AccessInv'
  <2>1. Removals' /\ Cached' /\ LateBounds' /\ UNCHANGED <<removed, accessTime, cookie>>
    BY <1>3 DEF Access!handleAuthCallback, Access!mayRedeem, Access!redeemInvitation, Removals, Cached, LateBounds
  <2> DEFINE x == [Access(b)!idleRequest EXCEPT !.pc = "lookup", !.user = u, !.kind = "callback",
                                                !.started = accessTime]
  <2>2. x \in Request /\ x.user = u /\ x.started = accessTime /\ x.found = None
    BY IdleRequest DEF Request, Removals, Lookups
  <2>3. request' = request \/ request' = [request EXCEPT ![r] = x]
    BY <1>3 DEF Access!handleAuthCallback
  <2>4. CASE request' = request
    BY <2>1, <2>4 DEF Lookups, GoneSince
  <2>5. CASE request' = [request EXCEPT ![r] = x]
    <3>1. Lookups'
      BY <2>1, <2>2, <2>5, NewRequest DEF Lookups
    <3> QED BY <2>1, <3>1
  <2> QED BY <2>3, <2>4, <2>5
<1>4. ASSUME NEW r \in Requests, Access(b)!Snapshot(r) PROVE AccessInv'
  <2>1. Removals' /\ Cached' /\ LateBounds'
    BY <1>4 DEF Access!Snapshot, Access!envVars, Removals, Cached, LateBounds
  <2>2. Lookups'
    BY <1>4 DEF Access!Snapshot, Access!envVars, Removals, Lookups, Request, GoneSince
  <2> QED BY <2>1, <2>2
<1>5. ASSUME NEW r \in Requests, Access(b)!snapshotWithCache(r) PROVE AccessInv'
  <2> DEFINE u == request[r].user
  <2> USE DEF Access!snapshotWithCache
  <2>1. Removals' /\ UNCHANGED <<removed, accessTime>>
    BY <1>5 DEF Access!envVars, Removals
  <2>2. u \in Users /\ request[r].token \in Nat \cup {None}
    BY <1>5 DEF Lookups, Request
  <2>3. Lookups'
    <3>1. cookie' \in [Users -> Nat \cup {None}]
      <4>1. Access(b)!refreshServerSessionCookie(u, request[r].token) \in [Users -> Nat \cup {None}]
        BY <2>2, SlidingCookie
      <4>2. [cookie EXCEPT ![u] = accessTime + CookieTTL] \in [Users -> Nat \cup {None}]
        BY <2>2 DEF Lookups, Removals
      <4> QED BY <1>5, <4>1, <4>2 DEF Lookups
    <3> QED BY <1>5, <2>1, <3>1, IdleRequest, NewRequest DEF Access!Finish
  <2>4. Cached'
    BY <1>5, <2>1 DEF Access!cacheSnapshot, Lookups, Removals, Request, Cached, GoneSince
  <2>5. u \in request[r].found => Access(b)!late(u) \in Nat /\ Access(b)!late(u) <= LookupTime
    BY <1>5, <2>2 DEF Access!late, Lookups, Removals, Request, GoneSince
  <2>6. LateBounds'
    BY <1>5, <2>5 DEF LateBounds, Access!Larger
  <2> QED BY <2>1, <2>3, <2>4, <2>6
<1>6. ASSUME NEW r \in Requests, Access(b)!LookupFails(r) PROVE AccessInv'
  <2> DEFINE u == request[r].user
  <2> USE DEF Access!LookupFails
  <2>1. Removals' /\ Cached' /\ UNCHANGED <<removed, accessTime>>
    BY <1>6 DEF Access!envVars, Removals, Cached
  <2>2. u \in Users /\ request[r].token \in Nat \cup {None}
    BY <1>6 DEF Lookups, Request
  <2>3. Lookups'
    <3>1. cookie' \in [Users -> Nat \cup {None}]
      <4>1. Access(b)!refreshServerSessionCookie(u, request[r].token) \in [Users -> Nat \cup {None}]
        BY <2>2, SlidingCookie
      <4> QED BY <1>6, <4>1 DEF Lookups, Access!Serve
    <3> QED BY <1>6, <2>1, <3>1, IdleRequest, NewRequest DEF Access!Finish
  <2>4. Access(b)!cachedSnapshot /\ u \in cache.members =>
           Access(b)!late(u) \in Nat /\ Access(b)!late(u) <= LookupTime + CacheAge
    BY <2>2 DEF Access!cachedSnapshot, Removals, Cached, Access!late
  <2>5. LateBounds'
    BY <1>6, <2>4 DEF LateBounds, Access!Serve, Access!Larger
  <2> QED BY <2>1, <2>3, <2>5
<1>7. ASSUME NEW r \in Requests, Access(b)!prewarmAfterFreshMembership(r) PROVE AccessInv'
  <2> DEFINE u == request[r].user
  <2> USE DEF Access!prewarmAfterFreshMembership
  <2>1. Removals' /\ Cached' /\ UNCHANGED <<removed, accessTime, cookie>>
    BY <1>7 DEF Access!envVars, Removals, Cached
  <2>2. u \in Users
    BY <1>7 DEF Lookups, Request
  <2>3. Lookups'
    BY <1>7, <2>1, IdleRequest, NewRequest DEF Access!Finish, Lookups
  <2>4. u \in request[r].found => Access(b)!late(u) \in Nat /\ Access(b)!late(u) <= LookupTime
    BY <1>7, <2>2 DEF Access!late, Lookups, Removals, Request, GoneSince
  <2>5. LateBounds'
    BY <1>7, <2>4 DEF LateBounds, Access!Larger
  <2> QED BY <2>1, <2>3, <2>5
<1>8. ASSUME NEW r \in Requests, Access(b)!PrewarmFails(r) PROVE AccessInv'
  <2>1. Removals' /\ Cached' /\ LateBounds' /\ UNCHANGED <<removed, accessTime, cookie>>
    BY <1>8 DEF Access!PrewarmFails, Access!envVars, Removals, Cached, LateBounds
  <2>2. Lookups'
    BY <1>8, <2>1, IdleRequest, NewRequest DEF Access!PrewarmFails, Access!Finish, Lookups
  <2> QED BY <2>1, <2>2
<1>9. ASSUME NEW u \in Users, \/ Access(b)!handleAuthLogout(u)
                              \/ \E i \in BOOLEAN : Access(b)!handleAuthStart(u, i) PROVE AccessInv'
  BY <1>9 DEF Access!handleAuthLogout, Access!handleAuthStart, Access!envVars,
              Removals, Lookups, Cached, LateBounds, GoneSince
<1>10. ASSUME NEW u \in Users, Access(b)!handleAdminMembers(u) \/ Access(b)!removeAdminMember(u)
       PROVE  AccessInv'
  <2> USE DEF Access!handleAdminMembers, Access!removeAdminMember, Access!requestVars
  <2>1. Removals'
    BY <1>10 DEF Removals
  <2>2. Lookups'
    BY <1>10 DEF Removals, Lookups, GoneSince, Request
  <2>3. Cached' /\ LateBounds'
    BY <1>10 DEF Removals, Cached, LateBounds
  <2> QED BY <2>1, <2>2, <2>3
<1>11. CASE Access(b)!Tick
  <2> USE DEF Access!Tick, Access!requestVars
  <2>1. Removals' /\ Cached' /\ LateBounds'
    BY <1>11 DEF Removals, Cached, LateBounds
  <2>2. Lookups'
    BY <1>11 DEF Removals, Lookups, GoneSince, Request
  <2> QED BY <2>1, <2>2
<1> QED BY <1>1, <1>2, <1>3, <1>4, <1>5, <1>6, <1>7, <1>8, <1>9, <1>10, <1>11 DEF Access!Next

(* Whoever was removed is served for one lookup and one life of a cache     *)
(* entry at most, and wakes the phone for one lookup at most, for every     *)
(* number of users, requests and changes and every timeout.                 *)
THEOREM RemovalTakesEffect == ServicesSpec => []RemovedMemberIsShutOut
<1> DEFINE Inv == \A b \in AccessSizes : Accessed(b) => AccessInv
<1>1. ServicesInit => Inv
  BY AccessInit DEF ServicesInit, Controlled
<1>2. Inv /\ [ServicesNext]_ServicesVars => Inv'
  <2> SUFFICES ASSUME Inv, [ServicesNext]_ServicesVars, NEW b \in AccessSizes, Accessed(b)'
               PROVE  AccessInv'
    OBVIOUS
  <2>1. Accessed(b) /\ AccessInv
    BY DEF ServicesNext, ServicesVars
  <2>2. CASE UNCHANGED accessVars
    BY <2>1, <2>2 DEF accessVars, AccessInv, Removals, Lookups, Cached, LateBounds, GoneSince
  <2>3. CASE Access(b)!Next
    BY <2>1, <2>3, AccessStep
  <2> QED BY <2>1, <2>2, <2>3 DEF ServicesNext, ServicesVars, Controlled
<1>3. Inv => RemovedMemberIsShutOut
  BY DEF RemovedMemberIsShutOut, AccessInv, LateBounds, Access!RemovedMemberIsShutOut
<1> QED BY <1>1, <1>2, <1>3, PTL DEF ServicesSpec
-----------------------------------------------------------------------------
(*                        The phone's clock (PhoneClock)                    *)

Probe == [id : Nat, conn : Nat, sent : Int]
Asked == [id : Nat, sent : Int, received : Int]
Shot == [capture : Int, truth : Int]
Result == [kind : {"result"}, id : Nat, sent : Int, received : Int, answered : Int]
Frame == [kind : {"frame"}, capture : Int, truth : Int, emission : Int]
Uptime == [kind : {"uptime"}, uptime : Int]
Bounds == [kind : {"clock"}, sent : Int, received : Int, answered : Int, returned : Int]

(* The phone the newest connection was made to has not started later than   *)
(* the phone that runs now, and still runs while it is connected.           *)
Boots ==
    /\ phoneTime \in Int /\ boot \in Int /\ base \in Int
    /\ base <= boot /\ boot <= phoneTime
    /\ dialled \in Nat /\ conn \in {0, dialled} /\ counter \in Nat
    /\ phonePhone \in [conn : Nat, probe : Asked \cup {None}, shot : Shot \cup {None}]
    /\ phonePhone.conn # 0 => phonePhone.conn = conn /\ boot = base

(* What is on its way to the phone was sent by now; what the phone makes of *)
(* it, and its pictures, are dated by an uptime that began at base.         *)
Asking ==
    /\ down \in Seq(Probe) /\ (down # <<>> => conn # 0)
    /\ \A i \in 1 .. Len(down) : down[i].sent <= phoneTime
    /\ phonePhone.probe # None =>
         phonePhone.probe \in Asked /\ phonePhone.probe.sent - phonePhone.probe.received <= base
    /\ phonePhone.shot # None =>
         phonePhone.shot \in Shot /\ phonePhone.shot.truth = phonePhone.shot.capture + base

(* A message of the phone the newest connection was made to.                *)
Dated(m) == /\ m.kind = "result" => m.sent - m.received <= base
            /\ m.kind = "frame" => m.truth = m.capture + base

Answering ==
    /\ up \in Seq(Result \cup Frame \cup Uptime)
    /\ \A i \in 1 .. Len(up) : Dated(up[i])

(* What a reader holds: a picture of the newest connection is dated by      *)
(* base, a result of any connection bounds the offset from below.           *)
Reading ==
    /\ held \in [1 .. MaxConns -> Frame \cup Uptime \cup Bounds \cup {None}]
    /\ \A c \in 1 .. MaxConns : held[c] # None =>
         /\ c <= dialled
         /\ held[c] \in Frame \cup Uptime \cup Bounds
         /\ held[c].kind = "frame" /\ c = dialled => held[c].truth = held[c].capture + base
         /\ held[c].kind = "clock" => held[c].sent - held[c].received <= base

(* The lower end of the mapping is never above where the uptime began.      *)
Mapping ==
    /\ DOMAIN hub = {"bounded", "offset", "uncertainty", "at", "last"}
    /\ hub.offset \in Int /\ hub.uncertainty \in Int
    /\ hub.offset - hub.uncertainty <= base

ClockInv == Boots /\ Asking /\ Answering /\ Reading /\ Mapping

LEMMA ClockInit == Clock!Init => ClockInv
<1> SUFFICES ASSUME Clock!Init PROVE ClockInv
  OBVIOUS
<1> USE ClockAssumption DEF Clock!Init, Clock!idlePhone, Clock!Conns
<1>1. Boots
  BY DEF Boots
<1>2. Asking /\ Answering
  BY DEF Asking, Answering
<1>3. Reading
  BY DEF Reading
<1>4. Mapping
  BY DEF Mapping
<1> QED BY <1>1, <1>2, <1>3, <1>4 DEF ClockInv

(* Halving a width rounds the two ends of the mapping outwards.             *)
LEMMA MappingIsWide ==
    ASSUME NEW lower \in Int, NEW upper \in Int, lower <= upper
    PROVE  /\ lower + (upper - lower) \div 2 \in Int /\ (upper - lower + 1) \div 2 \in Int
           /\ lower + (upper - lower) \div 2 - (upper - lower + 1) \div 2 <= lower
OBVIOUS

LEMMA ClockStep == ClockInv /\ Clock!Next => ClockInv'
<1> SUFFICES ASSUME ClockInv, Clock!Next PROVE ClockInv'
  OBVIOUS
<1> USE ClockAssumption
<1> USE DEF ClockInv, Clock!wire, Clock!Conns, Clock!uptime, Clock!idlePhone
<1>1. CASE Clock!Connect
  <2> USE DEF Clock!Connect
  <2>1. Boots'
    BY <1>1 DEF Boots
  <2>2. Asking' /\ Answering'
    BY <1>1 DEF Boots, Asking, Answering
  <2>3. Reading'
    BY <1>1 DEF Boots, Reading, Frame, Uptime, Bounds
  <2>4. Mapping'
    BY <1>1 DEF Boots, Mapping
  <2> QED BY <2>1, <2>2, <2>3, <2>4
<1>2. CASE Clock!Disconnect
  <2> USE DEF Clock!Disconnect
  <2>1. Boots'
    BY <1>2 DEF Boots
  <2>2. Asking' /\ Answering'
    BY <1>2 DEF Boots, Asking, Answering
  <2>3. Reading' /\ Mapping'
    BY <1>2 DEF Boots, Reading, Mapping
  <2> QED BY <2>1, <2>2, <2>3
<1>3. CASE Clock!sendClockProbe
  <2> USE DEF Clock!sendClockProbe
  <2>1. Boots'
    BY <1>3 DEF Boots
  <2>2. Asking'
    <3> DEFINE probe == [id |-> counter + 1, conn |-> conn, sent |-> phoneTime]
    <3>1. probe \in Probe /\ probe.sent = phoneTime
      BY DEF Boots, Probe
    <3>2. down' = down \/ down' = Append(down, probe)
      BY <1>3
    <3> HIDE DEF probe
    <3>3. down \in Seq(Probe) /\ \A i \in 1 .. Len(down) : down[i].sent <= phoneTime
      BY DEF Boots, Asking
    <3>4. Append(down, probe) \in Seq(Probe)
      BY <3>1, <3>3
    <3>5. \A i \in 1 .. Len(Append(down, probe)) : Append(down, probe)[i].sent <= phoneTime
      <4>1. probe.sent <= phoneTime
        BY <3>1 DEF Boots
      <4> QED BY <3>1, <3>3, <4>1
    <3>6. down' \in Seq(Probe) /\ \A i \in 1 .. Len(down') : down'[i].sent <= phoneTime
      BY <3>2, <3>3, <3>4, <3>5
    <3> QED BY <1>3, <3>6 DEF Asking
  <2>3. Answering' /\ Reading' /\ Mapping'
    BY <1>3 DEF Answering, Reading, Mapping, Dated
  <2> QED BY <2>1, <2>2, <2>3
<1>4. CASE Clock!Tick
  <2> USE DEF Clock!Tick
  <2>1. Boots' /\ Reading' /\ Mapping'
    BY <1>4 DEF Boots, Reading, Mapping
  <2>2. Answering'
    BY <1>4 DEF Answering, Dated
  <2>3. ASSUME NEW i \in 1 .. Len(down) PROVE down[i].sent <= phoneTime + 1
    <3>1. down[i] \in Probe /\ down[i].sent <= phoneTime
      BY DEF Asking
    <3> QED BY <3>1 DEF Boots, Probe
  <2>4. Asking'
    BY <1>4, <2>3 DEF Asking
  <2> QED BY <2>1, <2>2, <2>4
<1>5. CASE Clock!PhoneReceives
  <2> USE DEF Clock!PhoneReceives
  <2>0. Head(down) \in Probe /\ Head(down).sent <= phoneTime /\ boot = base
    BY <1>5 DEF Boots, Asking
  <2>1. Boots'
    <3>1. UNCHANGED <<phoneTime, boot, base, dialled, conn, counter>>
          /\ phonePhone' = [phonePhone EXCEPT !.probe = [id |-> Head(down).id, sent |-> Head(down).sent,
                                                       received |-> phoneTime - boot]]
      BY <1>5
    <3>2. [id |-> Head(down).id, sent |-> Head(down).sent, received |-> phoneTime - boot] \in Asked
      BY <2>0 DEF Boots, Probe, Asked
    <3> QED BY <3>1, <3>2 DEF Boots
  <2>2. Asking'
    <3>1. down' = Tail(down) /\ down # <<>> /\ down \in Seq(Probe)
      BY <1>5 DEF Asking
    <3>0. /\ Tail(down) \in Seq(Probe)
          /\ \A i \in 1 .. Len(Tail(down)) : i + 1 \in 1 .. Len(down) /\ Tail(down)[i] = down[i + 1]
      BY <3>1
    <3>2. phonePhone'.probe = [id |-> Head(down).id, sent |-> Head(down).sent, received |-> phoneTime - boot]
          /\ phonePhone'.shot = phonePhone.shot
      BY <1>5 DEF Boots
    <3>3. phonePhone'.probe \in Asked /\ phonePhone'.probe.sent - phonePhone'.probe.received <= base
      BY <2>0, <3>2 DEF Boots, Probe, Asked
    <3> QED BY <1>5, <3>0, <3>1, <3>2, <3>3 DEF Asking
  <2>3. Answering' /\ Reading' /\ Mapping'
    BY <1>5 DEF Answering, Reading, Mapping, Dated
  <2> QED BY <2>1, <2>2, <2>3
<1>6. CASE Clock!PhoneAnswers
  <2> USE DEF Clock!PhoneAnswers, Clock!PhoneSends
  <2>1. Boots'
    BY <1>6 DEF Boots
  <2>2. Asking'
    BY <1>6 DEF Boots, Asking
  <2>3. Answering'
    BY <1>6 DEF Boots, Asking, Answering, Dated, Asked, Result
  <2>4. Reading' /\ Mapping'
    BY <1>6 DEF Reading, Mapping
  <2> QED BY <2>1, <2>2, <2>3, <2>4
<1>7. CASE Clock!PhoneCaptures
  <2> USE DEF Clock!PhoneCaptures
  <2>1. Boots'
    BY <1>7 DEF Boots, Shot
  <2>2. Asking'
    BY <1>7 DEF Boots, Asking, Shot
  <2>3. Answering' /\ Reading' /\ Mapping'
    BY <1>7 DEF Answering, Reading, Mapping, Dated
  <2> QED BY <2>1, <2>2, <2>3
<1>8. CASE Clock!PhoneEmits
  <2> USE DEF Clock!PhoneEmits, Clock!PhoneSends
  <2>1. Boots'
    BY <1>8 DEF Boots
  <2>2. Asking'
    BY <1>8 DEF Boots, Asking
  <2>3. Answering'
    BY <1>8 DEF Boots, Asking, Answering, Dated, Shot, Frame
  <2>4. Reading' /\ Mapping'
    BY <1>8 DEF Reading, Mapping
  <2> QED BY <2>1, <2>2, <2>3, <2>4
<1>9. CASE Clock!PhoneReports
  <2> USE DEF Clock!PhoneReports, Clock!PhoneSends
  <2>1. Boots' /\ Asking'
    BY <1>9 DEF Boots, Asking
  <2>2. Answering'
    BY <1>9 DEF Boots, Answering, Dated, Uptime
  <2>3. Reading' /\ Mapping'
    BY <1>9 DEF Reading, Mapping
  <2> QED BY <2>1, <2>2, <2>3
<1>10. CASE Clock!PhoneRestarts
  <2> USE DEF Clock!PhoneRestarts
  <2>1. Boots' /\ Asking'
    BY <1>10 DEF Boots, Asking
  <2>2. Answering' /\ Reading' /\ Mapping'
    BY <1>10 DEF Answering, Reading, Mapping, Dated
  <2> QED BY <2>1, <2>2
<1>11. CASE Clock!readLoop
  <2> USE DEF Clock!readLoop
  <2>0. Head(up) \in Result \cup Frame \cup Uptime /\ Dated(Head(up))
    BY <1>11 DEF Answering
  <2>1. Boots' /\ Asking' /\ Mapping'
    BY <1>11 DEF Boots, Asking, Mapping
  <2>2. Answering'
    BY <1>11 DEF Answering, Dated
  <2>3. Reading'
    <3>1. CASE Head(up).kind # "result"
      <4> DEFINE m == Head(up)
      <4>1. m \in Frame \cup Uptime /\ m.kind # "clock"
            /\ (m.kind = "frame" => m.truth = m.capture + base)
        BY <2>0, <3>1 DEF Dated, Result, Frame, Uptime
      <4>2. held' = [held EXCEPT ![conn] = m] /\ conn = dialled /\ UNCHANGED <<dialled, base>>
        BY <1>11, <3>1 DEF Boots
      <4> HIDE DEF m
      <4>3. /\ held' \in [1 .. MaxConns -> Frame \cup Uptime \cup Bounds \cup {None}]
            /\ \A c \in 1 .. MaxConns : held'[c] = held[c] \/ (held'[c] = m /\ c = dialled)
        <5>1. held \in [1 .. MaxConns -> Frame \cup Uptime \cup Bounds \cup {None}]
          BY DEF Reading
        <5> QED BY <4>1, <4>2, <5>1
      <4> QED BY <4>1, <4>2, <4>3 DEF Reading, Boots
    <3>2. CASE Head(up).kind = "result"
      <4> DEFINE m == Head(up)
                 x == [kind |-> "clock", sent |-> m.sent, received |-> m.received,
                       answered |-> m.answered, returned |-> phoneTime]
      <4>1. m \in Result /\ m.sent - m.received <= base
        BY <2>0, <3>2 DEF Dated, Result, Frame, Uptime
      <4>2. x \in Bounds /\ x.kind = "clock" /\ x.sent - x.received <= base
        BY <4>1 DEF Boots, Result, Bounds
      <4>3. held' = held \/ held' = [held EXCEPT ![conn] = x]
        BY <1>11, <3>2
      <4>4. conn = dialled /\ UNCHANGED <<dialled, base>>
        BY <1>11 DEF Boots
      <4> HIDE DEF x
      <4> QED BY <4>2, <4>3, <4>4 DEF Reading, Boots
    <3> QED BY <3>1, <3>2
  <2> QED BY <2>1, <2>2, <2>3
<1>12. ASSUME NEW c \in 1 .. MaxConns, Clock!handlePhoneMessage(c) PROVE ClockInv'
  <2> USE DEF Clock!handlePhoneMessage
  <2>1. Boots' /\ Asking' /\ Answering'
    BY <1>12 DEF Boots, Asking, Answering, Dated
  <2>2. Reading'
    BY <1>12 DEF Reading
  <2>3. Mapping'
    <3> DEFINE m == held[c]
    <3>1. CASE UNCHANGED hub
      BY <1>12, <3>1 DEF Mapping
    <3>2. CASE m.kind = "clock" /\ hub' = Clock!recordBoundedPhoneClock(m)
      <4>1. m.sent \in Int /\ m.received \in Int /\ m.returned \in Int /\ m.answered \in Int
            /\ m.sent - m.received <= base
        BY <1>12, <3>2 DEF Reading, Frame, Uptime, Bounds
      <4> DEFINE lower == m.sent - m.received
                 upper == m.returned - m.answered
      <4>2. lower \in Int /\ upper \in Int
        BY <4>1
      <4>3. lower <= upper =>
               /\ lower + (upper - lower) \div 2 \in Int /\ (upper - lower + 1) \div 2 \in Int
               /\ lower + (upper - lower) \div 2 - (upper - lower + 1) \div 2 <= base
        BY <4>1, <4>2, MappingIsWide DEF Boots
      <4>4. Clock!boundedPhoneClockMapping(m).ok => lower <= upper
        BY DEF Clock!boundedPhoneClockMapping
      <4>5. /\ Clock!boundedPhoneClockMapping(m).offset = lower + (upper - lower) \div 2
            /\ Clock!boundedPhoneClockMapping(m).uncertainty = (upper - lower + 1) \div 2
        BY DEF Clock!boundedPhoneClockMapping
      <4> HIDE DEF lower, upper
      <4>6. CASE hub' = hub
        BY <1>12, <4>6 DEF Mapping
      <4>7. CASE hub' # hub
        <5> DEFINE mapping == Clock!boundedPhoneClockMapping(m)
        <5>1. mapping.ok /\ hub' = [hub EXCEPT !.bounded = TRUE, !.offset = mapping.offset,
                                       !.uncertainty = mapping.uncertainty, !.at = m.returned, !.last = m.answered]
          BY <1>12, <3>2, <4>7 DEF Clock!recordBoundedPhoneClock
        <5> HIDE DEF mapping, m
        <5>2. /\ DOMAIN hub' = {"bounded", "offset", "uncertainty", "at", "last"}
              /\ hub'.offset = mapping.offset /\ hub'.uncertainty = mapping.uncertainty
          BY <5>1 DEF Mapping
        <5>3. lower <= upper /\ mapping.offset = lower + (upper - lower) \div 2
              /\ mapping.uncertainty = (upper - lower + 1) \div 2
          BY <5>1, <4>4, <4>5 DEF mapping
        <5>4. /\ mapping.offset \in Int /\ mapping.uncertainty \in Int
              /\ mapping.offset - mapping.uncertainty <= base
          BY <4>2, <5>3, <4>3
        <5>5. base' = base
          BY <1>12
        <5> QED BY <5>2, <5>4, <5>5 DEF Mapping
      <4> QED BY <4>6, <4>7
    <3>3. CASE m.kind = "uptime" /\ hub' = Clock!handlePhoneText(m)
      BY <1>12, <3>3 DEF Mapping, Clock!handlePhoneText, Clock!recordPhoneClock
    <3> QED BY <1>12, <3>1, <3>2, <3>3
  <2> QED BY <2>1, <2>2, <2>3
<1> QED BY <1>1, <1>2, <1>3, <1>4, <1>5, <1>6, <1>7, <1>8, <1>9, <1>10, <1>11, <1>12 DEF Clock!Next

(* No picture of the newest connection is forwarded with an age that is     *)
(* less than its real one, whatever the delays, restarts and reconnects,    *)
(* for every tolerance and every limit of probes and connections.           *)
THEOREM AgeIsAnUpperBound == ServicesSpec => []AgeIsNotUnderestimated
<1> DEFINE Inv == Clocked => ClockInv
<1>1. ServicesInit => Inv
  BY ClockInit DEF ServicesInit, Controlled
<1>2. Inv /\ [ServicesNext]_ServicesVars => Inv'
  <2> SUFFICES ASSUME Inv, [ServicesNext]_ServicesVars, Clocked' PROVE ClockInv'
    OBVIOUS
  <2>1. Clocked /\ ClockInv
    BY DEF ServicesNext, ServicesVars
  <2>2. CASE UNCHANGED clockVars
    BY <2>1, <2>2 DEF clockVars, ClockInv, Boots, Asking, Answering, Reading, Mapping, Dated
  <2>3. CASE Clock!Next
    BY <2>1, <2>3, ClockStep
  <2> QED BY <2>1, <2>2, <2>3 DEF ServicesNext, ServicesVars, Controlled
<1>3. Inv => AgeIsNotUnderestimated
  <2> SUFFICES ASSUME ClockInv, NEW c \in 1 .. MaxConns, c = dialled, held[c] # None, held[c].kind = "frame"
               PROVE  Clock!estimateFrameTiming(held[c]).age >= phoneTime - held[c].truth
    BY DEF AgeIsNotUnderestimated, Clock!AgeIsNotUnderestimated, Clock!Conns
  <2>1. held[c] \in Frame /\ held[c].truth = held[c].capture + base
    BY DEF ClockInv, Reading, Frame, Uptime, Bounds
  <2> QED BY <2>1 DEF Clock!estimateFrameTiming, ClockInv, Boots, Mapping, Frame
<1> QED BY <1>1, <1>2, <1>3, PTL DEF ServicesSpec
-----------------------------------------------------------------------------
(*                        Trial streams (TrialStream)                       *)

Guest(c) == SessionOf[PageOf[c]]

TrialShapes ==
    /\ trialTime \in Nat
    /\ DOMAIN trialRow = {"open", "used", "session", "past", "sequence", "started", "until", "charged"}
    /\ DOMAIN meter = Sockets
    /\ \A c \in Sockets : DOMAIN meter[c] = {"pc", "until", "sequence", "closed", "timer", "callback"}

(* One socket at a time has a running meter; a stopped one holds no slice,  *)
(* and a write holds one.                                                   *)
OneMeter ==
    /\ \A c, d \in Sockets : meter[c].pc # "off" /\ meter[d].pc # "off" => c = d
    /\ \A c \in Sockets : meter[c].pc = "off" => meter[c].until = Trial!NoTime
    /\ \A c \in Sockets : meter[c].pc = "write" => meter[c].until # Trial!NoTime

(* A session that was once the guest's is remembered.                       *)
Remembered == trialRow.session # None => trialRow.session \in trialRow.past

(* A slice a meter still works with is the one in the database, as long as  *)
(* the session is still the guest's: a session that was replaced does not   *)
(* return, so it cannot meet a later slice.                                 *)
SliceIsHeld ==
    \A c \in Sockets :
        meter[c].pc \in {"idle", "admitted", "write"} /\ meter[c].until # Trial!NoTime =>
            /\ Guest(c) \in trialRow.past
            /\ trialRow.open /\ trialRow.session = Guest(c) =>
                 trialRow.sequence = meter[c].sequence /\ trialRow.until = meter[c].until

TrialInv == TrialShapes /\ OneMeter /\ Remembered /\ SliceIsHeld

LEMMA TrialInit == Trial!Init => TrialInv
BY DEF Trial!Init, Trial!newMeter, TrialInv, TrialShapes, OneMeter, Remembered, SliceIsHeld

(* What the database keeps of its row in a release.                         *)
LEMMA ReleasedRow ==
    ASSUME TrialShapes, NEW c \in Sockets, NEW n, NEW r,
           r \in {trialRow, Trial!release_unused(trialRow), Trial!release_stream(c, n)}
    PROVE  /\ DOMAIN r = DOMAIN trialRow
           /\ r.open = trialRow.open /\ r.session = trialRow.session /\ r.past = trialRow.past
           /\ r.sequence = trialRow.sequence
BY DEF TrialShapes, Trial!release_unused, Trial!release_stream

(* The one running meter is stopped, paused or released.                    *)
LEMMA ReleaseInv ==
    ASSUME TrialInv, NEW c \in Sockets, NEW m, Trial!releaseLocked(c, m), trialTime' = trialTime,
           DOMAIN m = DOMAIN meter[c],
           m.until = meter[c].until, meter[c].pc = "off" => m.pc = "off"
    PROVE  TrialInv'
<1> USE DEF TrialInv
<1> DEFINE x == [m EXCEPT !.until = Trial!NoTime, !.pc = IF @ = "write" THEN "ending" ELSE @]
<1>1. meter' = [meter EXCEPT ![c] = x]
  BY DEF Trial!releaseLocked
<1>2. x.until = Trial!NoTime /\ x.pc # "write" /\ DOMAIN x = DOMAIN meter[c] /\ (meter[c].pc = "off" => x.pc = "off")
  BY DEF TrialShapes
<1> HIDE DEF x
<1>3. /\ DOMAIN trialRow' = DOMAIN trialRow
      /\ trialRow'.open = trialRow.open /\ trialRow'.session = trialRow.session /\ trialRow'.past = trialRow.past
  BY ReleasedRow DEF Trial!releaseLocked
<1>4. meter[c].pc # "off" \/ trialRow' = trialRow
  BY DEF Trial!releaseLocked, OneMeter
<1>5. \A d \in Sockets : d # c => meter'[d] = meter[d]
  BY <1>1 DEF TrialShapes
<1>6. meter'[c] = x
  BY <1>1 DEF TrialShapes
<1>7. TrialShapes'
  BY <1>1, <1>2, <1>3 DEF TrialShapes
<1>8. OneMeter' /\ Remembered'
  BY <1>2, <1>3, <1>5, <1>6 DEF OneMeter, Remembered, Trial!NoTime
<1>9. SliceIsHeld'
  BY <1>2, <1>3, <1>4, <1>5, <1>6 DEF SliceIsHeld, OneMeter, Guest, Trial!NoTime
<1> QED BY <1>7, <1>8, <1>9

(* A meter changes its place in the write of a picture, and keeps its slice. *)
LEMMA SameSliceInv ==
    ASSUME TrialInv, NEW c \in Sockets, NEW x, meter' = [meter EXCEPT ![c] = x],
           UNCHANGED <<trialRow, trialTime>>, DOMAIN x = DOMAIN meter[c],
           x.until = meter[c].until, x.sequence = meter[c].sequence,
           x.pc = "off" <=> meter[c].pc = "off",
           x.pc = "write" => x.until # Trial!NoTime,
           x.pc \in {"idle", "admitted", "write"} => meter[c].pc \in {"idle", "admitted", "write"}
    PROVE  TrialInv'
<1> USE DEF TrialInv
<1>1. \A d \in Sockets : d # c => meter'[d] = meter[d]
  BY DEF TrialShapes
<1>2. meter'[c] = x
  BY DEF TrialShapes
<1>3. TrialShapes' /\ Remembered'
  BY DEF TrialShapes, Remembered
<1>4. OneMeter'
  BY <1>1, <1>2 DEF OneMeter, Trial!NoTime
<1>5. SliceIsHeld'
  BY <1>1, <1>2 DEF SliceIsHeld, Guest, Trial!NoTime
<1> QED BY <1>3, <1>4, <1>5

LEMMA TrialStep == TrialInv /\ Trial!Next => TrialInv'
<1> SUFFICES ASSUME TrialInv, Trial!Next PROVE TrialInv'
  OBVIOUS
<1> USE DEF TrialInv
<1>1. ASSUME NEW p \in Trial!Pages, NEW t \in BOOLEAN, Trial!start_invitation(p, t) PROVE TrialInv'
  <2> DEFINE session == SessionOf[p]
  <2> USE DEF Trial!start_invitation
  <2>1. CASE trialRow.session = session
    BY <1>1, <2>1 DEF TrialShapes, OneMeter, Remembered, SliceIsHeld, Trial!NoTime, Guest
  <2>2. CASE trialRow.session # session
    <3> DEFINE r == Trial!release_unused(trialRow)
    <3>1. trialRow' = [r EXCEPT !.session = session, !.past = @ \cup {session}] /\ session \notin trialRow.past
          /\ UNCHANGED <<meter, trialTime>>
      BY <1>1, <2>2
    <3>2. DOMAIN r = DOMAIN trialRow /\ r.past = trialRow.past /\ r.open = trialRow.open
      BY DEF TrialShapes, Trial!release_unused
    <3> HIDE DEF r
    <3>3. /\ DOMAIN trialRow' = DOMAIN trialRow
          /\ trialRow'.session = session /\ trialRow'.past = trialRow.past \cup {session}
      BY <3>1, <3>2 DEF TrialShapes
    <3>4. TrialShapes' /\ OneMeter' /\ Remembered'
      BY <3>1, <3>3 DEF TrialShapes, OneMeter, Remembered, Trial!NoTime
    <3>5. SliceIsHeld'
      BY <3>1, <3>3 DEF SliceIsHeld, Guest, Trial!NoTime
    <3> QED BY <3>4, <3>5
  <2> QED BY <2>1, <2>2
<1>2. CASE Trial!InvitationEnds
  <2>1. /\ DOMAIN trialRow' = DOMAIN trialRow /\ trialRow'.past = trialRow.past /\ ~trialRow'.open
        /\ trialRow'.session = trialRow.session /\ UNCHANGED <<meter, trialTime>>
    BY <1>2 DEF Trial!InvitationEnds, Trial!release_unused, TrialShapes
  <2> QED BY <2>1 DEF TrialShapes, OneMeter, Remembered, SliceIsHeld, Trial!NoTime
<1>3. CASE Trial!Tick
  BY <1>3 DEF Trial!Tick, TrialShapes, OneMeter, Remembered, SliceIsHeld, Trial!NoTime, Guest
<1>4. ASSUME NEW c \in Sockets, Trial!pause(c) PROVE TrialInv'
  <2> DEFINE m == [Trial!Stopped(meter[c]) EXCEPT !.pc = IF @ = "admitted" THEN "idle" ELSE @]
  <2>1. DOMAIN m = DOMAIN meter[c] /\ m.until = meter[c].until
    BY DEF TrialShapes, Trial!Stopped
  <2>2. Trial!releaseLocked(c, m) /\ trialTime' = trialTime /\ meter[c].pc # "off"
    BY <1>4 DEF Trial!pause
  <2> HIDE DEF m
  <2> QED BY <2>1, <2>2, ReleaseInv
<1>5. ASSUME NEW c \in Sockets, Trial!Closed(c), trialTime' = trialTime PROVE TrialInv'
  <2> DEFINE m == [Trial!Stopped(meter[c]) EXCEPT !.closed = TRUE, !.pc = "off"]
  <2>1. DOMAIN m = DOMAIN meter[c] /\ m.until = meter[c].until /\ m.pc = "off"
    BY DEF TrialShapes, Trial!Stopped
  <2>2. Trial!releaseLocked(c, m)
    BY <1>5 DEF Trial!Closed
  <2> HIDE DEF m
  <2> QED BY <1>5, <2>1, <2>2, ReleaseInv
<1>6. ASSUME NEW c \in Sockets, Trial!AdmitAgain(c) PROVE TrialInv'
  <2> DEFINE x == [meter[c] EXCEPT !.pc = "admitted"]
  <2>1. meter' = [meter EXCEPT ![c] = x] /\ UNCHANGED <<trialRow, trialTime>> /\ meter[c].pc = "idle"
    BY <1>6 DEF Trial!AdmitAgain
  <2>2. DOMAIN x = DOMAIN meter[c] /\ x.until = meter[c].until /\ x.sequence = meter[c].sequence /\ x.pc = "admitted"
    BY DEF TrialShapes
  <2> HIDE DEF x
  <2> QED BY <2>1, <2>2, SameSliceInv
<1>7. ASSUME NEW c \in Sockets, Trial!writeContext(c) PROVE TrialInv'
  <2> DEFINE x == [Trial!Stopped(meter[c]) EXCEPT !.pc = IF trialTime < meter[c].until THEN "write" ELSE "ending"]
  <2>1. meter' = [meter EXCEPT ![c] = x] /\ UNCHANGED <<trialRow, trialTime>> /\ meter[c].pc = "admitted"
    BY <1>7 DEF Trial!writeContext
  <2>2. /\ DOMAIN x = DOMAIN meter[c] /\ x.until = meter[c].until /\ x.sequence = meter[c].sequence
        /\ x.pc = (IF trialTime < meter[c].until THEN "write" ELSE "ending")
    BY DEF TrialShapes, Trial!Stopped
  <2>3. x.pc = "write" => x.until # Trial!NoTime
    BY <2>2 DEF TrialShapes, Trial!NoTime
  <2> HIDE DEF x
  <2> QED BY <2>1, <2>2, <2>3, SameSliceInv
<1>8. ASSUME NEW c \in Sockets, Trial!written(c) PROVE TrialInv'
  <2> DEFINE x == [Trial!Stopped(meter[c]) EXCEPT !.pc = "idle",
                       !.timer = Trial!Least(trialTime + FrameLife, meter[c].until)]
  <2>1. meter' = [meter EXCEPT ![c] = x] /\ UNCHANGED <<trialRow, trialTime>> /\ meter[c].pc = "write"
    BY <1>8 DEF Trial!written
  <2>2. DOMAIN x = DOMAIN meter[c] /\ x.until = meter[c].until /\ x.sequence = meter[c].sequence /\ x.pc = "idle"
    BY DEF TrialShapes, Trial!Stopped
  <2> HIDE DEF x
  <2> QED BY <2>1, <2>2, SameSliceInv
<1>9. ASSUME NEW c \in Sockets, Trial!TimerExpires(c) PROVE TrialInv'
  <2> DEFINE x == [meter[c] EXCEPT !.timer = None, !.callback = "newest"]
  <2>1. meter' = [meter EXCEPT ![c] = x] /\ UNCHANGED <<trialRow, trialTime>>
    BY <1>9 DEF Trial!TimerExpires, TrialShapes
  <2>2. DOMAIN x = DOMAIN meter[c] /\ x.until = meter[c].until /\ x.sequence = meter[c].sequence /\ x.pc = meter[c].pc
    BY DEF TrialShapes
  <2> HIDE DEF x
  <2> QED BY <2>1, <2>2, SameSliceInv DEF OneMeter
<1>10. ASSUME NEW c \in Sockets, Trial!CallbackRuns(c) PROVE TrialInv'
  <2> DEFINE x == [meter[c] EXCEPT !.callback = None]
  <2>1. DOMAIN x = DOMAIN meter[c] /\ x.until = meter[c].until /\ x.sequence = meter[c].sequence /\ x.pc = meter[c].pc
    BY DEF TrialShapes
  <2>2. trialTime' = trialTime /\ (Trial!releaseLocked(c, x) \/ (meter' = [meter EXCEPT ![c] = x] /\ UNCHANGED trialRow))
    BY <1>10 DEF Trial!CallbackRuns
  <2> HIDE DEF x
  <2>3. CASE Trial!releaseLocked(c, x)
    BY <2>1, <2>2, <2>3, ReleaseInv
  <2>4. CASE meter' = [meter EXCEPT ![c] = x] /\ UNCHANGED trialRow
    BY <2>1, <2>2, <2>4, SameSliceInv DEF OneMeter
  <2> QED BY <2>2, <2>3, <2>4
<1>11. ASSUME NEW c \in Sockets, Trial!admit(c) PROVE TrialInv'
  <2> DEFINE n == meter[c].sequence + 1
             asked == [Trial!Stopped(meter[c]) EXCEPT !.sequence = n]
  <2>1. DOMAIN asked = DOMAIN meter[c] /\ asked.sequence = n
    BY DEF TrialShapes, Trial!Stopped
  <2> DEFINE first == Trial!reserve_stream(c, n, FALSE)
             second == Trial!reserve_stream(c, n, TRUE)
             granted(r) == [asked EXCEPT !.pc = IF trialTime < r.until THEN "admitted" ELSE "ending",
                                         !.until = r.until]
             refused == [asked EXCEPT !.pc = "ending"]
             Answer(r) == r \in {first, second} /\ r # None
  <2>2. /\ trialTime' = trialTime /\ meter[c].pc = "idle"
        /\ \/ Answer(trialRow') /\ meter' = [meter EXCEPT ![c] = granted(trialRow')]
           \/ /\ Answer(trialRow') \/ trialRow' = trialRow
              /\ meter' = [meter EXCEPT ![c] = refused]
    BY <1>11 DEF Trial!admit
  <2>3. ASSUME Answer(trialRow')
        PROVE  /\ DOMAIN trialRow' = DOMAIN trialRow /\ trialRow.session = Guest(c)
               /\ trialRow'.open = trialRow.open /\ trialRow'.session = trialRow.session
               /\ trialRow'.past = trialRow.past /\ trialRow'.sequence = n
    <3>1. CASE trialRow' = first
      BY <2>3, <3>1 DEF TrialShapes, Guest, Trial!reserve_stream, Trial!mayReserve
    <3>2. CASE trialRow' = second
      BY <2>3, <3>2 DEF TrialShapes, Guest, Trial!reserve_stream, Trial!mayReserve
    <3> QED BY <2>3, <3>1, <3>2
  <2> HIDE DEF n, first, second
  <2>4. /\ DOMAIN trialRow' = DOMAIN trialRow
        /\ trialRow'.open = trialRow.open /\ trialRow'.session = trialRow.session /\ trialRow'.past = trialRow.past
    BY <2>2, <2>3
  <2>a. DOMAIN refused = DOMAIN meter[c] /\ refused.sequence = n /\ refused.pc = "ending"
    BY <2>1 DEF TrialShapes
  <2>b. /\ DOMAIN granted(trialRow') = DOMAIN meter[c] /\ granted(trialRow').sequence = n
        /\ granted(trialRow').pc \in {"ending", "admitted"} /\ granted(trialRow').until = trialRow'.until
    BY <2>1 DEF TrialShapes
  <2> DEFINE x == meter'[c]
  <2>5. /\ DOMAIN x = DOMAIN meter[c] /\ x.sequence = n /\ x.pc \in {"ending", "admitted"}
        /\ x.pc = "admitted" =>
             x.until = trialRow'.until /\ trialRow'.sequence = n /\ trialRow.session = Guest(c)
    <3> HIDE DEF asked, granted, refused
    <3> QED BY <2>2, <2>3, <2>a, <2>b DEF TrialShapes
  <2>6. \A d \in Sockets : d # c => meter'[d] = meter[d]
    BY <2>2 DEF TrialShapes
  <2>7. DOMAIN meter' = Sockets
    BY <2>2 DEF TrialShapes
  <2> HIDE DEF asked, granted, refused
  <2>8. TrialShapes' /\ Remembered'
    BY <2>2, <2>4, <2>5, <2>6, <2>7 DEF TrialShapes, Remembered
  <2>9. OneMeter'
    BY <2>2, <2>5, <2>6 DEF OneMeter, Trial!NoTime
  <2>10. \A d \in Sockets : d # c => meter'[d].until = Trial!NoTime
    BY <2>2, <2>6 DEF OneMeter
  <2>11. Guest(c) # None
    BY TrialAssumption DEF Guest
  <2>12. SliceIsHeld'
    BY <2>4, <2>5, <2>10, <2>11 DEF SliceIsHeld, Remembered, Guest, Trial!NoTime
  <2> QED BY <2>8, <2>9, <2>12
<1>12. ASSUME NEW c \in Sockets, Trial!EndAdmission(c) PROVE TrialInv'
  <2> DEFINE x == [Trial!newMeter EXCEPT !.pc = "idle", !.sequence = trialRow.sequence]
  <2>1. /\ DOMAIN x = {"pc", "until", "sequence", "closed", "timer", "callback"}
        /\ x.until = Trial!NoTime /\ x.pc = "idle"
    BY DEF Trial!newMeter
  <2>2. meter' = [meter EXCEPT ![c] = x] /\ UNCHANGED <<trialRow, trialTime>>
        /\ \A d \in Sockets : meter[d].pc = "off"
    BY <1>12 DEF Trial!EndAdmission, Trial!Trials
  <2> HIDE DEF x
  <2>3. \A d \in Sockets : d # c => meter'[d] = meter[d]
    BY <2>2 DEF TrialShapes
  <2>4. meter'[c] = x
    BY <2>2 DEF TrialShapes
  <2>5. TrialShapes' /\ Remembered'
    BY <2>1, <2>2, <2>3, <2>4 DEF TrialShapes, Remembered
  <2>6. OneMeter' /\ SliceIsHeld'
    BY <2>1, <2>2, <2>3, <2>4 DEF OneMeter, SliceIsHeld, Trial!NoTime
  <2> QED BY <2>5, <2>6
<1>13. ASSUME NEW c \in Sockets, Trial!BeginAdmission(c) \/ Trial!AdmissionFails(c) PROVE TrialInv'
  BY <1>13 DEF Trial!BeginAdmission, Trial!AdmissionFails, TrialShapes, OneMeter, Remembered, SliceIsHeld, Guest, Trial!NoTime
<1>14. ASSUME NEW c \in Sockets, Trial!SocketEnds(c) \/ Trial!closeTrialClients(c) PROVE TrialInv'
  BY <1>14, <1>5 DEF Trial!SocketEnds, Trial!closeTrialClients, Trial!Trials
<1> QED BY <1>1, <1>2, <1>3, <1>4, <1>6, <1>7, <1>8, <1>9, <1>10, <1>11, <1>12, <1>13, <1>14 DEF Trial!Next

(* A guest's socket writes pictures only in a slice the database holds for  *)
(* it, for any number of sockets, pages and sessions and whatever answers,  *)
(* releases and timers get lost or come late.                               *)
THEOREM SlicesAreReserved == ServicesSpec => []ViewingIsReserved
<1> DEFINE Inv == Tried => TrialInv
<1>1. ServicesInit => Inv
  BY TrialInit DEF ServicesInit, Controlled
<1>2. Inv /\ [ServicesNext]_ServicesVars => Inv'
  <2> SUFFICES ASSUME Inv, [ServicesNext]_ServicesVars, Tried' PROVE TrialInv'
    OBVIOUS
  <2>1. Tried /\ TrialInv
    BY DEF ServicesNext, ServicesVars
  <2>2. CASE UNCHANGED trialVars
    BY <2>1, <2>2 DEF trialVars, TrialInv, TrialShapes, OneMeter, Remembered, SliceIsHeld, Guest, Trial!NoTime
  <2>3. CASE Trial!Next
    BY <2>1, <2>3, TrialStep
  <2> QED BY <2>1, <2>2, <2>3 DEF ServicesNext, ServicesVars, Controlled
<1>3. Inv => ViewingIsReserved
  BY DEF ViewingIsReserved, Trial!ViewingIsReserved, TrialInv, OneMeter, SliceIsHeld, Guest
<1> QED BY <1>1, <1>2, <1>3, PTL DEF ServicesSpec
-----------------------------------------------------------------------------
(*                   Readiness notifications (TicketMonitoring)             *)

Troubles == {"login", "capture_unavailable", "observation_overdue"}

(* The times of a health row are in the past, an incident began before now, *)
(* and lasts only as long as the trouble does.                              *)
Times(h) ==
    /\ DOMAIN h = {"enabled", "epoch", "issue", "enabledAt", "checked", "started", "incident", "alertSent",
                   "session", "sequence"}
    /\ clock \in Nat /\ h.epoch \in Nat /\ h.enabledAt \in Nat /\ h.enabledAt <= clock
    /\ h.checked # None => h.checked \in Nat /\ h.checked <= clock
    /\ h.started # None => h.started \in Nat /\ h.started <= clock
    /\ h.issue \in Troubles <=> h.started # None
    /\ h.started # None /\ h.issue # "observation_overdue" => h.checked # None /\ h.started <= h.checked
    /\ h.incident # None =>
         /\ h.incident \in Nat \X Nat /\ h.incident[1] = h.epoch /\ h.incident[2] < clock
         /\ h.started # None /\ h.incident[2] <= h.started
    /\ ~h.enabled => h.incident = None

(* No warning of the incident can be queued any more: another epoch, or the *)
(* trouble that is now began later.                                         *)
Over(h, inc) ==
    \/ inc[1] < h.epoch
    \/ /\ inc[1] = h.epoch
       /\ IF h.started # None THEN inc[2] < h.started ELSE h.checked # None /\ inc[2] < h.checked

(* What may happen to the health row.                                       *)
Advance(h) ==
    /\ \A inc \in Nat \X Nat : Over(health, inc) => Over(h, inc)
    /\ health.incident # None =>
         Over(h, health.incident) \/ (h.incident = health.incident /\ h.issue = health.issue)

(* A row of TicketremotePushDelivery; of its claim nothing need be known.  *)
IsDelivery(x) ==
    /\ DOMAIN x = {"device", "incident", "kind", "reason", "status", "attempts", "claim"}
    /\ x.device \in Devices /\ x.incident \in Nat \X Nat /\ x.kind \in {"problem", "recovery"}
    /\ x.reason \in Troubles /\ x.status \in {"pending", "sending", "sent", "failed"}
    /\ x.attempts \in 0 .. MaxAttempts

KeyOf(item) == <<item.device, item.incident>>

(* count says how many warnings of an incident a device was sent, with the  *)
(* one that is being sent.  A row has an attempt for each of them, and when *)
(* the row is gone no other takes its place.                                *)
Tally(b, h, rows, devices, count) ==
    /\ \A r \in rows : IsDelivery(r)
    /\ \A r, s \in rows : KeyOf(r) = KeyOf(s) => r = s
    /\ \A r \in rows : Over(h, r.incident) \/ (h.incident # None /\ r.incident = h.incident)
    /\ \A r \in rows : r.kind = "problem" /\ r.incident = h.incident /\ r.reason # h.issue => Over(h, r.incident)
    /\ \A r \in rows : r.kind = "problem" /\ KeyOf(r) \in Monitoring(b)!Keys => count[KeyOf(r)] <= r.attempts
    /\ \A k \in Monitoring(b)!Keys :
         /\ count[k] \in 0 .. MaxAttempts
         /\ count[k] > 0 => \/ \E r \in rows : r.kind = "problem" /\ KeyOf(r) = k
                            \/ k[1] \notin devices \/ k[1] \notin admins \/ Over(h, k[2])

(* What reconcile_deliveries makes of a row it finds.                       *)
Kept(b, h, item) ==
    IF item.kind = "recovery" THEN IF h.issue # "ready" /\ item.status # "sending" THEN {} ELSE {item}
    ELSE IF h.issue = "ready" THEN Monitoring(b)!readyAgain(item)
    ELSE IF item.incident # h.incident \/ item.reason # h.issue THEN Monitoring(b)!outdatedWarning(item)
    ELSE {item}

NewWarning(h, d) == [device |-> d, incident |-> h.incident, kind |-> "problem", reason |-> h.issue,
                     status |-> "pending", attempts |-> 0, claim |-> 0]

LEMMA KeptRow ==
    ASSUME NEW b \in MonitoringSizes, NEW h, NEW item, IsDelivery(item), NEW x \in Kept(b, h, item)
    PROVE  /\ IsDelivery(x) /\ KeyOf(x) = KeyOf(item) /\ x.incident = item.incident
           /\ x.kind = "problem" => item.kind = "problem" /\ x.attempts = item.attempts /\ x.reason = item.reason
           /\ x.kind = "recovery" => item.kind = "recovery" \/ h.issue = "ready"
           /\ \A y \in Kept(b, h, item) : y = x
           /\ x.kind = "recovery" \/ x.status = "sent" => item.kind = "recovery" \/ item.status = "sent"
<1>1. \/ x = item
      \/ x = Monitoring(b)!queue_recovery(item) /\ h.issue = "ready" /\ item.status = "sent"
      \/ x = [item EXCEPT !.status = "failed"]
  BY DEF Kept, Monitoring!readyAgain, Monitoring!outdatedWarning
<1>2. \A y \in Kept(b, h, item) : y = x
  BY DEF Kept, Monitoring!readyAgain, Monitoring!outdatedWarning
<1>3. CASE x = item
  BY <1>2, <1>3 DEF IsDelivery
<1>4. CASE x = Monitoring(b)!queue_recovery(item) /\ h.issue = "ready" /\ item.status = "sent"
  <2>0. 0 \in 0 .. MaxAttempts
    BY MonitoringAssumption
  <2>1. IsDelivery(x)
    BY <1>4, <2>0 DEF IsDelivery, Monitoring!queue_recovery
  <2>2. x.kind = "recovery" /\ x.device = item.device /\ x.incident = item.incident
    BY <1>4 DEF IsDelivery, Monitoring!queue_recovery
  <2> QED BY <1>2, <1>4, <2>1, <2>2 DEF KeyOf
<1>5. CASE x = [item EXCEPT !.status = "failed"]
  BY <1>2, <1>5 DEF IsDelivery, KeyOf
<1> QED BY <1>1, <1>3, <1>4, <1>5

(* A warning that is dropped was never tried, or the ticket is ready.       *)
LEMMA DroppedRow ==
    ASSUME NEW b \in MonitoringSizes, NEW h, NEW item, IsDelivery(item), item.kind = "problem"
    PROVE  \/ h.issue = "ready" \/ item.attempts = 0
           \/ \E x \in Kept(b, h, item) : x.kind = "problem" /\ KeyOf(x) = KeyOf(item)
BY DEF Kept, IsDelivery, KeyOf, Monitoring!outdatedWarning

LEMMA ReconciledRows ==
    ASSUME NEW b \in MonitoringSizes, NEW h, NEW rows, NEW devices,
           NEW x \in Monitoring(b)!reconcile_deliveries(h, rows, devices)
    PROVE  \/ \E item \in rows : x \in Kept(b, h, item)
           \/ /\ h.incident # None /\ h.incident = <<h.epoch, h.started>>
              /\ \E d \in devices \cap admins :
                    /\ x = NewWarning(h, d)
                    /\ \A item \in rows : \A y \in Kept(b, h, item) : KeyOf(y) # <<d, h.incident>>
<1> DEFINE kept == UNION {Kept(b, h, item) : item \in rows}
           new == {d \in devices \cap admins : <<d, h.incident>> \notin {KeyOf(item) : item \in kept}}
<1>1. \/ x \in kept
      \/ /\ h.incident # None /\ h.incident = <<h.epoch, h.started>>
         /\ x \in {NewWarning(h, d) : d \in new}
  BY DEF Monitoring!reconcile_deliveries, Kept, NewWarning, KeyOf, Monitoring!Key,
         Monitoring!incident_matches_current_issue
<1>2. x \in kept => \E item \in rows : x \in Kept(b, h, item)
  OBVIOUS
<1>3. \A d \in new : d \in devices \cap admins /\ \A item \in rows : \A y \in Kept(b, h, item) : KeyOf(y) # <<d, h.incident>>
  OBVIOUS
<1> HIDE DEF kept, new
<1> QED BY <1>1, <1>2, <1>3

LEMMA KeptIsReconciled ==
    ASSUME NEW b \in MonitoringSizes, NEW h, NEW rows, NEW devices, NEW item \in rows
    PROVE  Kept(b, h, item) \subseteq Monitoring(b)!reconcile_deliveries(h, rows, devices)
BY DEF Monitoring!reconcile_deliveries, Kept

(* Over a step of the health row that reconciles the rows, nothing is lost  *)
(* of the tally.                                                            *)
LEMMA ReconcileKeepsTally ==
    ASSUME NEW b \in MonitoringSizes, NEW h, NEW devices \in SUBSET Devices, NEW count, NEW gone,
           Times(health), Times(h), Advance(h), Tally(b, health, deliveries, devices, count),
           gone \cap admins = {}
    PROVE  Tally(b, h, {item \in Monitoring(b)!reconcile_deliveries(h, deliveries, devices) : item.device \notin gone},
                 devices \ gone, count)
<1> DEFINE all == Monitoring(b)!reconcile_deliveries(h, deliveries, devices)
           new == {item \in all : item.device \notin gone}
<1>1. \A r \in deliveries : IsDelivery(r)
  BY DEF Tally
<1>2. \A r \in deliveries : Over(h, r.incident) \/ (h.incident # None /\ r.incident = h.incident)
  BY <1>1 DEF Tally, Advance, IsDelivery
<1>3. \A r \in deliveries : r.kind = "problem" /\ r.incident = h.incident /\ r.reason # h.issue => Over(h, r.incident)
  BY <1>1 DEF Tally, Advance, IsDelivery
<1>4. h.issue = "ready" => h.incident = None
  BY DEF Times, Troubles
<1>5. ASSUME NEW x \in all
      PROVE  \/ \E item \in deliveries : x \in Kept(b, h, item)
             \/ /\ h.incident # None /\ h.incident = <<h.epoch, h.started>>
                /\ \E d \in devices \cap admins :
                      /\ x = NewWarning(h, d)
                      /\ \A item \in deliveries : \A y \in Kept(b, h, item) : KeyOf(y) # <<d, h.incident>>
  BY ReconciledRows
<1>6. h.incident # None /\ h.incident = <<h.epoch, h.started>> => ~Over(h, h.incident) /\ h.incident \in Nat \X Nat
  BY MonitoringAssumption DEF Times, Over
<1>7. ASSUME NEW d \in devices \cap admins, h.incident # None, h.incident = <<h.epoch, h.started>>
      PROVE  /\ IsDelivery(NewWarning(h, d)) /\ KeyOf(NewWarning(h, d)) = <<d, h.incident>>
             /\ NewWarning(h, d).incident = h.incident /\ NewWarning(h, d).reason = h.issue
             /\ NewWarning(h, d).attempts = 0
  BY <1>6, <1>7, MonitoringAssumption DEF NewWarning, IsDelivery, KeyOf, Times
<1> HIDE DEF all
<1>8. \A x \in all : IsDelivery(x) /\ (Over(h, x.incident) \/ (h.incident # None /\ x.incident = h.incident))
  BY <1>1, <1>2, <1>5, <1>7, KeptRow
<1>9. ASSUME NEW x \in all, NEW y \in all, KeyOf(x) = KeyOf(y) PROVE x = y
  <2>1. CASE \E item \in deliveries : x \in Kept(b, h, item)
    <3>1. PICK item \in deliveries : x \in Kept(b, h, item)
      BY <2>1
    <3>2. CASE \E other \in deliveries : y \in Kept(b, h, other)
      BY <1>1, <1>9, <3>1, <3>2, KeptRow DEF Tally
    <3>3. CASE ~\E other \in deliveries : y \in Kept(b, h, other)
      BY <1>5, <1>7, <1>9, <3>1, <3>3
    <3> QED BY <3>2, <3>3
  <2>2. CASE ~\E item \in deliveries : x \in Kept(b, h, item)
    <3>1. CASE \E other \in deliveries : y \in Kept(b, h, other)
      BY <1>5, <1>7, <1>9, <2>2, <3>1
    <3>2. CASE ~\E other \in deliveries : y \in Kept(b, h, other)
      <4>1. PICK d \in devices \cap admins : x = NewWarning(h, d)
        BY <1>5, <2>2
      <4>2. PICK e \in devices \cap admins : y = NewWarning(h, e)
        BY <1>5, <3>2
      <4>3. d = e
        BY <1>9, <4>1, <4>2 DEF NewWarning, KeyOf
      <4> QED BY <4>1, <4>2, <4>3
    <3> QED BY <3>1, <3>2
  <2> QED BY <2>1, <2>2
<1>10. \A x \in all : x.kind = "problem" /\ x.incident = h.incident /\ x.reason # h.issue => Over(h, x.incident)
  BY <1>1, <1>3, <1>5, <1>7, KeptRow
<1>11. ASSUME NEW k \in Monitoring(b)!Keys, count[k] > 0
       PROVE  \/ \E r \in all : r.kind = "problem" /\ KeyOf(r) = k
              \/ k[1] \notin devices \/ k[1] \notin admins \/ Over(h, k[2])
  <2>0. count[k] \in Nat /\ k[2] \in Nat \X Nat
    BY MonitoringAssumption DEF Tally, Monitoring!Keys, Monitoring!Incidents
  <2>1. CASE \E r \in deliveries : r.kind = "problem" /\ KeyOf(r) = k
    <3>1. PICK r \in deliveries : r.kind = "problem" /\ KeyOf(r) = k
      BY <2>1
    <3>2. count[k] <= r.attempts /\ IsDelivery(r)
      BY <1>1, <3>1 DEF Tally
    <3>3. r.attempts # 0
      BY <1>11, <2>0, <3>2 DEF IsDelivery
    <3>4. CASE h.issue = "ready"
      BY <1>2, <1>4, <3>1, <3>4 DEF KeyOf
    <3>5. CASE h.issue # "ready"
      BY <3>1, <3>2, <3>3, <3>5, DroppedRow, KeptIsReconciled DEF all
    <3> QED BY <3>4, <3>5
  <2>2. CASE ~\E r \in deliveries : r.kind = "problem" /\ KeyOf(r) = k
    BY <1>11, <2>0, <2>2 DEF Tally, Advance
  <2> QED BY <2>1, <2>2
<1>12. ASSUME NEW x \in all, x.kind = "problem", KeyOf(x) \in Monitoring(b)!Keys
       PROVE  count[KeyOf(x)] <= x.attempts
  <2>1. CASE \E item \in deliveries : x \in Kept(b, h, item)
    BY <1>1, <1>12, <2>1, KeptRow DEF Tally
  <2>2. CASE ~\E item \in deliveries : x \in Kept(b, h, item)
    <3>1. PICK d \in devices \cap admins :
             /\ x = NewWarning(h, d)
             /\ \A item \in deliveries : \A y \in Kept(b, h, item) : KeyOf(y) # <<d, h.incident>>
      BY <1>5, <2>2
    <3>2. h.incident # None /\ h.incident = <<h.epoch, h.started>>
      BY <1>5, <2>2
    <3>3. KeyOf(x) = <<d, h.incident>> /\ x.attempts = 0
      BY <1>7, <3>1, <3>2
    <3>4. ~Over(h, h.incident) /\ h.incident \in Nat \X Nat
      BY <1>6, <3>2
    <3>5. count[KeyOf(x)] \in Nat
      BY <1>12, MonitoringAssumption DEF Tally
    <3>6. ASSUME count[KeyOf(x)] > 0 PROVE FALSE
      <4>1. \/ \E r \in deliveries : r.kind = "problem" /\ KeyOf(r) = KeyOf(x)
            \/ Over(health, h.incident)
        BY <1>12, <3>3, <3>6 DEF Tally
      <4>2. ~Over(health, h.incident)
        BY <3>4 DEF Advance
      <4>3. PICK r \in deliveries : r.kind = "problem" /\ KeyOf(r) = KeyOf(x)
        BY <4>1, <4>2
      <4>4. IsDelivery(r) /\ count[KeyOf(x)] <= r.attempts
        BY <1>1, <1>12, <4>3 DEF Tally
      <4>5. r.attempts # 0
        BY <3>5, <3>6, <4>4 DEF IsDelivery
      <4>6. h.issue # "ready"
        BY <1>4, <3>2
      <4> QED BY <3>1, <3>3, <4>3, <4>4, <4>5, <4>6, DroppedRow
    <3> QED BY <3>3, <3>5, <3>6
  <2> QED BY <2>1, <2>2
<1>13. ASSUME NEW k \in Monitoring(b)!Keys, count[k] > 0
       PROVE  \/ \E r \in new : r.kind = "problem" /\ KeyOf(r) = k
              \/ k[1] \notin devices \ gone \/ k[1] \notin admins \/ Over(h, k[2])
  BY <1>11, <1>13 DEF KeyOf
<1>14. \A k \in Monitoring(b)!Keys : count[k] \in 0 .. MaxAttempts
  BY DEF Tally
<1>15. new \subseteq all
  OBVIOUS
<1> HIDE DEF new
<1>16. Tally(b, h, new, devices \ gone, count)
  BY <1>8, <1>9, <1>10, <1>12, <1>13, <1>14, <1>15 DEF Tally
<1> QED BY <1>16 DEF new, all

(* A report moves the health row on.                                        *)
LEMMA ObserveAdvances ==
    ASSUME NEW b \in MonitoringSizes, Times(health), health.enabled, NEW r,
           r.issue \in {"login", "capture_unavailable", "ready"}
    PROVE  Times(Monitoring(b)!observe(r)) /\ Advance(Monitoring(b)!observe(r))
<1> DEFINE h == Monitoring(b)!observe(r)
           same == health.session = r.session /\ health.issue = r.issue
           begins == ~same \/ health.started = None
           started == IF begins THEN clock ELSE health.started
           carried == IF begins /\ ~Monitoring(b)!preserve_incident THEN None ELSE health.incident
           confirmed == same /\ carried = None /\ clock - health.checked >= 1
<1>1. CASE r.issue = "ready"
  <2>1. /\ DOMAIN h = DOMAIN health /\ h.epoch = health.epoch /\ h.enabledAt = health.enabledAt
        /\ h.issue = "ready" /\ h.checked = clock /\ h.started = None /\ h.incident = None
    BY <1>1 DEF Times, Monitoring!observe
  <2> HIDE DEF h
  <2>2. Times(h)
    BY <2>1, MonitoringAssumption DEF Times, Troubles
  <2>3. Advance(h)
    BY <2>1, MonitoringAssumption DEF Times, Advance, Over
  <2> QED BY <2>2, <2>3 DEF h
<1>2. CASE r.issue # "ready"
  <2>1. /\ DOMAIN h = DOMAIN health /\ h.epoch = health.epoch /\ h.enabledAt = health.enabledAt
        /\ h.issue = r.issue /\ h.checked = clock /\ h.started = started /\ h.enabled = health.enabled
        /\ h.incident = (IF confirmed THEN <<health.epoch, started>> ELSE carried)
    BY <1>2 DEF Times, Monitoring!observe
  <2>2. health.issue = r.issue => health.started # None /\ health.checked # None /\ health.started <= health.checked
    BY <1>2 DEF Times, Troubles
  <2> HIDE DEF h
  <2>3. CASE begins
    <3>1. h.started = clock /\ (h.incident = None \/ h.incident = health.incident)
      BY <2>1, <2>2, <2>3
    <3>2. Times(h)
      BY <1>2, <2>1, <3>1, MonitoringAssumption DEF Times, Troubles
    <3>3. Advance(h)
      BY <2>1, <3>1, MonitoringAssumption DEF Times, Advance, Over
    <3> QED BY <3>2, <3>3 DEF h
  <2>4. CASE ~begins
    <3>1. /\ h.started = health.started /\ health.issue = r.issue
          /\ h.incident = health.incident
             \/ (health.incident = None /\ h.incident = <<health.epoch, health.started>> /\ clock - health.checked >= 1)
      BY <2>1, <2>4
    <3>2. Times(h)
      BY <1>2, <2>1, <2>2, <3>1, MonitoringAssumption DEF Times, Troubles
    <3>3. Advance(h)
      BY <2>1, <2>2, <3>1, MonitoringAssumption DEF Times, Advance, Over
    <3> QED BY <3>2, <3>3 DEF h
  <2> QED BY <2>3, <2>4
<1> QED BY <1>1, <1>2

(* A missed check moves the health row on.                                  *)
LEMMA OverdueAdvances ==
    ASSUME NEW b \in MonitoringSizes, Times(health), health.enabled, health.issue # "observation_overdue",
           NEW due, due = (IF health.checked = None THEN health.enabledAt ELSE health.checked + 1),
           clock >= due + 1, NEW h, DOMAIN h = DOMAIN health, h.epoch = health.epoch,
           h.enabledAt = health.enabledAt, h.issue = "observation_overdue", h.checked = health.checked,
           h.started = due, h.enabled = health.enabled, h.incident \in {health.incident, <<health.epoch, due>>}
    PROVE  Times(h) /\ Advance(h)
<1>2. due \in Nat /\ due < clock
  BY DEF Times
<1>3. health.started # None => health.checked # None /\ health.started < due
  BY DEF Times
<1>4. Times(h)
  BY <1>2, <1>3, MonitoringAssumption DEF Times, Troubles
<1>5. Advance(h)
  BY <1>2, <1>3, MonitoringAssumption DEF Times, Advance, Over
<1> QED BY <1>4, <1>5

(* Rows go whose device or incident is out of the question.                 *)
LEMMA RemovalKeepsTally ==
    ASSUME NEW b \in MonitoringSizes, NEW rows \in SUBSET deliveries, NEW devices \in SUBSET subscribed, NEW count,
           Tally(b, health, deliveries, subscribed, count),
           \A r \in deliveries \ rows : r.kind = "problem" =>
               r.device \notin devices \/ r.device \notin admins \/ Over(health, r.incident)
    PROVE  Tally(b, health, rows, devices, count)
<1>1. ASSUME NEW k \in Monitoring(b)!Keys, count[k] > 0
      PROVE  \/ \E r \in rows : r.kind = "problem" /\ KeyOf(r) = k
             \/ k[1] \notin devices \/ k[1] \notin admins \/ Over(health, k[2])
  BY <1>1 DEF Tally, KeyOf
<1> QED BY <1>1 DEF Tally

(* A row is changed, and the count of its warnings with it.                 *)
LEMMA ChangeKeepsTally ==
    ASSUME NEW b \in MonitoringSizes, NEW item \in deliveries, NEW x, IsDelivery(x), NEW count, NEW old,
           Tally(b, health, deliveries, subscribed, old), KeyOf(x) = KeyOf(item),
           \A k \in Monitoring(b)!Keys : count[k] \in 0 .. MaxAttempts /\ (k # KeyOf(item) => count[k] = old[k]),
           x.kind = "problem" => /\ item.kind = "problem" /\ x.reason = item.reason
                                 /\ KeyOf(item) \in Monitoring(b)!Keys => count[KeyOf(item)] <= x.attempts,
           x.kind = "recovery" => /\ KeyOf(item) \in Monitoring(b)!Keys => count[KeyOf(item)] = old[KeyOf(item)]
                                  /\ item.kind = "recovery" \/ Over(health, item.incident)
    PROVE  Tally(b, health, (deliveries \ {item}) \cup {x}, subscribed, count)
<1> DEFINE rows == (deliveries \ {item}) \cup {x}
<1>0. IsDelivery(item) /\ x.incident = item.incident
  BY DEF Tally, KeyOf
<1>1. \A r \in deliveries : r # item => KeyOf(r) # KeyOf(item)
  BY DEF Tally
<1>2. \A r, s \in rows : KeyOf(r) = KeyOf(s) => r = s
  BY <1>1 DEF Tally
<1>3. ASSUME NEW k \in Monitoring(b)!Keys, count[k] > 0
      PROVE  \/ \E r \in rows : r.kind = "problem" /\ KeyOf(r) = k
             \/ k[1] \notin subscribed \/ k[1] \notin admins \/ Over(health, k[2])
  <2>1. CASE k # KeyOf(item)
    BY <1>3, <2>1 DEF Tally
  <2>2. CASE k = KeyOf(item) /\ x.kind = "problem"
    BY <2>2
  <2>3. CASE k = KeyOf(item) /\ x.kind = "recovery" /\ item.kind = "recovery"
    BY <1>1, <1>3, <2>3 DEF Tally
  <2>4. CASE k = KeyOf(item) /\ Over(health, item.incident)
    BY <2>4 DEF KeyOf
  <2> QED BY <2>1, <2>2, <2>3, <2>4 DEF IsDelivery
<1>4. \A r \in rows : r.kind = "problem" /\ KeyOf(r) \in Monitoring(b)!Keys => count[KeyOf(r)] <= r.attempts
  BY <1>1 DEF Tally
<1>5. \A r \in rows : Over(health, r.incident) \/ (health.incident # None /\ r.incident = health.incident)
  BY <1>0 DEF Tally
<1>6. \A r \in rows : r.kind = "problem" /\ r.incident = health.incident /\ r.reason # health.issue
                        => Over(health, r.incident)
  BY <1>0 DEF Tally
<1>7. \A r \in rows : IsDelivery(r)
  BY DEF Tally
<1> HIDE DEF rows
<1>8. Tally(b, health, rows, subscribed, count)
  BY <1>2, <1>3, <1>4, <1>5, <1>6, <1>7 DEF Tally
<1> QED BY <1>8 DEF rows

Outcomes == {"sent", "retry", "invalid", "failed"}

(* The warning that is being sent now, for this subscription of the device. *)
Pending(k) == /\ sender # None /\ sender.outcome = None /\ ~sender.former
              /\ sender.row.kind = "problem" /\ KeyOf(sender.row) = k

Count(b) == [k \in Monitoring(b)!Keys |-> sends[k] + (IF Pending(k) THEN 1 ELSE 0)]

(* Whatever speaks of a recovery, or of a warning delivered, speaks of a    *)
(* warning that was.                                                        *)
Earned ==
    /\ recovered \subseteq warned
    /\ \A r \in deliveries : r.kind = "recovery" \/ r.status = "sent" => KeyOf(r) \in warned
    /\ sender # None => (sender.row.kind = "recovery" \/ sender.outcome = "sent" => KeyOf(sender.row) \in warned)
    /\ \A s \in receipts : s.outcome = "sent" => KeyOf(s.row) \in warned

Senders(b) ==
    /\ subscribed \subseteq Devices
    /\ \A r \in reports : r.issue \in {"login", "capture_unavailable", "ready"}
    /\ sends \in [Monitoring(b)!Keys -> Nat]
    /\ sender # None => /\ DOMAIN sender = {"row", "outcome", "former"}
                        /\ IsDelivery(sender.row) /\ sender.outcome \in Outcomes \cup {None}
    /\ \A s \in receipts : s.outcome \in Outcomes

MonitoringInv(b) ==
    /\ Times(health) /\ Senders(b) /\ Earned
    /\ Tally(b, health, deliveries, subscribed, Count(b))

LEMMA FewerKeepTally ==
    ASSUME NEW b \in MonitoringSizes, NEW h, NEW rows, NEW devices, NEW old, NEW new,
           Tally(b, h, rows, devices, old),
           \A k \in Monitoring(b)!Keys : new[k] \in Nat /\ new[k] <= old[k]
    PROVE  Tally(b, h, rows, devices, new)
<1>1. \A k \in Monitoring(b)!Keys : new[k] \in 0 .. MaxAttempts
  BY MonitoringAssumption DEF Tally
<1>2. \A k \in Monitoring(b)!Keys : new[k] > 0 => old[k] > 0
  BY MonitoringAssumption DEF Tally
<1>3. \A r \in rows : r.kind = "problem" /\ KeyOf(r) \in Monitoring(b)!Keys => new[KeyOf(r)] <= r.attempts
  BY MonitoringAssumption DEF Tally, IsDelivery
<1> QED BY <1>1, <1>2, <1>3 DEF Tally

LEMMA TallyHolds ==
    ASSUME NEW b \in MonitoringSizes, Tally(b, health', deliveries', subscribed', Count(b)'),
           admins' \subseteq admins
    PROVE  Tally(b, health, deliveries, subscribed, Count(b))'
BY DEF Tally, Over, Monitoring!Keys, Monitoring!Incidents

LEMMA MonitoringInit ==
    ASSUME NEW b \in MonitoringSizes, Monitoring(b)!Init PROVE MonitoringInv(b)
<1> USE DEF Monitoring!Init
<1>1. Times(health)
  BY MonitoringAssumption DEF Times, Troubles
<1>2. Senders(b) /\ Earned
  BY DEF Senders, Earned
<1>3. \A k \in Monitoring(b)!Keys : Count(b)[k] = 0
  BY DEF Count, Pending
<1>4. Tally(b, health, deliveries, subscribed, Count(b))
  BY <1>3, MonitoringAssumption DEF Tally
<1> QED BY <1>1, <1>2, <1>4 DEF MonitoringInv

LEMMA CountIsKept ==
    ASSUME NEW b \in MonitoringSizes, UNCHANGED <<sends, sender>> PROVE Count(b)' = Count(b)
BY DEF Count, Pending, KeyOf, Monitoring!Keys, Monitoring!Incidents

(* A reconciliation.                                                        *)
LEMMA ReconcileKeepsInv ==
    ASSUME NEW b \in MonitoringSizes, Times(health), NEW h, Times(h), Advance(h), NEW devices \in SUBSET Devices,
           Tally(b, health, deliveries, devices, Count(b)'), Earned, Monitoring(b)!Reconciled(h, devices),
           UNCHANGED <<clock, admins, warned>>
    PROVE  /\ Times(health)' /\ subscribed' \subseteq Devices
           /\ Tally(b, health, deliveries, subscribed, Count(b))'
           /\ \A r \in deliveries' : r.kind = "recovery" \/ r.status = "sent" => KeyOf(r) \in warned
<1> DEFINE gone == IF h.incident # None /\ h.incident = <<h.epoch, h.started>> THEN devices \ admins ELSE {}
           all == Monitoring(b)!reconcile_deliveries(h, deliveries, devices)
<1>1. health' = h /\ deliveries' = {item \in all : item.device \notin gone} /\ subscribed' = devices \ gone
  BY DEF Monitoring!Reconciled, Monitoring!incident_matches_current_issue
<1>2. gone \cap admins = {}
  OBVIOUS
<1>3. Times(health)'
  BY <1>1 DEF Times
<1>4. Tally(b, health', deliveries', subscribed', Count(b)')
  <2> HIDE DEF gone
  <2> QED BY <1>1, <1>2, ReconcileKeepsTally
<1>5. ASSUME NEW r \in all, r.kind = "recovery" \/ r.status = "sent" PROVE KeyOf(r) \in warned
  <2>1. PICK item \in deliveries : r \in Kept(b, h, item)
    BY <1>5, ReconciledRows DEF NewWarning
  <2>2. IsDelivery(item)
    BY DEF Tally
  <2> QED BY <1>5, <2>1, <2>2, KeptRow DEF Earned
<1> QED BY <1>1, <1>3, <1>4, <1>5, TallyHolds

(* The receipt of a push.                                                   *)
LEMMA FinishKeepsInv ==
    ASSUME NEW b \in MonitoringSizes, MonitoringInv(b), NEW s, s.outcome \in Outcomes,
           s.outcome = "sent" => KeyOf(s.row) \in warned,
           Monitoring(b)!finish_push_delivery(s), UNCHANGED <<clock, admins, warned>>
    PROVE  /\ Times(health)' /\ subscribed' \subseteq Devices
           /\ Tally(b, health', deliveries', subscribed', Count(b))
           /\ \A r \in deliveries' : r.kind = "recovery" \/ r.status = "sent" => KeyOf(r) \in warned
<1> DEFINE holding == {item \in deliveries : KeyOf(item) = KeyOf(s.row) /\ item.status = "sending" /\ item.claim = s.row.claim}
           item == CHOOSE r \in holding : TRUE
<1> USE DEF MonitoringInv
<1>1. CASE holding = {}
  <2>1. UNCHANGED <<health, deliveries, subscribed>>
    BY <1>1 DEF Monitoring!finish_push_delivery, Monitoring!Key, KeyOf
  <2> QED BY <2>1 DEF Times, Senders, Earned
<1>2. CASE holding # {}
  <2>1. item \in deliveries /\ KeyOf(item) = KeyOf(s.row)
    BY <1>2
  <2>2. IsDelivery(item)
    BY <2>1 DEF Tally
  <2>3. \A k \in Monitoring(b)!Keys : Count(b)[k] \in 0 .. MaxAttempts
    BY DEF Tally
  <2> DEFINE concerns == health.incident = item.incident /\ health.issue # "ready"
             again == Monitoring(b)!queue_recovery(item)
             told == [item EXCEPT !.status = "sent", !.claim = 0]
             left(status) == [item EXCEPT !.claim = 0, !.status = status]
  <2>4. \/ s.outcome = "invalid" /\ UNCHANGED health /\ Monitoring(b)!delete_subscription(item.device)
        \/ s.outcome = "sent" /\ item.kind = "recovery" /\ deliveries' = deliveries \ {item} /\ UNCHANGED <<health, subscribed>>
        \/ /\ s.outcome = "sent" /\ item.kind = "problem" /\ ~concerns /\ health.enabled /\ health.issue = "ready"
           /\ deliveries' = (deliveries \ {item}) \cup {again} /\ UNCHANGED <<health, subscribed>>
        \/ /\ s.outcome = "sent" /\ item.kind = "problem"
           /\ deliveries' = (deliveries \ {item}) \cup {told} /\ UNCHANGED subscribed
           /\ health' = health \/ health' = [health EXCEPT !.alertSent = TRUE]
        \/ /\ s.outcome \in {"retry", "failed"} /\ UNCHANGED <<health, subscribed>>
           /\ \E status \in {"pending", "failed"} : deliveries' = (deliveries \ {item}) \cup {left(status)}
    BY <1>2, <2>2 DEF Monitoring!finish_push_delivery, Monitoring!Key, KeyOf, Outcomes, IsDelivery
  <2> HIDE DEF item, holding
  <2>5. CASE s.outcome = "invalid" /\ UNCHANGED health /\ Monitoring(b)!delete_subscription(item.device)
    <3>1. deliveries' = {r \in deliveries : r.device # item.device} /\ subscribed' = subscribed \ {item.device}
      BY <2>5 DEF Monitoring!delete_subscription
    <3>2. Tally(b, health, deliveries', subscribed', Count(b))
      BY <3>1, RemovalKeepsTally
    <3> QED BY <2>5, <3>1, <3>2 DEF Times, Senders, Earned
  <2>6. CASE s.outcome = "sent" /\ item.kind = "recovery" /\ deliveries' = deliveries \ {item} /\ UNCHANGED <<health, subscribed>>
    <3>1. Tally(b, health, deliveries', subscribed', Count(b))
      BY <2>6, RemovalKeepsTally
    <3> QED BY <2>6, <3>1 DEF Times, Senders, Earned
  <2>7. CASE /\ s.outcome = "sent" /\ item.kind = "problem" /\ ~concerns /\ health.enabled /\ health.issue = "ready"
             /\ deliveries' = (deliveries \ {item}) \cup {again} /\ UNCHANGED <<health, subscribed>>
    <3>1. IsDelivery(again) /\ again.kind = "recovery" /\ again.device = item.device /\ again.incident = item.incident
      <4>1. 0 \in 0 .. MaxAttempts
        BY MonitoringAssumption
      <4> QED BY <2>2, <4>1 DEF IsDelivery, Monitoring!queue_recovery
    <3> HIDE DEF again
    <3>2. Over(health, item.incident)
      BY <2>1, <2>7 DEF Tally, Times, Troubles
    <3>3. Tally(b, health, deliveries', subscribed', Count(b))
      <4>1. KeyOf(again) = KeyOf(item)
        BY <3>1 DEF KeyOf
      <4> QED BY <2>1, <2>3, <2>7, <3>1, <3>2, <4>1, ChangeKeepsTally
    <3> QED BY <2>1, <2>7, <3>1, <3>3 DEF Times, Senders, Earned, KeyOf
  <2>8. CASE /\ s.outcome = "sent" /\ item.kind = "problem"
             /\ deliveries' = (deliveries \ {item}) \cup {told} /\ UNCHANGED subscribed
             /\ health' = health \/ health' = [health EXCEPT !.alertSent = TRUE]
    <3>1. /\ IsDelivery(told) /\ told.kind = "problem" /\ told.device = item.device /\ told.incident = item.incident
          /\ told.attempts = item.attempts /\ told.reason = item.reason
      BY <2>2, <2>8 DEF IsDelivery
    <3> HIDE DEF told
    <3>2. Tally(b, health, deliveries', subscribed', Count(b))
      <4>1. KeyOf(item) \in Monitoring(b)!Keys => Count(b)[KeyOf(item)] <= item.attempts
        BY <2>1, <2>8 DEF Tally
      <4> QED BY <2>1, <2>3, <2>8, <3>1, <4>1, ChangeKeepsTally DEF KeyOf
    <3>3. /\ DOMAIN health' = DOMAIN health /\ health'.epoch = health.epoch /\ health'.issue = health.issue
          /\ health'.started = health.started /\ health'.checked = health.checked
          /\ health'.enabledAt = health.enabledAt /\ health'.enabled = health.enabled
          /\ health'.incident = health.incident
      BY <2>8 DEF Times
    <3>4. Times(health)'
      BY <3>3 DEF Times
    <3>5. Tally(b, health', deliveries', subscribed', Count(b))
      BY <3>2, <3>3 DEF Tally, Over
    <3> QED BY <2>1, <2>8, <3>1, <3>4, <3>5 DEF Senders, Earned, KeyOf
  <2>9. CASE /\ s.outcome \in {"retry", "failed"} /\ UNCHANGED <<health, subscribed>>
             /\ \E status \in {"pending", "failed"} : deliveries' = (deliveries \ {item}) \cup {left(status)}
    <3>1. PICK status \in {"pending", "failed"} : deliveries' = (deliveries \ {item}) \cup {left(status)}
      BY <2>9
    <3> DEFINE x == left(status)
    <3>2. /\ IsDelivery(x) /\ x.kind = item.kind /\ x.device = item.device /\ x.incident = item.incident
          /\ x.attempts = item.attempts /\ x.reason = item.reason /\ x.status # "sent"
      BY <2>2 DEF IsDelivery
    <3>3. deliveries' = (deliveries \ {item}) \cup {x}
      BY <3>1
    <3> HIDE DEF x
    <3>4. Tally(b, health, deliveries', subscribed', Count(b))
      <4>1. item.kind = "problem" /\ KeyOf(item) \in Monitoring(b)!Keys => Count(b)[KeyOf(item)] <= item.attempts
        BY <2>1 DEF Tally
      <4> QED BY <2>1, <2>3, <2>9, <3>2, <3>3, <4>1, ChangeKeepsTally DEF KeyOf
    <3> QED BY <2>1, <2>9, <3>2, <3>3, <3>4 DEF Times, Senders, Earned, KeyOf
  <2> QED BY <2>4, <2>5, <2>6, <2>7, <2>8, <2>9
<1> QED BY <1>1, <1>2

LEMMA MonitoringStep ==
    ASSUME NEW b \in MonitoringSizes, MonitoringInv(b), Monitoring(b)!Next PROVE MonitoringInv(b)'
<1> USE DEF MonitoringInv
<1>0. /\ Times(health) /\ Senders(b) /\ Earned /\ Tally(b, health, deliveries, subscribed, Count(b))
      /\ \A k \in Monitoring(b)!Keys : Count(b)[k] \in 0 .. MaxAttempts
      /\ \A r \in deliveries : IsDelivery(r)
  BY DEF Tally
<1>1. CASE Monitoring(b)!set_monitoring
  <2> USE DEF Monitoring!set_monitoring, Monitoring!pushVars
  <2>1. /\ DOMAIN health' = DOMAIN health /\ health'.epoch = health.epoch + 1
        /\ health'.enabledAt = clock /\ health'.checked = None /\ health'.started = None
        /\ health'.incident = None /\ health'.issue \in {"checking", "disabled"}
    BY <1>1 DEF Times
  <2>2. deliveries' = {} /\ UNCHANGED <<subscribed, admins, clock, sends, sender, receipts, warned, recovered, reports>>
    BY <1>1
  <2>3. Times(health)'
    BY <2>1, <2>2 DEF Times, Troubles
  <2>4. \A k \in Monitoring(b)!Keys : Count(b)[k] > 0 =>
           k[1] \notin subscribed \/ k[1] \notin admins \/ Over(health', k[2])
    <3>1. \A inc \in Nat \X Nat : Over(health, inc) => Over(health', inc)
      BY <2>1 DEF Over, Times
    <3>2. health.incident # None => Over(health', health.incident)
      BY <2>1 DEF Over, Times
    <3>3. \A k \in Monitoring(b)!Keys : k[2] \in Nat \X Nat
      BY DEF Monitoring!Keys, Monitoring!Incidents
    <3> QED BY <1>0, <3>1, <3>2, <3>3 DEF Tally, IsDelivery, KeyOf
  <2>5. Tally(b, health', deliveries', subscribed', Count(b)')
    BY <1>0, <2>2, <2>4, CountIsKept DEF Tally
  <2>6. Senders(b)' /\ Earned'
    BY <2>2 DEF Senders, Earned, Monitoring!Keys, Monitoring!Incidents
  <2> QED BY <2>2, <2>3, <2>5, <2>6, TallyHolds
<1>2. CASE Monitoring(b)!PhoneReports \/ Monitoring(b)!NewPhoneSession \/ Monitoring(b)!Tick
  <2>1. /\ UNCHANGED <<health, deliveries, subscribed, admins, sends, sender, receipts, warned, recovered>>
        /\ clock' = clock \/ clock' = clock + 1
        /\ \A r \in reports' : r \in reports \/ r.issue \in {"login", "capture_unavailable", "ready"}
    BY <1>2 DEF Monitoring!PhoneReports, Monitoring!NewPhoneSession, Monitoring!Tick, Monitoring!pushVars, Monitoring!Problems
  <2>2. Times(health)'
    BY <2>1 DEF Times
  <2>3. Senders(b)' /\ Earned'
    BY <2>1 DEF Senders, Earned, Monitoring!Keys, Monitoring!Incidents
  <2>4. Tally(b, health', deliveries', subscribed', Count(b)')
    BY <1>0, <2>1, CountIsKept
  <2> QED BY <2>1, <2>2, <2>3, <2>4, TallyHolds
<1>3. ASSUME NEW h, Times(h), Advance(h), Monitoring(b)!Reconciled(h, subscribed),
             UNCHANGED <<admins, Monitoring(b)!pushVars, reports, clock>>
      PROVE  MonitoringInv(b)'
  <2>1. UNCHANGED <<admins, sends, sender, receipts, warned, recovered, reports, clock>>
    BY <1>3 DEF Monitoring!pushVars
  <2>2. Tally(b, health, deliveries, subscribed, Count(b)') /\ subscribed \in SUBSET Devices
    BY <1>0, <2>1, CountIsKept DEF Senders
  <2>3. /\ Times(health)' /\ subscribed' \subseteq Devices
        /\ Tally(b, health, deliveries, subscribed, Count(b))'
        /\ \A r \in deliveries' : r.kind = "recovery" \/ r.status = "sent" => KeyOf(r) \in warned
    BY <1>0, <1>3, <2>1, <2>2, ReconcileKeepsInv
  <2>4. Senders(b)' /\ Earned'
    BY <2>1, <2>3 DEF Senders, Earned, Monitoring!Keys, Monitoring!Incidents
  <2> QED BY <2>3, <2>4
<1>4. CASE Monitoring(b)!report_monitoring
  <2>1. PICK r \in reports : /\ Monitoring(b)!accept_observation(r) /\ Monitoring(b)!Reconciled(Monitoring(b)!observe(r), subscribed)
                             /\ UNCHANGED <<admins, Monitoring(b)!pushVars, pushPhone, reports, clock, subscribes>>
    BY <1>4 DEF Monitoring!report_monitoring
  <2>2. health.enabled /\ r.issue \in {"login", "capture_unavailable", "ready"}
    BY <2>1 DEF Monitoring!accept_observation, Senders
  <2> QED BY <1>3, <2>1, <2>2, ObserveAdvances
<1>5. CASE Monitoring(b)!mark_overdue
  <2> DEFINE due == IF health.checked = None THEN health.enabledAt ELSE health.checked + 1
             preserved == Monitoring(b)!preserve_incident
             incident == IF preserved THEN health.incident ELSE <<health.epoch, due>>
             alertSent == IF preserved THEN health.alertSent ELSE FALSE
             h == [health EXCEPT !.issue = "observation_overdue", !.started = due, !.incident = incident,
                                 !.alertSent = alertSent]
  <2>1. /\ health.enabled /\ clock >= due + 1 /\ health.issue # "observation_overdue"
        /\ UNCHANGED <<admins, Monitoring(b)!pushVars, reports, clock>>
    BY <1>5 DEF Monitoring!mark_overdue
  <2>2. Monitoring(b)!Reconciled(h, subscribed)
    BY <1>5 DEF Monitoring!mark_overdue
  <2>3. /\ incident \in {health.incident, <<health.epoch, due>>}
        /\ due = (IF health.checked = None THEN health.enabledAt ELSE health.checked + 1)
        /\ DOMAIN h = DOMAIN health /\ h.epoch = health.epoch /\ h.enabledAt = health.enabledAt
        /\ h.issue = "observation_overdue" /\ h.checked = health.checked /\ h.started = due
        /\ h.enabled = health.enabled /\ h.incident = incident
    BY DEF Times
  <2> HIDE DEF incident, alertSent, due, h
  <2>4. Times(h) /\ Advance(h)
    BY <1>0, <2>1, <2>3, OverdueAdvances
  <2> QED BY <1>3, <2>1, <2>2, <2>4
<1>6. ASSUME deliveries' \subseteq deliveries, subscribed' \subseteq subscribed,
             \A r \in deliveries \ deliveries' : r.kind = "problem" =>
                 r.device \notin subscribed' \/ r.device \notin admins \/ Over(health, r.incident),
             UNCHANGED <<health, admins, reports, clock, sender, receipts, sends, warned, recovered>>
      PROVE  MonitoringInv(b)'
  <2>1. Tally(b, health, deliveries', subscribed', Count(b))
    BY <1>0, <1>6, RemovalKeepsTally
  <2>2. Tally(b, health', deliveries', subscribed', Count(b)')
    BY <1>6, <2>1, CountIsKept
  <2>3. Times(health)' /\ Senders(b)' /\ Earned'
    BY <1>6 DEF Times, Senders, Earned, Monitoring!Keys, Monitoring!Incidents
  <2> QED BY <1>6, <2>2, <2>3, TallyHolds
<1>7. CASE Monitoring(b)!check_due
  <2>1. \A r \in deliveries : ~(health.enabled /\ health.incident = r.incident) => Over(health, r.incident)
    BY <1>0 DEF Tally, Times
  <2> QED BY <1>6, <1>7, <2>1 DEF Monitoring!check_due, Monitoring!pushVars
<1>8. ASSUME NEW d \in Devices, Monitoring(b)!Unsubscribe(d) PROVE MonitoringInv(b)'
  BY <1>6, <1>8 DEF Monitoring!Unsubscribe, Monitoring!delete_subscription, Monitoring!pushVars
<1>9. ASSUME NEW d \in Devices, Monitoring(b)!LosesRole(d) PROVE MonitoringInv(b)'
  <2>1. /\ UNCHANGED <<health, subscribed, deliveries, sends, sender, receipts, warned, recovered, reports, clock>>
        /\ admins' \subseteq admins
    BY <1>9 DEF Monitoring!LosesRole, Monitoring!pushVars
  <2>2. Tally(b, health', deliveries', subscribed', Count(b)')
    BY <1>0, <2>1, CountIsKept
  <2>3. Times(health)' /\ Senders(b)' /\ Earned'
    BY <2>1 DEF Times, Senders, Earned, Monitoring!Keys, Monitoring!Incidents
  <2> QED BY <2>1, <2>2, <2>3, TallyHolds
<1>10. ASSUME NEW d \in Devices, Monitoring(b)!Subscribe(d) PROVE MonitoringInv(b)'
  <2> USE DEF Monitoring!Subscribe
  <2>1. UNCHANGED <<admins, receipts, warned, recovered, reports, clock>>
    BY <1>10
  <2>2. /\ sender' = sender \/ (sender # None /\ sender' = [sender EXCEPT !.former = TRUE])
        /\ sends' \in [Monitoring(b)!Keys -> Nat]
    BY <1>10 DEF Senders, Monitoring!Keys, Monitoring!Incidents
  <2>3. sender' # None => /\ sender # None /\ DOMAIN sender' = {"row", "outcome", "former"}
                          /\ sender'.row = sender.row /\ sender'.outcome = sender.outcome
    BY <2>2 DEF Senders
  <2>4. Tally(b, health, deliveries, subscribed \cup {d}, Count(b)')
    <3>1. CASE d \in subscribed
      <4>1. subscribed \cup {d} = subscribed /\ UNCHANGED <<sends, sender>>
        BY <1>10, <3>1
      <4> QED BY <1>0, <4>1, CountIsKept
    <3>2. CASE d \notin subscribed
      <4>1. sends' = [k \in Monitoring(b)!Keys |-> IF k[1] = d THEN 0 ELSE sends[k]]
        BY <1>10, <3>2
      <4>2. sender # None /\ sender.row.device = d => sender'.former
        BY <1>10, <3>2 DEF Senders
      <4>3. sender = None \/ sender.row.device # d => sender' = sender
        BY <1>10, <3>2
      <4>4. ASSUME NEW k \in Monitoring(b)!Keys
            PROVE  Count(b)'[k] = IF k[1] = d THEN 0 ELSE Count(b)[k]
        <5>1. Count(b)'[k] = sends'[k] + (IF Pending(k)' THEN 1 ELSE 0)
          BY DEF Count, Monitoring!Keys, Monitoring!Incidents
        <5>2. Count(b)[k] = sends[k] + (IF Pending(k) THEN 1 ELSE 0)
          BY DEF Count
        <5>3. CASE k[1] = d
          <6>1. ~Pending(k)'
            BY <2>3, <4>2, <4>3, <5>3 DEF Pending, KeyOf
          <6> QED BY <4>1, <5>1, <5>3, <6>1
        <5>4. CASE k[1] # d
          <6>1. Pending(k)' <=> Pending(k)
            BY <2>3, <4>2, <4>3, <5>4 DEF Pending, KeyOf
          <6> QED BY <4>1, <5>1, <5>2, <5>4, <6>1
        <5> QED BY <5>3, <5>4
      <4>5. \A k \in Monitoring(b)!Keys : Count(b)'[k] \in Nat /\ Count(b)'[k] <= Count(b)[k]
        BY <1>0, <4>4, MonitoringAssumption
      <4>6. Tally(b, health, deliveries, subscribed, Count(b)')
        BY <1>0, <4>5, FewerKeepTally
      <4> QED BY <4>4, <4>6 DEF Tally
    <3> QED BY <3>1, <3>2
  <2>5. /\ Times(health)' /\ subscribed' \subseteq Devices
        /\ Tally(b, health, deliveries, subscribed, Count(b))'
        /\ \A r \in deliveries' : r.kind = "recovery" \/ r.status = "sent" => KeyOf(r) \in warned
    <3>0. subscribed \cup {d} \in SUBSET Devices
      BY DEF Senders
    <3>1. CASE health.enabled /\ health.incident # None
      <4>1. Monitoring(b)!Reconciled(health, subscribed \cup {d})
        BY <1>10, <3>1
      <4>2. Advance(health)
        BY DEF Advance
      <4> QED BY <1>0, <2>1, <2>4, <3>0, <4>1, <4>2, ReconcileKeepsInv
    <3>2. CASE ~(health.enabled /\ health.incident # None)
      <4>1. subscribed' = subscribed \cup {d} /\ UNCHANGED <<health, deliveries>>
        BY <1>10, <3>2
      <4>2. Tally(b, health', deliveries', subscribed', Count(b)')
        BY <2>4, <4>1
      <4> QED BY <2>1, <3>0, <4>1, <4>2, TallyHolds DEF Times, Earned
    <3> QED BY <3>1, <3>2
  <2>6. Senders(b)' /\ Earned'
    BY <2>1, <2>2, <2>3, <2>5 DEF Senders, Earned, Monitoring!Keys, Monitoring!Incidents
  <2> QED BY <2>5, <2>6
<1>11. CASE Monitoring(b)!claim_push_delivery
  <2>1. /\ sender = None /\ UNCHANGED <<health, admins, receipts, sends, warned, recovered, reports, clock>>
    BY <1>11 DEF Monitoring!claim_push_delivery
  <2>2. PICK item \in deliveries :
         IF item.device \notin admins
         THEN Monitoring(b)!delete_subscription(item.device) /\ UNCHANGED sender
         ELSE IF ~Monitoring(b)!delivery_current(item)
         THEN deliveries' = deliveries \ {item} /\ UNCHANGED <<subscribed, sender>>
         ELSE /\ Monitoring(b)!delivery_claimable(item)
              /\ LET taken == [item EXCEPT !.status = "sending", !.attempts = @ + 1, !.claim = Monitoring(b)!newClaim]
                 IN  /\ deliveries' = (deliveries \ {item}) \cup {taken}
                     /\ sender' \in {None, [row |-> taken, outcome |-> None, former |-> FALSE]}
              /\ UNCHANGED subscribed
    BY <1>11 DEF Monitoring!claim_push_delivery
  <2>3. IsDelivery(item)
    BY <1>0
  <2>4. CASE item.device \notin admins
    BY <1>6, <2>1, <2>2, <2>4 DEF Monitoring!delete_subscription
  <2>5. CASE item.device \in admins /\ ~Monitoring(b)!delivery_current(item)
    <3>1. item.kind = "problem" => Over(health, item.incident)
      <4>1. health.issue = "ready" => health.incident = None
        BY DEF Times, Troubles
      <4> QED BY <1>0, <2>5, <4>1 DEF Tally, Times, Monitoring!delivery_current
    <3> QED BY <1>6, <2>1, <2>2, <2>5, <3>1
  <2>6. CASE item.device \in admins /\ Monitoring(b)!delivery_current(item)
    <3> DEFINE taken == [item EXCEPT !.status = "sending", !.attempts = @ + 1, !.claim = Monitoring(b)!newClaim]
    <3>1. /\ item.attempts < MaxAttempts /\ deliveries' = (deliveries \ {item}) \cup {taken}
          /\ sender' \in {None, [row |-> taken, outcome |-> None, former |-> FALSE]} /\ UNCHANGED subscribed
      BY <2>2, <2>6 DEF Monitoring!delivery_claimable
    <3>2. /\ IsDelivery(taken) /\ taken.kind = item.kind /\ taken.device = item.device
          /\ taken.incident = item.incident /\ taken.reason = item.reason
          /\ taken.attempts = item.attempts + 1 /\ taken.status = "sending"
      <4>1. item.attempts + 1 \in 0 .. MaxAttempts
        BY <2>3, <3>1, MonitoringAssumption DEF IsDelivery
      <4> QED BY <2>3, <4>1 DEF IsDelivery
    <3>3. /\ sender' # None => /\ DOMAIN sender' = {"row", "outcome", "former"} /\ sender'.row = taken
                               /\ sender'.outcome = None /\ ~sender'.former
      BY <3>1
    <3> HIDE DEF taken
    <3>4. ASSUME NEW k \in Monitoring(b)!Keys
          PROVE  /\ Count(b)[k] = sends[k]
                 /\ k # KeyOf(item) \/ item.kind = "recovery" => Count(b)'[k] = Count(b)[k]
                 /\ Count(b)'[k] \in {Count(b)[k], Count(b)[k] + 1}
      <4>1. Count(b)'[k] = sends'[k] + (IF Pending(k)' THEN 1 ELSE 0)
        BY DEF Count, Monitoring!Keys, Monitoring!Incidents
      <4>2. Count(b)[k] = sends[k] + (IF Pending(k) THEN 1 ELSE 0)
        BY DEF Count
      <4>3. ~Pending(k) /\ sends[k] \in Nat /\ sends' = sends
        BY <2>1 DEF Pending, Senders
      <4>4. k # KeyOf(item) \/ item.kind = "recovery" => ~Pending(k)'
        BY <3>2, <3>3 DEF Pending, KeyOf
      <4> QED BY <4>1, <4>2, <4>3, <4>4
    <3>5. KeyOf(item) \in Monitoring(b)!Keys /\ item.kind = "problem" => Count(b)[KeyOf(item)] <= item.attempts
      BY <1>0 DEF Tally
    <3>6. ASSUME NEW k \in Monitoring(b)!Keys
          PROVE  /\ Count(b)'[k] \in 0 .. MaxAttempts
                 /\ k # KeyOf(item) => Count(b)'[k] = Count(b)[k]
                 /\ k = KeyOf(item) /\ item.kind = "problem" => Count(b)'[k] <= taken.attempts
      BY <1>0, <2>3, <3>1, <3>2, <3>4, <3>5, MonitoringAssumption DEF IsDelivery
    <3>7. KeyOf(taken) = KeyOf(item)
      BY <3>2 DEF KeyOf
    <3>8. Tally(b, health, deliveries', subscribed', Count(b)')
      BY <1>0, <3>1, <3>2, <3>4, <3>6, <3>7, ChangeKeepsTally DEF IsDelivery
    <3>9. Earned'
      BY <2>1, <2>3, <3>1, <3>2, <3>3, <3>7, MonitoringAssumption DEF Earned
    <3>10. Times(health)' /\ Senders(b)'
      BY <2>1, <3>1, <3>2, <3>3 DEF Times, Senders, Monitoring!Keys, Monitoring!Incidents
    <3> QED BY <2>1, <3>8, <3>9, <3>10, TallyHolds
  <2> QED BY <2>4, <2>5, <2>6
<1>12. CASE Monitoring(b)!sendTicketPush
  <2> DEFINE key == KeyOf(sender.row)
  <2> USE DEF Monitoring!sendTicketPush
  <2>1. PICK delivered \in BOOLEAN, outcome \in Outcomes :
         /\ outcome = "sent" => delivered
         /\ sender' = [sender EXCEPT !.outcome = outcome]
         /\ IF sender.row.kind = "problem"
            THEN /\ sends' = IF sender.former THEN sends ELSE [sends EXCEPT ![key] = @ + 1]
                 /\ warned' = IF delivered THEN warned \cup {key} ELSE warned
                 /\ UNCHANGED recovered
            ELSE /\ recovered' = IF delivered THEN recovered \cup {key} ELSE recovered
                 /\ UNCHANGED <<sends, warned>>
    BY <1>12 DEF Outcomes, Monitoring!Key, KeyOf
  <2>2. sender # None /\ sender.outcome = None /\ UNCHANGED <<health, subscribed, admins, deliveries, receipts, reports, clock>>
    BY <1>12
  <2>3. DOMAIN sender' = {"row", "outcome", "former"} /\ sender'.row = sender.row /\ sender'.outcome = outcome
    BY <2>1, <2>2 DEF Senders
  <2>4. outcome # None
    BY MonitoringAssumption DEF Outcomes
  <2>5. Senders(b)'
    BY <2>1, <2>2, <2>3 DEF Senders, Monitoring!Keys, Monitoring!Incidents
  <2>6. warned \subseteq warned'
    BY <2>1
  <2>7. Earned'
    BY <2>1, <2>2, <2>3, <2>6 DEF Earned, Senders, IsDelivery
  <2>8. ASSUME NEW k \in Monitoring(b)!Keys PROVE Count(b)'[k] = Count(b)[k]
    <3>1. Count(b)'[k] = sends'[k] + (IF Pending(k)' THEN 1 ELSE 0)
      BY DEF Count, Monitoring!Keys, Monitoring!Incidents
    <3>2. Count(b)[k] = sends[k] + (IF Pending(k) THEN 1 ELSE 0)
      BY DEF Count
    <3>3. ~Pending(k)'
      BY <2>3, <2>4 DEF Pending
    <3>4. CASE Pending(k)
      BY <2>1, <3>1, <3>2, <3>3, <3>4 DEF Pending, Senders
    <3>5. CASE ~Pending(k)
      BY <2>1, <2>2, <3>1, <3>2, <3>3, <3>5 DEF Pending, Senders
    <3> QED BY <3>4, <3>5
  <2>9. Tally(b, health', deliveries', subscribed', Count(b)')
    <3>1. \A k \in Monitoring(b)!Keys : Count(b)'[k] \in Nat /\ Count(b)'[k] <= Count(b)[k]
      BY <1>0, <2>8, MonitoringAssumption
    <3> QED BY <1>0, <2>2, <3>1, FewerKeepTally
  <2> QED BY <2>2, <2>5, <2>7, <2>9, TallyHolds DEF Times
<1>13. CASE Monitoring(b)!SenderFinishes \/ Monitoring(b)!ServerStops
  <2> USE DEF Monitoring!SenderFinishes, Monitoring!ServerStops
  <2>1. /\ sender # None /\ sender' = None
        /\ UNCHANGED <<admins, reports, clock, sends, warned, recovered>>
        /\ \A s \in receipts' : s \in receipts \/ (s = sender /\ s.outcome # None)
    BY <1>13
  <2>2. \A k \in Monitoring(b)!Keys : Count(b)'[k] \in Nat /\ Count(b)'[k] <= Count(b)[k]
    <3>1. ASSUME NEW k \in Monitoring(b)!Keys PROVE Count(b)'[k] = sends'[k] + (IF Pending(k)' THEN 1 ELSE 0)
      BY DEF Count, Monitoring!Keys, Monitoring!Incidents
    <3>2. ASSUME NEW k \in Monitoring(b)!Keys PROVE Count(b)[k] = sends[k] + (IF Pending(k) THEN 1 ELSE 0)
      BY DEF Count
    <3> QED BY <2>1, <3>1, <3>2 DEF Pending, Senders
  <2>3. /\ Times(health)' /\ subscribed' \subseteq Devices
        /\ Tally(b, health', deliveries', subscribed', Count(b))
        /\ \A r \in deliveries' : r.kind = "recovery" \/ r.status = "sent" => KeyOf(r) \in warned
    <3>1. CASE UNCHANGED <<health, deliveries, subscribed>>
      BY <1>0, <2>1, <3>1 DEF Times, Senders, Earned
    <3>2. CASE sender.outcome # None /\ Monitoring(b)!finish_push_delivery(sender)
      BY <2>1, <3>2, FinishKeepsInv DEF Senders, Earned
    <3> QED BY <1>13, <3>1, <3>2
  <2>4. Tally(b, health', deliveries', subscribed', Count(b)')
    BY <2>2, <2>3, FewerKeepTally
  <2>5. Senders(b)'
    BY <2>1, <2>3 DEF Senders, Monitoring!Keys, Monitoring!Incidents
  <2>6. Earned'
    BY <2>1, <2>3 DEF Earned
  <2> QED BY <2>1, <2>3, <2>4, <2>5, <2>6, TallyHolds
<1>14. CASE Monitoring(b)!LateReceipt
  <2>1. PICK s \in receipts : /\ Monitoring(b)!finish_push_delivery(s) /\ receipts' = {}
                              /\ UNCHANGED <<admins, sender, reports, clock, sends, warned, recovered>>
    BY <1>14 DEF Monitoring!LateReceipt
  <2>2. /\ Times(health)' /\ subscribed' \subseteq Devices
        /\ Tally(b, health', deliveries', subscribed', Count(b))
        /\ \A r \in deliveries' : r.kind = "recovery" \/ r.status = "sent" => KeyOf(r) \in warned
    BY <2>1, FinishKeepsInv DEF Senders, Earned
  <2>3. Senders(b)' /\ Earned'
    BY <2>1, <2>2 DEF Senders, Earned, Monitoring!Keys, Monitoring!Incidents
  <2> QED BY <2>1, <2>2, <2>3, CountIsKept, TallyHolds
<1> QED BY <1>1, <1>2, <1>4, <1>5, <1>7, <1>8, <1>9, <1>10, <1>11, <1>12, <1>13, <1>14 DEF Monitoring!Next

(* A device is warned of an incident MAX_ATTEMPTS times at most, and told   *)
(* of a recovery only after a warning, for every number of devices, every   *)
(* bound on attempts and whatever the bounds on time, reports, epochs,      *)
(* sessions and subscriptions.                                              *)
THEOREM WarningsAreFair == ServicesSpec => []MonitoringIsFair
<1> DEFINE Inv == \A b \in MonitoringSizes : Monitored(b) => MonitoringInv(b)
<1>1. ServicesInit => Inv
  BY MonitoringInit DEF ServicesInit, Controlled
<1>2. Inv /\ [ServicesNext]_ServicesVars => Inv'
  <2> SUFFICES ASSUME Inv, [ServicesNext]_ServicesVars, NEW b \in MonitoringSizes, Monitored(b)'
               PROVE  MonitoringInv(b)'
    OBVIOUS
  <2>1. Monitored(b) /\ MonitoringInv(b)
    BY DEF ServicesNext, ServicesVars
  <2>2. CASE UNCHANGED monitorVars
    <3> USE <2>1, <2>2 DEF monitorVars
    <3>1. Count(b)' = Count(b)
      BY CountIsKept
    <3>2. Tally(b, health', deliveries', subscribed', Count(b)')
      BY <3>1 DEF MonitoringInv
    <3>3. Tally(b, health, deliveries, subscribed, Count(b))'
      BY <3>2, TallyHolds
    <3>4. Times(health)'
      BY DEF MonitoringInv, Times
    <3>5. Senders(b)'
      BY DEF MonitoringInv, Senders, Monitoring!Keys, Monitoring!Incidents
    <3>6. Earned'
      BY DEF MonitoringInv, Earned
    <3> QED BY <3>3, <3>4, <3>5, <3>6 DEF MonitoringInv
  <2>3. CASE Monitoring(b)!Next
    BY <2>1, <2>3, MonitoringStep
  <2> QED BY <2>1, <2>2, <2>3 DEF ServicesNext, ServicesVars, Controlled
<1>3. Inv => MonitoringIsFair
  <2> SUFFICES ASSUME NEW b \in MonitoringSizes, MonitoringInv(b)
               PROVE  Monitoring(b)!RecoveryIsEarned /\ Monitoring(b)!WarningsAreBounded
    BY DEF MonitoringIsFair
  <2>1. Monitoring(b)!RecoveryIsEarned
    BY DEF MonitoringInv, Earned, Monitoring!RecoveryIsEarned
  <2>2. \A k \in Monitoring(b)!Keys : Count(b)[k] \in 0 .. MaxAttempts /\ sends[k] \in Nat
    BY DEF MonitoringInv, Tally, Senders
  <2>3. \A k \in Monitoring(b)!Keys : Count(b)[k] \in {sends[k], sends[k] + 1}
    BY <2>2 DEF Count
  <2> QED BY <2>1, <2>2, <2>3, MonitoringAssumption DEF Monitoring!WarningsAreBounded
<1> QED BY <1>1, <1>2, <1>3, PTL DEF ServicesSpec

-----------------------------------------------------------------------------
(*                  The phone's account (PhoneControl)                      *)

(* Every session that owns or has owned the row began from an owner that   *)
(* has been superseded since, or from the empty table.                     *)
Succession ==
    /\ \A s \in Sessions : s \in former \/ s = row.session =>
          read[s] \in former \cup {NoSession}
    /\ former # {} => row.session # NoSession

(* A ready row is backed by a published observation of its own session and *)
(* holds exactly that observation's lease.                                 *)
ReadyIsBacked ==
    /\ row.context \in {NoSession, row.session}
    /\ row.ready =>
         /\ row.expiresAt = row.observedAt + TTL
         /\ \E m \in sent : /\ m.session = row.session /\ m.seq = row.seq /\ m.ready
                            /\ m.observedAt = row.observedAt

(* The worker's time of observation is a lower bound of the real one.      *)
LowerBound == \A m \in sent : m.observedAt <= m.captured

(* The inductive invariant.                                                *)
ControlInv == TypeOK /\ NoReclaim /\ Succession /\ ReadyIsBacked /\ LowerBound

USE SessionAssumption, BoundAssumption

-----------------------------------------------------------------------------
(* The empty table satisfies the invariant.                                *)
LEMMA ControlInit == Init => ControlInv
<1> SUFFICES ASSUME Init PROVE ControlInv
  OBVIOUS
<1>1. TypeOK
  BY DEF Init, TypeOK, Row
<1>2. NoReclaim /\ Succession /\ LowerBound
  BY DEF Init, NoReclaim, Succession, LowerBound
<1>3. ReadyIsBacked
  BY DEF Init, ReadyIsBacked
<1> QED  BY <1>1, <1>2, <1>3 DEF ControlInv

(* A session takes the row over: it cannot have owned it before.           *)
LEMMA BeginKeepsControl ==
  ASSUME ControlInv, NEW s \in Sessions, begin_phone_control_session(s)
  PROVE  ControlInv'
<1> USE DEF begin_phone_control_session, OwnerUnchanged, begin_session
<1>1. s \notin former
  BY DEF ControlInv, NoReclaim, Succession
<1>2. TypeOK'
  BY DEF ControlInv, TypeOK, Row
<1>3. NoReclaim'
  BY <1>1 DEF NoReclaim
<1>4. Succession'
  <2>1. read[s] \in former' \cup {NoSession}
    OBVIOUS
  <2>2. row'.session = s /\ s # NoSession
    OBVIOUS
  <2>3. \A t \in Sessions : t \in former' => read[t] \in former' \cup {NoSession}
    BY DEF ControlInv, Succession
  <2> QED  BY <2>1, <2>2, <2>3 DEF Succession
<1>5. ReadyIsBacked' /\ LowerBound'
  BY DEF ControlInv, ReadyIsBacked, LowerBound
<1> QED  BY <1>2, <1>3, <1>4, <1>5 DEF ControlInv

(* An observation is accepted: it is of the owner, and its lease is its    *)
(* own.                                                                    *)
LEMMA PublishKeepsControl ==
  ASSUME ControlInv, NEW m \in sent, publish_phone_control_state(m)
  PROVE  ControlInv'
<1> USE DEF publish_phone_control_state
<1>1. m \in Observation /\ m.session = row.session /\ m.context = m.session
  BY DEF ControlInv, TypeOK, validate_observation
<1>2. TypeOK'
  <2>1. m.observedAt + TTL \in Nat /\ now \in Nat
    BY <1>1 DEF Observation, ControlInv, TypeOK
  <2>2. /\ m.seq \in Nat /\ m.observedAt \in Nat /\ m.context \in Sessions
        /\ m.detail \in BOOLEAN /\ m.ready \in BOOLEAN /\ m.busy \in BOOLEAN
        /\ lane \in BOOLEAN /\ row.session \in Sessions \cup {NoSession}
    BY <1>1 DEF Observation, ControlInv, TypeOK, Row
  <2>3. row' \in Row
    BY <2>1, <2>2 DEF Row, Lease
  <2> QED  BY <2>3 DEF ControlInv, TypeOK
<1>3. row'.session = row.session
  OBVIOUS
<1>4. NoReclaim' /\ Succession' /\ LowerBound'
  BY <1>3 DEF ControlInv, NoReclaim, Succession, LowerBound
<1>5. ReadyIsBacked'
  <2>1. row'.context \in {NoSession, row'.session}
    BY <1>1
  <2>2. ASSUME row'.ready
        PROVE  row'.expiresAt = row'.observedAt + TTL /\ m.ready
    BY <2>2 DEF Lease
  <2>3. row'.seq = m.seq /\ row'.observedAt = m.observedAt /\ m \in sent'
    OBVIOUS
  <2> QED  BY <1>1, <1>3, <2>1, <2>2, <2>3 DEF ReadyIsBacked
<1> QED  BY <1>2, <1>4, <1>5 DEF ControlInv

(* The processes, the lane and the clock leave the row alone.              *)
LEMMA OthersKeepControl ==
  ASSUME ControlInv,
         \/ \E s \in Sessions : ProcessStarts(s)
         \/ \E m \in Readings : Observe(m)
         \/ LaneChanges \/ Tick
  PROVE  ControlInv'
<1>1. ASSUME NEW s \in Sessions, ProcessStarts(s) PROVE ControlInv'
  <2>1. TypeOK'
    BY <1>1 DEF ProcessStarts, ControlInv, TypeOK, Row
  <2>2. Succession'
    BY <1>1 DEF ProcessStarts, ControlInv, TypeOK, Succession
  <2> QED  BY <1>1, <2>1, <2>2 DEF ProcessStarts, ControlInv, NoReclaim, ReadyIsBacked, LowerBound
<1>2. ASSUME NEW m \in Readings, Observe(m) PROVE ControlInv'
  <2>1. m \in Observation
    <3>1. /\ m \in [session : Sessions, context : Sessions, seq : 1..MaxSeq,
                    detail : BOOLEAN, ready : BOOLEAN, busy : BOOLEAN,
                    observedAt : 0..now, captured : {now}]
          /\ now \in Nat
      BY DEF Readings, ControlInv, TypeOK
    <3> QED  BY <3>1 DEF Observation
  <2>2. TypeOK'
    BY <1>2, <2>1 DEF Observe, ControlInv, TypeOK
  <2>3. LowerBound'
    BY <1>2 DEF Observe, ControlInv, LowerBound
  <2>4. ReadyIsBacked'
    BY <1>2 DEF Observe, ControlInv, ReadyIsBacked
  <2> QED  BY <1>2, <2>2, <2>3, <2>4 DEF Observe, ControlInv, NoReclaim, Succession
<1>3. CASE LaneChanges \/ Tick
  <2>1. UNCHANGED <<row, read, sent, former>>
    BY <1>3 DEF LaneChanges, Tick
  <2>2. now' \in Nat
    BY <1>3 DEF LaneChanges, Tick, ControlInv, TypeOK
  <2>3. lane' \in BOOLEAN
    BY <1>3, Zenon DEF LaneChanges, Tick, ControlInv, TypeOK
  <2>4. TypeOK'
    BY <2>1, <2>2, <2>3 DEF ControlInv, TypeOK
  <2> QED  BY <2>1, <2>4 DEF ControlInv, NoReclaim, Succession, ReadyIsBacked, LowerBound
<1> QED  BY <1>1, <1>2, <1>3

(* Every step preserves the invariant.                                     *)
LEMMA ControlStep == ControlInv /\ [Next]_vars => ControlInv'
<1> SUFFICES ASSUME ControlInv, [Next]_vars PROVE ControlInv'
  OBVIOUS
<1>1. CASE UNCHANGED vars
  BY <1>1 DEF vars, ControlInv, TypeOK, NoReclaim, Succession, ReadyIsBacked, LowerBound
<1>2. CASE Next
  BY <1>2, BeginKeepsControl, PublishKeepsControl, OthersKeepControl DEF Next
<1> QED  BY <1>1, <1>2

(* The invariant holds in every reachable state.                           *)
LEMMA ControlInvariance == Spec => []ControlInv
  BY ControlInit, ControlStep, PTL DEF Spec

-----------------------------------------------------------------------------
(* The phone-control row and the worker calls keep their shapes.           *)
THEOREM ControlTypeCorrect == Spec => []TypeOK
<1>1. ControlInv => TypeOK
  BY DEF ControlInv
<1> QED  BY <1>1, ControlInvariance, PTL

(* begin_session: a superseded session never owns the row again.           *)
THEOREM OwnershipIsNotReclaimed == Spec => []NoReclaim
<1>1. ControlInv => NoReclaim
  BY DEF ControlInv
<1> QED  BY <1>1, ControlInvariance, PTL

(* phone_control_ready: readiness for a context means that the current     *)
(* session read that screen, ready, less than TTL ago.                     *)
THEOREM ReadinessIsSound == Spec => []ReadinessIsCurrent
<1>1. ControlInv => ReadinessIsCurrent
  <2> SUFFICES ASSUME ControlInv, NEW c \in Sessions, phone_control_ready(c)
               PROVE  /\ c = row.session /\ c \notin former
                      /\ \E m \in sent : /\ m.session = c /\ m.seq = row.seq /\ m.ready
                                         /\ now < m.captured + TTL
    BY DEF ReadinessIsCurrent
  <2>1. c = row.session /\ c \notin former
    BY DEF phone_control_ready, ControlInv, ReadyIsBacked, NoReclaim
  <2>2. PICK m \in sent : /\ m.session = row.session /\ m.seq = row.seq /\ m.ready
                          /\ m.observedAt = row.observedAt
    BY DEF phone_control_ready, ControlInv, ReadyIsBacked
  <2>3. now < row.observedAt + TTL
    BY DEF phone_control_ready, ControlInv, ReadyIsBacked, TypeOK, Row
  <2>4. m.observedAt <= m.captured /\ m.observedAt \in Nat /\ m.captured \in Nat /\ now \in Nat
    BY DEF ControlInv, LowerBound, TypeOK, Observation
  <2>5. now < m.captured + TTL
    BY <2>2, <2>3, <2>4
  <2> QED  BY <2>1, <2>2, <2>5
<1> QED  BY <1>1, ControlInvariance, PTL

(* Beside the other services the phone's account is what it is alone.      *)
LEMMA ControlAlone == ServicesSpec => Spec
<1>1. ServicesInit => Init
  BY DEF ServicesInit
<1>2. [ServicesNext]_ServicesVars => [Next]_vars
  BY DEF ServicesNext, ServicesVars
<1> QED BY <1>1, <1>2, PTL DEF ServicesSpec, Spec

(* The three together: what a member's request may rely on.                *)
THEOREM ControlSoundness == ServicesSpec => []ControlIsSound
<1>1. TypeOK /\ NoReclaim /\ ReadinessIsCurrent <=> ControlIsSound
  BY DEF ControlIsSound
<1> QED  BY <1>1, ControlAlone, ControlTypeCorrect, OwnershipIsNotReclaimed, ReadinessIsSound, PTL

(* validate_observation: nothing but a newer observation renews a lease.   *)
THEOREM LeaseIsNotRenewed == ServicesSpec => OnlyNewerRenews
<1> DEFINE Renewal == row'.session = row.session =>
                        /\ row'.seq >= row.seq
                        /\ row'.expiresAt > row.expiresAt => row'.seq > row.seq
<1>1. ControlInv /\ [Next]_vars => [Renewal]_vars
  <2> SUFFICES ASSUME ControlInv, Next PROVE Renewal
    OBVIOUS
  <2>1. row.seq \in Nat /\ row.expiresAt \in Nat
    BY DEF ControlInv, TypeOK, Row
  <2>2. ASSUME NEW s \in Sessions, begin_phone_control_session(s) PROVE Renewal
    BY <2>2 DEF begin_phone_control_session, OwnerUnchanged, begin_session
  <2>3. ASSUME NEW m \in sent, publish_phone_control_state(m) PROVE Renewal
    <3>1. row'.seq = m.seq /\ m.seq > row.seq /\ m.seq \in Nat
      BY <2>3 DEF publish_phone_control_state, validate_observation, ControlInv, TypeOK, Observation
    <3> QED  BY <2>1, <3>1
  <2>4. CASE row' = row
    BY <2>1, <2>4
  <2> QED
    BY <2>2, <2>3, <2>4 DEF Next, ProcessStarts, Observe, LaneChanges, Tick
<1> QED  BY <1>1, ControlAlone, ControlInvariance, PTL DEF Spec, OnlyNewerRenews
=============================================================================
