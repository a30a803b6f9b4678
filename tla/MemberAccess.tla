--------------------------------- MODULE MemberAccess ---------------------------------
(* Who the ticket web server lets in, and whose request may wake the phone               *)
(* (web/server.go, web/session_policy.go): sign-in through the identity provider, with   *)
(* or without an invitation, a signed session cookie that slides, and membership that is *)
(* looked up for every request in a database which may be slow or down, with a cache of  *)
(* the last snapshot in front of it.  Administrators remove members meanwhile.           *)
(*                                                                                       *)
(* A lookup gives up after stateLookupTimeout; its answer is cached when it arrives,     *)
(* stamped with that moment and in whatever order answers arrive.                        *)
EXTENDS Naturals

CONSTANTS Users, Requests,
          CacheAge,      \* stateCacheMaxAge
          LookupTime,    \* stateLookupTimeout
          CookieTTL,     \* effectiveCookieTTL
          MaxTime, MaxChanges,  \* bounds
          None

Kinds == {"page", "fresh", "optional", "callback"}

VARIABLES members,     \* active members in the database
          removed,     \* user -> when it was removed, None if it never was or is back
          invitation,  \* open, or redeemed
          cache,       \* None or [members, at]: cachedState and cachedStateAt
          cookie,      \* user -> None or when the session it holds expires
          flow,        \* user -> None or [invited]: the cookies of a sign-in under way
          request,     \* request -> [pc, user, kind, started, token, found], token the session it came with
          time,
          changes,
          servedLate,  \* history: how long after its removal a user was still served
          wokeLate     \* history: how long after its removal a user still woke the phone

accessVars == <<members, removed, invitation, cache, cookie, flow, request, time, changes, servedLate, wokeLate>>
envVars == <<members, removed, invitation, time, changes>>
requestVars == <<cache, cookie, flow, request, servedLate, wokeLate>>

idleRequest == [pc |-> "idle", user |-> None, kind |-> None, started |-> 0, token |-> None, found |-> None]

Init ==
    /\ members \in SUBSET Users /\ removed = [u \in Users |-> None] /\ invitation = "open"
    /\ cache = None /\ cookie = [u \in Users |-> None] /\ flow = [u \in Users |-> None]
    /\ request = [r \in Requests |-> idleRequest]
    /\ time = 0 /\ changes = 0 /\ servedLate = 0 /\ wokeLate = 0

Larger(a, b) == IF a > b THEN a ELSE b

late(u) == IF u \in members \/ removed[u] = None THEN 0 ELSE time - removed[u]

(* ------------------------------- cookies and cache -------------------------------- *)

IdentityFromRequest(u) == cookie[u] # None /\ time < cookie[u]

\* The session a request came with is replaced once half of its life is over.
refreshServerSessionCookie(u, token) ==
    IF time < token /\ 2 * (token - time) <= CookieTTL THEN [cookie EXCEPT ![u] = time + CookieTTL] ELSE cookie

\* A mutant: an entry is used however old it is.
cacheNeverAges == cache # None

cachedSnapshot == cache # None /\ time - cache.at <= CacheAge

cacheSnapshot(found) == cache' = [members |-> found, at |-> time]

Finish(r) == request' = [request EXCEPT ![r] = idleRequest]

\* The page is served, or the call goes on to its handler.
Serve(u, token) == /\ servedLate' = Larger(servedLate, late(u))
                   /\ cookie' = refreshServerSessionCookie(u, token)

(* ------------------------------------ requests ------------------------------------ *)

\* identifyMemberFromRequest, cachedFirst: the page at once, the phone only after a lookup of its own.
ServeFromCache(r, u) ==
    /\ request[r].pc = "idle" /\ IdentityFromRequest(u)
    /\ cachedSnapshot /\ u \in cache.members
    /\ Serve(u, cookie[u])
    /\ request' = [request EXCEPT ![r] = [idleRequest EXCEPT !.pc = "prewarm", !.user = u, !.started = time]]
    /\ UNCHANGED <<envVars, cache, flow, wokeLate>>

identifyMemberFromRequest(r, u, kind) ==
    /\ request[r].pc = "idle" /\ IdentityFromRequest(u) /\ kind # "callback"
    /\ kind = "page" => ~(cachedSnapshot /\ u \in cache.members)
    /\ request' = [request EXCEPT ![r] = [idleRequest EXCEPT !.pc = "lookup", !.user = u, !.kind = kind,
                                                             !.started = time, !.token = cookie[u]]]
    /\ UNCHANGED <<envVars, cache, cookie, flow, servedLate, wokeLate>>

handleAuthStart(u, invited) ==
    /\ flow[u] = None
    /\ flow' = [flow EXCEPT ![u] = [invited |-> invited /\ invitation = "open"]]
    /\ UNCHANGED <<envVars, cache, cookie, request, servedLate, wokeLate>>

\* handleAuthCallback, and handleAuthSession with a posted token: a member stays one, somebody
\* removed does not come back through an invitation, and an invitation works once.
mayRedeem(u) == u \in members \/ (removed[u] = None /\ invitation = "open")

redeemInvitation(u) == /\ members' = members \cup {u}
                       /\ invitation' = IF u \in members THEN invitation ELSE "redeemed"

handleAuthCallback(r, u) ==
    /\ request[r].pc = "idle" /\ flow[u] # None
    /\ flow' = [flow EXCEPT ![u] = None]
    /\ IF flow[u].invited /\ ~mayRedeem(u)
       THEN UNCHANGED <<members, invitation, request>>
       ELSE /\ IF flow[u].invited THEN redeemInvitation(u) ELSE UNCHANGED <<members, invitation>>
            /\ request' = [request EXCEPT ![r] = [idleRequest EXCEPT !.pc = "lookup", !.user = u,
                                                                     !.kind = "callback", !.started = time]]
    /\ UNCHANGED <<removed, time, changes, cache, cookie, servedLate, wokeLate>>

\* The database answers; the answer is on its way.
Snapshot(r) ==
    /\ request[r].pc \in {"lookup", "prewarm"} /\ request[r].found = None
    /\ request' = [request EXCEPT ![r].found = members]
    /\ UNCHANGED <<envVars, cache, cookie, flow, servedLate, wokeLate>>

\* snapshotWithCache: the answer is cached; the phone of a member's page is woken.
snapshotWithCache(r) ==
    LET u == request[r].user IN
    /\ request[r].pc = "lookup" /\ request[r].found # None
    /\ cacheSnapshot(request[r].found)
    /\ IF u \notin request[r].found THEN UNCHANGED <<cookie, servedLate, wokeLate>>
       ELSE /\ servedLate' = Larger(servedLate, late(u))
            /\ cookie' = IF request[r].kind = "callback" THEN [cookie EXCEPT ![u] = time + CookieTTL]
                         ELSE refreshServerSessionCookie(u, request[r].token)
            /\ wokeLate' = IF request[r].kind = "page" THEN Larger(wokeLate, late(u)) ELSE wokeLate
    /\ Finish(r)
    /\ UNCHANGED <<envVars, flow>>

\* The lookup failed: only a call that does not need fresh state goes on, with what is cached.
LookupFails(r) ==
    LET u == request[r].user IN
    /\ request[r].pc = "lookup"
    /\ IF request[r].kind \in {"page", "optional"} /\ cachedSnapshot /\ u \in cache.members
       THEN Serve(u, request[r].token)
       ELSE UNCHANGED <<cookie, servedLate>>
    /\ Finish(r)
    /\ UNCHANGED <<envVars, cache, flow, wokeLate>>

\* A mutant: the lookup for the phone may be answered by the cache.
prewarmFromCache(r) ==
    LET u == request[r].user IN
    /\ request[r].pc = "prewarm"
    /\ \/ request[r].found # None /\ u \in request[r].found
       \/ cachedSnapshot /\ u \in cache.members
    /\ wokeLate' = Larger(wokeLate, late(u))
    /\ Finish(r)
    /\ UNCHANGED <<envVars, cache, cookie, flow, servedLate>>

prewarmAfterFreshMembership(r) ==
    LET u == request[r].user IN
    /\ request[r].pc = "prewarm" /\ request[r].found # None
    /\ wokeLate' = IF u \in request[r].found THEN Larger(wokeLate, late(u)) ELSE wokeLate
    /\ Finish(r)
    /\ UNCHANGED <<envVars, cache, cookie, flow, servedLate>>

PrewarmFails(r) ==
    /\ request[r].pc = "prewarm" /\ Finish(r)
    /\ UNCHANGED <<envVars, cache, cookie, flow, servedLate, wokeLate>>

handleAuthLogout(u) ==
    /\ cookie[u] # None /\ cookie' = [cookie EXCEPT ![u] = None]
    /\ UNCHANGED <<envVars, cache, flow, request, servedLate, wokeLate>>

(* ---------------------------------- environment ----------------------------------- *)

handleAdminMembers(u) ==
    /\ changes < MaxChanges /\ u \notin members
    /\ changes' = changes + 1
    /\ members' = members \cup {u} /\ removed' = [removed EXCEPT ![u] = None]
    /\ UNCHANGED <<invitation, time, requestVars>>

removeAdminMember(u) ==
    /\ changes < MaxChanges /\ u \in members
    /\ changes' = changes + 1
    /\ members' = members \ {u} /\ removed' = [removed EXCEPT ![u] = time]
    /\ UNCHANGED <<invitation, time, requestVars>>

Tick ==
    /\ time < MaxTime
    /\ \A r \in Requests : request[r].pc # "idle" => time - request[r].started < LookupTime
    /\ time' = time + 1
    /\ UNCHANGED <<members, removed, invitation, changes, requestVars>>

Next ==
    \/ \E r \in Requests, u \in Users :
           ServeFromCache(r, u) \/ handleAuthCallback(r, u) \/ \E k \in Kinds : identifyMemberFromRequest(r, u, k)
    \/ \E r \in Requests : \/ Snapshot(r) \/ snapshotWithCache(r) \/ LookupFails(r)
                           \/ prewarmAfterFreshMembership(r) \/ PrewarmFails(r)
    \/ \E u \in Users : \/ handleAuthLogout(u) \/ handleAdminMembers(u) \/ removeAdminMember(u)
                        \/ \E i \in BOOLEAN : handleAuthStart(u, i)
    \/ Tick

Spec == Init /\ [][Next]_accessVars

(* Somebody removed is served no longer than one lookup and one life of a cache entry    *)
(* afterwards, whatever order snapshots arrive in and however often the session slides;  *)
(* and wakes the phone only on a lookup that was already under way when it was removed.  *)
RemovedMemberIsShutOut == servedLate <= LookupTime + CacheAge /\ wokeLate <= LookupTime
=======================================================================================
