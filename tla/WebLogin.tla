------------------------------ MODULE WebLogin ------------------------------
(* Signing in to the web apps of the train and satiksme bots                 *)
(* (shared-go/telegramweb and internal/web/auth.go, server.go).  The server  *)
(* keeps no sessions: a login nonce and a session are signed cookies in the  *)
(* browser, and what it does keep are the counters of the rate limiter and   *)
(* the nonces of consumed test tickets.  A signature is modelled by what it  *)
(* guarantees: a cookie, token or ticket is one that somebody issued.        *)
EXTENDS Naturals, FiniteSets

CONSTANTS Browsers, Users,
          StateTTL,     \* lifetime of a login nonce
          AuthMaxAge,   \* age at which a Telegram login is too old
          SessionTTL,
          Limit, Window,\* the rate limiter of the login requests
          TicketTTL,
          MaxTime, MaxNonces, None

Times == 0 .. MaxTime
Nonces == 1 .. MaxNonces

VARIABLES
    hour,       \* seconds
    nonces,     \* nonce -> the browser that was given it, or None
    cookie,     \* browser -> its login nonce cookie: [nonce, until] or None
    session,    \* browser -> its session cookie: [user, until, nonce] or None
    tokens,     \* ID tokens of Telegram: [user, nonce, at]
    signed,     \* widget payloads and init data of Telegram: [user, at]
    rate,       \* the limiter's entry of a client: [start, count] or None
    attempts,   \* time -> requests the limiter let through
    ticket,     \* the test ticket: expiry, or None
    consumed,   \* rows of test_login_tickets: expiries
    uses        \* time -> accepted uses of the ticket

loginVars == <<hour, nonces, cookie, session, tokens, signed, rate, attempts, ticket, consumed, uses>>

Init ==
    /\ hour = 0
    /\ nonces = [n \in Nonces |-> None]
    /\ cookie = [b \in Browsers |-> None] /\ session = [b \in Browsers |-> None]
    /\ tokens = {} /\ signed = {}
    /\ rate = None /\ attempts = [t \in Times |-> 0]
    /\ ticket = None /\ consumed = {} /\ uses = [t \in Times |-> 0]

\* Mutant: the window is over one second early.
windowIsOverEarly == IF rate = None THEN TRUE ELSE hour + 1 >= rate.start + Window

(* ClientRateLimiter.Allow: a window starts with its first request. *)
windowIsOver == IF rate = None THEN TRUE ELSE hour >= rate.start + Window

Allow ==
    /\ ~windowIsOver => rate.count < Limit
    /\ rate' = IF windowIsOver THEN [start |-> hour, count |-> 1] ELSE [rate EXCEPT !.count = @ + 1]
    /\ attempts' = [attempts EXCEPT ![hour] = @ + 1]

-----------------------------------------------------------------------------
issueLoginNonceCookie(n) == [nonce |-> n, until |-> hour + StateTTL]

(* handleAuthTelegramConfig: a new nonce replaces the browser's. *)
handleAuthTelegramConfig(b) ==
    /\ Allow
    /\ \E n \in Nonces :
        /\ \A m \in Nonces : nonces[m] = None <=> m >= n
        /\ nonces' = [nonces EXCEPT ![n] = b]
        /\ cookie' = [cookie EXCEPT ![b] = issueLoginNonceCookie(n)]
    /\ UNCHANGED <<hour, session, tokens, signed, ticket, consumed, uses>>

(* Telegram signs a user in for the nonce a page passed on. *)
TelegramSignsIn(u, n) ==
    /\ nonces[n] # None
    /\ \A token \in tokens : token.nonce # n
    /\ tokens' = tokens \cup {[user |-> u, nonce |-> n, at |-> hour]}
    /\ UNCHANGED <<hour, nonces, cookie, session, signed, rate, attempts, ticket, consumed, uses>>

(* Telegram signs init data for the mini app or a widget payload. *)
TelegramSigns(u) ==
    /\ signed = {}
    /\ signed' = {[user |-> u, at |-> hour]}
    /\ UNCHANGED <<hour, nonces, cookie, session, tokens, rate, attempts, ticket, consumed, uses>>

verifyTelegramAuthAge(auth) == hour <= auth.at + AuthMaxAge

(* IssueSessionCookie; the login cookie is cleared. *)
IssueSessionCookie(b, user, nonce) ==
    /\ session' = [session EXCEPT ![b] = [user |-> user, until |-> hour + SessionTTL, nonce |-> nonce]]
    /\ cookie' = [cookie EXCEPT ![b] = None]

(* parseLoginNonce, then VerifyIDToken with the nonce of the cookie. *)
\* Mutant: any nonce that was ever issued will do.
AnyNonce(b, token) == cookie[b] # None /\ hour <= cookie[b].until

NonceMatches(b, token) ==
    /\ cookie[b] # None
    /\ hour <= cookie[b].until
    /\ token.nonce = cookie[b].nonce

(* handleAuthTelegramComplete with an ID token. *)
CompleteWithToken(b) ==
    /\ Allow
    /\ \E token \in tokens :
        /\ NonceMatches(b, token)
        /\ verifyTelegramAuthAge(token)
        /\ IssueSessionCookie(b, token.user, token.nonce)
    /\ UNCHANGED <<hour, nonces, tokens, signed, ticket, consumed, uses>>

(* With init data or a widget payload: valid as long as it is fresh. *)
CompleteWithSigned(b) ==
    /\ Allow
    /\ \E auth \in signed :
        /\ verifyTelegramAuthAge(auth)
        /\ IssueSessionCookie(b, auth.user, None)
    /\ UNCHANGED <<hour, nonces, tokens, signed, ticket, consumed, uses>>

(* A login that is refused counts as an attempt. *)
CompleteRefused ==
    /\ Allow
    /\ UNCHANGED <<hour, nonces, cookie, session, tokens, signed, ticket, consumed, uses>>

handleAuthLogout(b) ==
    /\ session[b] # None
    /\ session' = [session EXCEPT ![b] = None]
    /\ cookie' = [cookie EXCEPT ![b] = None]
    /\ UNCHANGED <<hour, nonces, tokens, signed, rate, attempts, ticket, consumed, uses>>

(* MintTestLoginURL, for the one test user. *)
Mint ==
    /\ ticket = None
    /\ ticket' = hour + TicketTTL
    /\ UNCHANGED <<hour, nonces, cookie, session, tokens, signed, rate, attempts, consumed, uses>>

(* Consume accepts a ticket through the second it expires in. *)
ticketIsValid == IF ticket = None THEN FALSE ELSE hour <= ticket

\* Mutant: the store keeps no row.
consumeKeepsNothing ==
    /\ ticket \notin consumed
    /\ consumed' = {t \in consumed : t > hour}

(* ConsumeTestLoginTicket: expired rows are removed, then the nonce is       *)
(* inserted unless it is there.                                              *)
ConsumeTestLoginTicket ==
    /\ ticket \notin {t \in consumed : t > hour}
    /\ consumed' = {t \in consumed : t > hour} \cup {ticket}

handleAuthTest ==
    /\ ticketIsValid
    /\ ConsumeTestLoginTicket
    /\ uses' = [uses EXCEPT ![hour] = @ + 1]
    /\ uses[hour] < 2
    /\ UNCHANGED <<hour, nonces, cookie, session, tokens, signed, rate, attempts, ticket>>

(* Time passes; a browser drops the cookies that are over. *)
Tick ==
    /\ hour < MaxTime
    /\ hour' = hour + 1
    /\ session' = [b \in Browsers |->
                    IF session[b] = None THEN None
                    ELSE IF hour + 1 > session[b].until THEN None ELSE session[b]]
    /\ UNCHANGED <<nonces, cookie, tokens, signed, rate, attempts, ticket, consumed, uses>>

Next ==
    \/ \E b \in Browsers : \/ handleAuthTelegramConfig(b) \/ CompleteWithToken(b)
                           \/ CompleteWithSigned(b) \/ handleAuthLogout(b)
    \/ \E u \in Users : TelegramSigns(u) \/ \E n \in Nonces : TelegramSignsIn(u, n)
    \/ CompleteRefused \/ Mint \/ handleAuthTest \/ Tick

Spec == Init /\ [][Next]_loginVars

-----------------------------------------------------------------------------
(* A session that an ID token opened is in the browser that began that       *)
(* login, whatever other tabs and browsers did meanwhile.                    *)
SessionIsOwn ==
    \A b \in Browsers :
        IF session[b] = None THEN TRUE
        ELSE IF session[b].nonce = None THEN TRUE ELSE nonces[session[b].nonce] = b

Total(f, from, to) ==
    LET sum[t \in Nat] == IF t < from THEN 0 ELSE f[t] + (IF t = 0 THEN 0 ELSE sum[t - 1])
    IN  sum[to]

(* The limiter counts from the first request of a window, so the end of one  *)
(* window and the start of the next may fall together: no span as long as a  *)
(* window lets through twice the limit.  And a test ticket is accepted once  *)
(* (in the second it expires in, the store has already forgotten its row).   *)
LoginLimitsHold ==
    /\ \A t \in Times : t + Window - 1 <= MaxTime =>
        Total(attempts, t, t + Window - 1) < 2 * Limit
    /\ ticket # None => Total([t \in Times |-> IF t < ticket THEN uses[t] ELSE 0], 0, MaxTime) <= 1
=============================================================================
