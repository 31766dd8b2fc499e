--------------------------- MODULE PilotSessions ---------------------------
(***************************************************************************)
(* Browser login and sessions of the pilot UI: the routes of               *)
(* pilot_ui/app.py, the login transactions each BFF process keeps in       *)
(* memory (session.py), the sessions all of them share in PostgreSQL       *)
(* (session_postgresql.py and its migration), the MFA policy (oidc/mfa.py) *)
(* and the API's acceptance of the token a session holds.  BFF processes   *)
(* restart, some with a newer MFA policy than others, requests of several  *)
(* browsers are under way at once, and the identity provider is an         *)
(* environment that answers, refuses, or is not there.                     *)
(*                                                                         *)
(* Random values (state, nonce, verifier, browser binding; session id and  *)
(* CSRF token) are drawn together and modelled by one number per draw.     *)
(***************************************************************************)
EXTENDS OidcKeys, Sequences

CONSTANTS
    Bffs,           \* BFF processes
    Browsers,
    Actors,
    CriticalActors, \* actors with a role that requires MFA
    Requests,       \* requests under way
    login_ttl,      \* ttl_seconds of a login transaction, in ticks
    login_capacity, \* capacity of one process's login transactions
    session_ttl,    \* ttl_seconds of a session, in ticks
    expires_in,     \* life of an access token, in ticks
    max_auth_age,   \* oldest MFA the policy accepts, in ticks
    MaxVersion,     \* bound: MFA policy versions deployed
    MaxLogins,      \* bound: logins begun
    MaxSessions     \* bound: sessions created

ASSUME SessionsAssumption ==
    /\ CriticalActors \subseteq Actors
    /\ login_ttl \in Nat \ {0} /\ session_ttl \in Nat \ {0}
    /\ expires_in \in Nat \ {0} /\ max_auth_age \in Nat
    /\ login_capacity \in Nat \ {0}
ASSUME SessionBoundsAssumption ==
    MaxVersion \in Nat \ {0} /\ MaxLogins \in Nat /\ MaxSessions \in Nat

VARIABLES
    logins,    \* BFF -> login transactions in its memory
    begun,     \* logins begun; also the history: login -> browser
    cookies,   \* browser -> its login and session cookies
    sessions,  \* the table browser_sessions, by session number
    version,   \* BFF -> version of the MFA policy it runs with
    request,   \* request -> where it is
    opened,    \* history: login and browser of every session created
    ended,     \* history: sessions logged out, revoked or rejected
    served     \* history: key of the token the API has just accepted

uiVars == <<logins, begun, cookies, sessions, version, opened, ended, served>>
vars == <<now, keyVars, uiVars, request>>

None == 0

Token == [actor: Actors, kid: Kids, expires_at: 0..MaxTime + expires_in,
          auth_time: 0..MaxTime, mfa: BOOLEAN]

Row == [token: Token, expires_at: 0..MaxTime + session_ttl,
        mfa_policy_version: 0..MaxVersion, revoked: BOOLEAN]

Idle == [at |-> "idle"]

Request ==
    {Idle}
    \cup [at: {"exchange"}, bff: Bffs, browser: Browsers, login: 1..MaxLogins]
    \cup [at: {"create"}, bff: Bffs, browser: Browsers, login: 1..MaxLogins,
          token: Token]
    \cup [at: {"forward"}, bff: Bffs, session: 1..MaxSessions]

Min2(a, b) == IF a < b THEN a ELSE b

----------------------------------------------------------------------------
(* LoginTransactionStore: in the memory of one BFF process.                *)

\* _prune: every create and consume drops what has expired.
Pruned(b) == {t \in logins[b] : t.expires_at > now}

\* LoginTransactionStore.create
create_login(b, browser, n) ==
    /\ begun' = Append(begun, browser)
    /\ logins' = [logins EXCEPT ![b] = Pruned(b) \cup
                    {[state |-> n, binding |-> n, expires_at |-> now + login_ttl]}]
    /\ cookies' = [cookies EXCEPT ![browser].login = n]

\* Faulty variant: the capacity is off by one.
login_over_capacity(b, browser) ==
    /\ Len(begun) < MaxLogins
    /\ Cardinality(Pruned(b)) <= login_capacity
    /\ create_login(b, browser, Len(begun) + 1)
    /\ UNCHANGED <<now, keyVars, sessions, version, opened, ended, served, request>>

\* GET /auth/login.  The binding is a cookie of the browser, and a second
\* login in the same browser replaces it.
login(b, browser) ==
    /\ Len(begun) < MaxLogins
    /\ IF Cardinality(Pruned(b)) < login_capacity
       THEN create_login(b, browser, Len(begun) + 1)
       ELSE /\ logins' = [logins EXCEPT ![b] = Pruned(b)]
            /\ UNCHANGED <<begun, cookies>>
    /\ UNCHANGED <<now, keyVars, sessions, version, opened, ended, served, request>>

\* Faulty variant: any browser may return with the state.
matches_state(b, browser, state) == {t \in Pruned(b) : t.state = state}

\* The transaction a callback may consume: its state, not expired, begun by
\* the browser whose cookie comes with it.
Consumable(b, browser, state) ==
    {t \in Pruned(b) : t.state = state /\ t.binding = cookies[browser].login}

\* GET /auth/callback, first part: consume, under the store's lock.
callback(r, b, browser, state) ==
    /\ request[r] = Idle
    /\ LET found == Consumable(b, browser, state) IN
       /\ logins' = [logins EXCEPT ![b] = Pruned(b) \ found]
       /\ request' = [request EXCEPT ![r] =
                        IF found = {} THEN Idle
                        ELSE [at |-> "exchange", bff |-> b,
                              browser |-> browser, login |-> state]]
    /\ UNCHANGED <<now, keyVars, begun, cookies, sessions, version, opened,
                   ended, served>>

\* Second part: the code is exchanged and the ID token, signed just now,
\* is checked.  The user may have authenticated earlier, with or without a
\* second factor: the provider's session says so.
exchange(r, actor, auth_time, mfa) ==
    /\ request[r].at = "exchange"
    /\ request' = [request EXCEPT ![r] =
         [at |-> "create", bff |-> @.bff, browser |-> @.browser, login |-> @.login,
          token |-> [actor |-> actor, kid |-> signing, auth_time |-> auth_time,
                     expires_at |-> now + expires_in, mfa |-> mfa]]]
    /\ UNCHANGED <<now, keyVars, uiVars>>

\* The provider refuses the code or is not there (token endpoint or keys):
\* the transaction is spent all the same.
exchange_fails(r) ==
    /\ request[r].at = "exchange"
    /\ request' = [request EXCEPT ![r] = Idle]
    /\ UNCHANGED <<now, keyVars, uiVars>>

----------------------------------------------------------------------------
(* MfaPolicy and the session table.                                        *)

\* MfaPolicy.require
require_mfa(token) ==
    token.actor \in CriticalActors =>
        /\ token.mfa
        /\ now - token.auth_time <= max_auth_age
        /\ token.auth_time <= now

\* Faulty variant: the longer of the two lifetimes.
longest_expiry == now + (IF session_ttl > expires_in THEN session_ttl ELSE expires_in)

\* The lifetime of a session: its own, or the token's if that is shorter;
\* counted from its creation.
session_expiry == now + Min2(session_ttl, expires_in)

\* The policy version that the claims of the ID token are evidence for.
evidence_from_validated_claims(b, token) == IF token.mfa THEN version[b] ELSE None

\* HttpPilotApiClient.session: the API says who the token is for.
session_identity(token, up) == authenticates(token, up)

\* PostgresSessionStore.create: da_create_browser_session inserts the row.
create(b, token) ==
    sessions' = Append(sessions,
        [token |-> token, expires_at |-> session_expiry,
         mfa_policy_version |-> evidence_from_validated_claims(b, token),
         revoked |-> FALSE])

\* Last part of the callback: the token's identity, the policy, the session.
create_session(r, up) ==
    /\ request[r].at = "create" /\ Len(sessions) < MaxSessions
    /\ LET q == request[r] IN
       /\ get_key(q.token.kid, up)
       /\ request' = [request EXCEPT ![r] = Idle]
       /\ IF session_identity(q.token, up) /\ require_mfa(q.token)
          THEN /\ create(q.bff, q.token)
               /\ cookies' = [cookies EXCEPT ![q.browser] =
                                [login |-> None, session |-> Len(sessions) + 1]]
               /\ opened' = Append(opened, [login |-> q.login, browser |-> q.browser])
          ELSE UNCHANGED <<sessions, cookies, opened>>
    /\ UNCHANGED <<now, published, signing, retired_at, logins, begun, version,
                   ended, served>>

\* Faulty variant: a revoked row is still returned.
stored_unexpired(s) == s \in 1..Len(sessions) /\ sessions[s].expires_at > now

\* da_get_browser_session
Stored(s) ==
    /\ s \in 1..Len(sessions)
    /\ ~sessions[s].revoked
    /\ sessions[s].expires_at > now

\* PostgresSessionStore.get: a critical session of another policy version
\* is refused, and destroyed for every process.
Outdated(b, s) ==
    /\ Stored(s)
    /\ sessions[s].token.actor \in CriticalActors
    /\ sessions[s].mfa_policy_version # version[b]

get_session(b, s) == Stored(s) /\ ~Outdated(b, s)

\* da_revoke_browser_session and da_revoke_actor_sessions
Revoke(revoked) ==
    /\ sessions' = [s \in 1..Len(sessions) |->
                      [sessions[s] EXCEPT !.revoked = @ \/ s \in revoked]]
    /\ ended' = ended \cup revoked

\* PostgresSessionStore.destroy
destroy(s) == Revoke({s})

\* The CSRF token of a session is known to the pages loaded with it.
_require_csrf(s, csrf) == csrf = s

\* POST /auth/logout; the page sends the CSRF token of the session it was
\* loaded with, which may not be the browser's session any more.
logout(b, browser, csrf) ==
    LET s == cookies[browser].session IN
    /\ Stored(s)
    /\ IF get_session(b, s) /\ _require_csrf(s, csrf)
       THEN /\ destroy(s)
            /\ cookies' = [cookies EXCEPT ![browser].session = None]
       ELSE /\ Outdated(b, s) /\ destroy(s)
            /\ UNCHANGED cookies
    /\ UNCHANGED <<now, keyVars, logins, begun, version, opened, served, request>>

\* /bff/api/...: the session is looked up, and the request is about to be
\* forwarded with its token.  An unsafe method needs the session's CSRF
\* token; the other rejections (path, identity override) change nothing.
proxy(r, b, browser, safe, csrf) ==
    LET s == cookies[browser].session IN
    /\ request[r] = Idle /\ Stored(s)
    /\ IF get_session(b, s)
       THEN /\ safe \/ _require_csrf(s, csrf)
            /\ request' = [request EXCEPT ![r] =
                 [at |-> "forward", bff |-> b, session |-> s]]
            /\ UNCHANGED <<sessions, ended>>
       ELSE destroy(s) /\ UNCHANGED request
    /\ UNCHANGED <<now, keyVars, logins, begun, cookies, version, opened, served>>

\* The API authenticates the forwarded token.
forward(r, up) ==
    /\ request[r].at = "forward"
    /\ LET s == request[r].session
           token == sessions[s].token
       IN  /\ get_key(token.kid, up)
           /\ served' = IF authenticates(token, up)
                        THEN {token.kid} ELSE {}
    /\ request' = [request EXCEPT ![r] = Idle]
    /\ UNCHANGED <<now, published, signing, retired_at, logins, begun, cookies,
                   sessions, version, opened, ended>>

----------------------------------------------------------------------------
(* Operators and time.                                                     *)

\* An operator revokes every session of an actor (revoke_actor).
revoke_actor(actor) ==
    /\ \E s \in 1..Len(sessions) : sessions[s].token.actor = actor /\ ~sessions[s].revoked
    /\ Revoke({s \in 1..Len(sessions) : sessions[s].token.actor = actor})
    /\ UNCHANGED <<now, keyVars, logins, begun, cookies, version, opened, served,
                   request>>

\* A BFF process is restarted, perhaps with the next policy version; what it
\* kept in memory, and the requests it was handling, are gone.
restart(b, v) ==
    /\ v \in version[b]..MaxVersion
    /\ logins' = [logins EXCEPT ![b] = {}]
    /\ version' = [version EXCEPT ![b] = v]
    /\ request' = [r \in Requests |-> IF request[r] # Idle /\ request[r].bff = b
                                      THEN Idle ELSE request[r]]
    /\ UNCHANGED <<now, keyVars, begun, cookies, sessions, opened, ended, served>>

Tick ==
    /\ now < MaxTime /\ now' = now + 1 /\ served' = {}
    /\ UNCHANGED <<keyVars, logins, begun, cookies, sessions, version, opened,
                   ended, request>>

----------------------------------------------------------------------------
Init ==
    /\ KeysInit
    /\ logins = [b \in Bffs |-> {}]
    /\ begun = <<>>
    /\ cookies = [w \in Browsers |-> [login |-> None, session |-> None]]
    /\ sessions = <<>>
    /\ version = [b \in Bffs |-> 1]
    /\ request = [r \in Requests |-> Idle]
    /\ opened = <<>>
    /\ ended = {}
    /\ served = {}

Next ==
    \/ \E b \in Bffs, w \in Browsers :
         \/ login(b, w)
         \/ \E csrf \in 1..Len(sessions) : logout(b, w, csrf)
    \/ \E r \in Requests :
         \/ \E b \in Bffs, w \in Browsers :
              \/ \E state \in 1..Len(begun) : callback(r, b, w, state)
              \/ \E safe \in BOOLEAN, csrf \in 1..Len(sessions) :
                   proxy(r, b, w, safe, csrf)
         \/ \E a \in CriticalActors, t \in 0..now, mfa \in BOOLEAN :
              exchange(r, a, t, mfa)
         \/ \E a \in Actors \ CriticalActors : exchange(r, a, now, FALSE)
         \/ exchange_fails(r)
         \/ \E up \in BOOLEAN :
              \/ create_session(r, up)
              \/ forward(r, up)
    \/ \E a \in Actors : revoke_actor(a)
    \/ \E b \in Bffs, v \in 1..MaxVersion : restart(b, v)
    \/ \E k \in Kids : (Publish(k) \/ Retire(k)) /\ UNCHANGED <<uiVars, request>>
    \/ Tick

Spec == Init /\ [][Next]_vars

----------------------------------------------------------------------------
(* Properties.                                                             *)

\* The type of the state: transactions, cookies, session rows and requests
\* hold what the routes and the tables can hold, within their capacities.
TypeOK ==
    /\ KeysTypeOK
    /\ \A b \in Bffs : Cardinality(logins[b]) <= login_capacity
    /\ begun \in Seq(Browsers)
    /\ cookies \in [Browsers -> [login: 0..MaxLogins, session: 0..MaxSessions]]
    /\ sessions \in Seq(Row)
    /\ version \in [Bffs -> 1..MaxVersion]
    /\ request \in [Requests -> Request]
    /\ ended \subseteq 1..Len(sessions)

\* One login transaction opens at most one session, however often and
\* wherever its callback arrives, and only in the browser that began it
\* (consume pops the state under a lock and compares the binding).
LoginOpensOnce ==
    /\ \A i \in 1..Len(opened) : begun[opened[i].login] = opened[i].browser
    /\ \A i, j \in 1..Len(opened) : opened[i].login = opened[j].login => i = j

\* A session that was logged out, revoked, or destroyed because its MFA
\* policy is outdated is not handed to any later request by any process.
EndedStaysEnded ==
    [][\A r \in Requests :
         request[r].at # "forward" /\ request'[r].at = "forward"
            => request'[r].session \notin ended]_vars

\* A request of a critical actor is taken up only with a multi-factor
\* authentication that is younger than the policy's age plus the life of a
\* session (MfaPolicy.require, create and get together), whatever the
\* policy versions of the processes it passed through.
CriticalIsFresh ==
    [][\A r \in Requests :
         request[r].at # "forward" /\ request'[r].at = "forward"
            => LET token == sessions[request'[r].session].token IN
               token.actor \in CriticalActors =>
                   /\ token.mfa
                   /\ now < token.auth_time + max_auth_age
                               + Min2(session_ttl, expires_in)]_vars

\* The API accepts a token only under a key that the provider publishes, or
\* published less than a cache lifetime ago, even when the provider cannot
\* be reached (get and _refresh fail closed).
ServedKeyIsCurrent ==
    \A kid \in served : kid \in published \/ now < retired_at[kid] + cache_ttl
=============================================================================
