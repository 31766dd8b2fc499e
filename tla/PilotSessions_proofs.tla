------------------------ MODULE PilotSessions_proofs ------------------------
(***************************************************************************)
(* Proofs about login, sessions and keys of the pilot UI, for any number   *)
(* of BFF processes, browsers, actors, keys and requests under way, any    *)
(* lifetimes and any capacity.                                             *)
(***************************************************************************)
EXTENDS PilotSessions, FiniteSetTheorems, TLAPS

Login == [state: Nat, binding: Nat, expires_at: Nat]

\* Types, also of what TypeOK leaves open: the transactions, the history, and
\* that the counters keep within their bounds.
LoginsType ==
    /\ logins \in [Bffs -> SUBSET Login]
    /\ \A b \in Bffs : IsFiniteSet(logins[b]) /\ Cardinality(logins[b]) <= login_capacity
    /\ begun \in Seq(Browsers) /\ Len(begun) <= MaxLogins
CookiesType == cookies \in [Browsers -> [login: 0..MaxLogins, session: 0..MaxSessions]]
SessionsType ==
    /\ sessions \in Seq(Row) /\ Len(sessions) <= MaxSessions
    /\ opened \in Seq([login: Nat, browser: Browsers])
    /\ ended \subseteq 1..Len(sessions)
    /\ version \in [Bffs -> 1..MaxVersion]
RequestType ==
    /\ request \in [Requests -> Request]
    /\ \A r \in Requests : request[r].at = "forward" => request[r].session \in 1..Len(sessions)
TypeInv == KeysTypeOK /\ LoginsType /\ CookiesType /\ SessionsType /\ RequestType

\* A key the API holds is published, or the cache expires within a lifetime of
\* the key's retirement.
KeysInv ==
    /\ served \subseteq Kids
    /\ cache.expires_at <= now + cache_ttl
    /\ \A k \in cache.keys : k \in published \/ cache.expires_at <= retired_at[k] + cache_ttl
    /\ ServedKeyIsCurrent

\* What has ended is revoked in the table, and the lifetime of a critical
\* session counts from a recent MFA.
SessionsInv ==
    /\ \A s \in ended : sessions[s].revoked
    /\ \A s \in 1..Len(sessions) : sessions[s].token.actor \in CriticalActors =>
         /\ sessions[s].token.mfa
         /\ sessions[s].expires_at <= sessions[s].token.auth_time + max_auth_age
                                        + Min2(session_ttl, expires_in)

\* A callback that is under way with a consumed transaction.
Consumed(r) == request[r].at \in {"exchange", "create"}

\* Bindings are known to the browser that began the login only.
BindingInv ==
    /\ \A b \in Bffs : \A t \in logins[b] : t.binding = t.state /\ t.state \in 1..Len(begun)
    /\ \A w \in Browsers : cookies[w].login # None =>
         cookies[w].login \in 1..Len(begun) /\ begun[cookies[w].login] = w
    /\ \A r \in Requests : Consumed(r) =>
         request[r].login \in 1..Len(begun) /\ begun[request[r].login] = request[r].browser
    /\ \A i \in 1..Len(opened) :
         opened[i].login \in 1..Len(begun) /\ begun[opened[i].login] = opened[i].browser

\* A login is in one place: the memory of one process, one callback, or one
\* session.
OnceInv ==
    /\ \A b, c \in Bffs : \A t \in logins[b], u \in logins[c] : t.state = u.state => b = c
    /\ \A b \in Bffs : \A t \in logins[b] :
         /\ \A r \in Requests : Consumed(r) => request[r].login # t.state
         /\ \A i \in 1..Len(opened) : opened[i].login # t.state
    /\ \A r \in Requests : Consumed(r) =>
         /\ \A q \in Requests : Consumed(q) /\ request[q].login = request[r].login => q = r
         /\ \A i \in 1..Len(opened) : opened[i].login # request[r].login
    /\ \A i, j \in 1..Len(opened) : opened[i].login = opened[j].login => i = j

IInv == TypeInv /\ KeysInv /\ SessionsInv /\ BindingInv /\ OnceInv

-----------------------------------------------------------------------------
(* Operators of the model. *)

\* The fields of a request, by where it is.
LEMMA RequestFields ==
    ASSUME NEW q \in Request
    PROVE  /\ q.at \in {"idle", "exchange", "create", "forward"}
           /\ q.at = "idle" => q = Idle
           /\ q.at \in {"exchange", "create"} =>
                q.bff \in Bffs /\ q.browser \in Browsers /\ q.login \in 1..MaxLogins
           /\ q.at = "create" => q.token \in Token
           /\ q.at = "forward" => q.bff \in Bffs /\ q.session \in 1..MaxSessions
BY DEF Request, Idle

\* get_key keeps the cache within its type and its promise, and a key that is
\* found is current.
LEMMA KeyLookup ==
    ASSUME KeysTypeOK, KeysInv, NEW kid \in Kids, NEW up \in BOOLEAN
    PROVE  /\ CacheAfter(kid, up) \in [keys: SUBSET Kids, expires_at: 0..MaxTime + cache_ttl]
           /\ CacheAfter(kid, up).expires_at <= now + cache_ttl
           /\ \A k \in CacheAfter(kid, up).keys :
                k \in published \/ CacheAfter(kid, up).expires_at <= retired_at[k] + cache_ttl
           /\ KeyFound(kid, up) => kid \in published \/ now < retired_at[kid] + cache_ttl
<1>1. /\ now \in 0..MaxTime /\ MaxTime \in Nat /\ cache_ttl \in Nat /\ published \in SUBSET Kids
      /\ cache \in [keys: SUBSET Kids, expires_at: 0..MaxTime + cache_ttl]
      /\ retired_at[kid] \in Int
  BY TimesAssumption DEF KeysTypeOK, Never
<1>2. CASE MustRefresh(kid) /\ RefreshSucceeds(up)
  <2>1. /\ CacheAfter(kid, up).keys = published \ EncryptionKids
        /\ CacheAfter(kid, up).expires_at = now + cache_ttl
        /\ CacheAfter(kid, up)
             = [keys |-> published \ EncryptionKids, expires_at |-> now + cache_ttl]
    BY <1>2 DEF CacheAfter, Refreshed, Document
  <2> QED
    BY <1>1, <2>1 DEF KeyFound
<1>3. CASE ~(MustRefresh(kid) /\ RefreshSucceeds(up))
  <2>1. CacheAfter(kid, up) = cache
    BY <1>3 DEF CacheAfter
  <2>2. KeyFound(kid, up) => now < cache.expires_at /\ kid \in cache.keys
    BY <1>1, <1>3, <2>1 DEF KeyFound, MustRefresh
  <2>3. KeyFound(kid, up) => kid \in published \/ now < retired_at[kid] + cache_ttl
    BY <1>1, <2>2 DEF KeysInv
  <2> QED
    BY <1>1, <2>1, <2>3 DEF KeysInv
<1> QED
  BY <1>2, <1>3

\* The transactions of a process that have not expired.
LEMMA PrunedFacts ==
    ASSUME LoginsType, NEW b \in Bffs
    PROVE  /\ Pruned(b) \subseteq logins[b] /\ Pruned(b) \in SUBSET Login
           /\ \A S \in SUBSET Pruned(b) :
                IsFiniteSet(S) /\ Cardinality(S) \in Nat /\ Cardinality(S) <= login_capacity
<1>1. /\ Pruned(b) \subseteq logins[b] /\ IsFiniteSet(logins[b]) /\ logins[b] \in SUBSET Login
      /\ Cardinality(logins[b]) \in Nat /\ Cardinality(logins[b]) <= login_capacity
  BY FS_CardinalityType DEF Pruned, LoginsType
<1>2. ASSUME NEW S \in SUBSET Pruned(b)
      PROVE  IsFiniteSet(S) /\ Cardinality(S) \in Nat /\ Cardinality(S) <= login_capacity
  <2>1. IsFiniteSet(S) /\ Cardinality(S) <= Cardinality(logins[b])
    BY <1>1, FS_Subset
  <2>2. Cardinality(S) \in Nat
    BY <2>1, FS_CardinalityType
  <2> QED
    BY <1>1, <2>1, <2>2, SessionsAssumption
<1> QED
  BY <1>1, <1>2

\* A new set of transactions for one process.
LEMMA LoginsTyped ==
    ASSUME LoginsType, NEW b \in Bffs, NEW S \in SUBSET Login, logins' = [logins EXCEPT ![b] = S],
           IsFiniteSet(S), Cardinality(S) <= login_capacity,
           begun' \in Seq(Browsers), Len(begun') <= MaxLogins
    PROVE  LoginsType'
<1>1. logins \in [Bffs -> SUBSET Login]
  BY DEF LoginsType
<1>2. logins' \in [Bffs -> SUBSET Login] /\ logins'[b] = S
      /\ \A c \in Bffs : c # b => logins'[c] = logins[c]
  BY <1>1
<1>3. ASSUME NEW c \in Bffs PROVE IsFiniteSet(logins'[c]) /\ Cardinality(logins'[c]) <= login_capacity
  BY <1>2 DEF LoginsType
<1> QED
  BY <1>2, <1>3 DEF LoginsType

-----------------------------------------------------------------------------
(* What a step leaves alone. *)

\* What leaves keys and caches alone leaves KeysInv alone.
LEMMA KeysSame ==
    ASSUME KeysTypeOK, KeysInv, UNCHANGED <<now, keyVars, served>>
    PROVE  KeysTypeOK' /\ KeysInv'
BY DEF KeysTypeOK, KeysInv, ServedKeyIsCurrent, keyVars

\* What leaves the stored sessions alone leaves SessionsInv alone.
LEMMA SessionsSame ==
    ASSUME SessionsType, SessionsInv, UNCHANGED <<sessions, opened, ended, version>>
    PROVE  SessionsType' /\ SessionsInv'
BY DEF SessionsType, SessionsInv

\* A request under way stays typed when sessions are only added.
LEMMA RequestSame ==
    ASSUME RequestType, UNCHANGED request, Len(sessions) <= Len(sessions'),
           Len(sessions) \in Nat, Len(sessions') \in Nat
    PROVE  RequestType'
BY DEF RequestType

\* Requests may fall back to idle and the processes forget logins: what is
\* left is in one place as before.
LEMMA LoginsForgotten ==
    ASSUME BindingInv, OnceInv, UNCHANGED <<begun, opened>>,
           \A w \in Browsers : cookies'[w].login \in {None, cookies[w].login},
           \A b \in Bffs : logins'[b] \subseteq logins[b],
           \A r \in Requests : request'[r] = request[r] \/ ~Consumed(r)'
    PROVE  BindingInv' /\ OnceInv'
<1>1. \A r \in Requests : Consumed(r)' => Consumed(r) /\ request'[r] = request[r]
  BY DEF Consumed
<1>2. BindingInv'
  BY <1>1 DEF BindingInv
<1>3. OnceInv'
  BY <1>1 DEF OnceInv
<1> QED
  BY <1>2, <1>3

\* A request that is set to a value of its type.
LEMMA RequestTyped ==
    ASSUME RequestType, NEW r \in Requests, NEW q \in Request,
           request' = [request EXCEPT ![r] = q],
           Len(sessions) \in Nat, Len(sessions') \in Nat, Len(sessions) <= Len(sessions'),
           q.at = "forward" => q.session \in 1..Len(sessions')
    PROVE  /\ RequestType' /\ request'[r] = q
           /\ \A p \in Requests : p # r => request'[p] = request[p]
<1>1. /\ request \in [Requests -> Request] /\ request' \in [Requests -> Request] /\ request'[r] = q
      /\ \A p \in Requests : p # r => request'[p] = request[p]
  BY DEF RequestType
<1>2. ASSUME NEW p \in Requests, request'[p].at = "forward"
      PROVE  request'[p].session \in 1..Len(sessions')
  BY <1>1, <1>2 DEF RequestType
<1> QED
  BY <1>1, <1>2 DEF RequestType

-----------------------------------------------------------------------------
(* The actions. *)

\* GET /auth/login: the number of the new login is not in use anywhere.
LEMMA LoginKeeps ==
    ASSUME IInv, NEW b \in Bffs, NEW w \in Browsers, login(b, w)
    PROVE  IInv'
<1>1. /\ TypeInv /\ KeysInv /\ SessionsInv /\ BindingInv /\ OnceInv
      /\ UNCHANGED <<now, keyVars, sessions, version, opened, ended, served, request>>
      /\ Len(begun) < MaxLogins
  BY DEF IInv, login
<1>2. /\ begun \in Seq(Browsers) /\ Len(begun) \in Nat /\ MaxLogins \in Nat /\ now \in Nat
      /\ sessions \in Seq(Row) /\ Len(sessions) \in Nat
  BY <1>1, TimesAssumption, SessionBoundsAssumption
     DEF TypeInv, LoginsType, SessionsType, KeysTypeOK
<1>3. /\ Pruned(b) \subseteq logins[b] /\ Pruned(b) \in SUBSET Login
      /\ IsFiniteSet(Pruned(b)) /\ Cardinality(Pruned(b)) \in Nat
      /\ Cardinality(Pruned(b)) <= login_capacity
  BY <1>1, PrunedFacts DEF TypeInv
<1>4. KeysTypeOK' /\ KeysInv' /\ SessionsType' /\ SessionsInv' /\ RequestType'
  BY <1>1, <1>2, KeysSame, SessionsSame, RequestSame DEF TypeInv
<1>5. CASE Cardinality(Pruned(b)) < login_capacity
  <2> DEFINE n == Len(begun) + 1
             t == [state |-> n, binding |-> n, expires_at |-> now + login_ttl]
             S == Pruned(b) \cup {t}
  <2>1. /\ begun' = Append(begun, w) /\ logins' = [logins EXCEPT ![b] = S]
        /\ cookies' = [cookies EXCEPT ![w].login = n]
    BY <1>5 DEF login, create_login
  <2>2. t \in Login /\ t.state = n /\ t.binding = n
    BY <1>2, SessionsAssumption DEF Login
  <2>3. n \in 1..MaxLogins /\ n = Len(begun) + 1
    BY <1>1, <1>2
  <2> HIDE DEF t
  <2>4. IsFiniteSet(S) /\ Cardinality(S) <= login_capacity
    <3>1. IsFiniteSet(S) /\ (Cardinality(S) = Cardinality(Pruned(b))
                               \/ Cardinality(S) = Cardinality(Pruned(b)) + 1)
      BY <1>3, FS_AddElement
    <3>2. login_capacity \in Nat
      BY SessionsAssumption
    <3> QED
      BY <1>3, <1>5, <3>1, <3>2
  <2>5. /\ begun' \in Seq(Browsers) /\ Len(begun') = n /\ begun'[n] = w
        /\ \A i \in 1..Len(begun) : begun'[i] = begun[i]
    BY <1>2, <2>1, <2>3
  <2>6. LoginsType'
    <3>1. /\ LoginsType /\ S \in SUBSET Login /\ logins' = [logins EXCEPT ![b] = S]
          /\ begun' \in Seq(Browsers) /\ Len(begun') <= MaxLogins
      BY <1>1, <1>2, <1>3, <2>1, <2>2, <2>3, <2>5 DEF TypeInv
    <3> HIDE DEF S, n
    <3> QED
      BY <2>4, <3>1, LoginsTyped
  <2>7. /\ CookiesType' /\ cookies'[w].login = n
        /\ \A v \in Browsers : v # w => cookies'[v] = cookies[v]
    BY <1>1, <2>1, <2>3 DEF TypeInv, CookiesType
  <2>8. /\ logins'[b] = S /\ \A c \in Bffs : c # b => logins'[c] = logins[c]
    BY <1>1, <2>1 DEF TypeInv, LoginsType
  <2>9. \A c \in Bffs : \A u \in logins'[c] : (u \in logins[c]) \/ (c = b /\ u = t)
    BY <1>3, <2>8
  <2> HIDE DEF n, S
  <2>10. BindingInv'
    <3>1. \A i \in 1..Len(begun) : i \in 1..Len(begun')
      BY <1>2, <2>3, <2>5
    <3>2. n \in 1..Len(begun')
      BY <2>3, <2>5
    <3>3. \A c \in Bffs : \A u \in logins'[c] : u.binding = u.state /\ u.state \in 1..Len(begun')
      BY <1>1, <2>2, <2>9, <3>1, <3>2 DEF BindingInv
    <3>4. \A v \in Browsers : cookies'[v].login # None =>
            cookies'[v].login \in 1..Len(begun') /\ begun'[cookies'[v].login] = v
      BY <1>1, <2>5, <2>7, <3>1, <3>2 DEF BindingInv
    <3>5. \A r \in Requests : Consumed(r) =>
            request[r].login \in 1..Len(begun') /\ begun'[request[r].login] = request[r].browser
      BY <1>1, <2>5, <3>1 DEF BindingInv
    <3>6. \A i \in 1..Len(opened) :
            opened[i].login \in 1..Len(begun') /\ begun'[opened[i].login] = opened[i].browser
      BY <1>1, <2>5, <3>1 DEF BindingInv
    <3> QED
      BY <1>1, <3>3, <3>4, <3>5, <3>6 DEF BindingInv, Consumed
  <2>11. OnceInv'
    <3>1. \A i \in 1..Len(begun) : i # n
      BY <1>2, <2>3
    <3>2. /\ \A c \in Bffs : \A u \in logins[c] : u.state # n
          /\ \A r \in Requests : Consumed(r) => request[r].login # n
          /\ \A i \in 1..Len(opened) : opened[i].login # n
      BY <1>1, <3>1 DEF BindingInv
    <3>3. \A c, d \in Bffs : \A u \in logins'[c], v \in logins'[d] : u.state = v.state => c = d
      BY <1>1, <2>2, <2>9, <3>2 DEF OnceInv
    <3>4. \A c \in Bffs : \A u \in logins'[c] :
            /\ \A r \in Requests : Consumed(r) => request[r].login # u.state
            /\ \A i \in 1..Len(opened) : opened[i].login # u.state
      BY <1>1, <2>2, <2>9, <3>2 DEF OnceInv
    <3> QED
      BY <1>1, <3>3, <3>4 DEF OnceInv, Consumed
  <2> QED
    BY <1>4, <2>6, <2>7, <2>10, <2>11 DEF IInv, TypeInv
<1>6. CASE ~(Cardinality(Pruned(b)) < login_capacity)
  <2>1. logins' = [logins EXCEPT ![b] = Pruned(b)] /\ UNCHANGED <<begun, cookies>>
    BY <1>6 DEF login
  <2>2. LoginsType'
    BY <1>1, <1>2, <1>3, <2>1, LoginsTyped DEF TypeInv, LoginsType
  <2>3. \A c \in Bffs : logins'[c] \subseteq logins[c]
    BY <1>1, <1>3, <2>1 DEF TypeInv, LoginsType
  <2>4. CookiesType' /\ BindingInv' /\ OnceInv'
    BY <1>1, <2>1, <2>3, LoginsForgotten DEF TypeInv, CookiesType
  <2> QED
    BY <1>4, <2>2, <2>4 DEF IInv, TypeInv
<1> QED
  BY <1>5, <1>6

\* GET /auth/callback: the transaction leaves the process's memory in the step
\* in which the callback gets hold of it.
LEMMA CallbackKeeps ==
    ASSUME IInv, NEW r \in Requests, NEW b \in Bffs, NEW w \in Browsers,
           NEW state \in 1..Len(begun), callback(r, b, w, state)
    PROVE  IInv'
<1> DEFINE found == Consumable(b, w, state)
           S == Pruned(b) \ found
           q == [at |-> "exchange", bff |-> b, browser |-> w, login |-> state]
<1>1. /\ TypeInv /\ KeysInv /\ SessionsInv /\ BindingInv /\ OnceInv
      /\ UNCHANGED <<now, keyVars, begun, cookies, sessions, version, opened, ended, served>>
      /\ request[r] = Idle /\ logins' = [logins EXCEPT ![b] = S]
      /\ request' = [request EXCEPT ![r] = IF found = {} THEN Idle ELSE q]
  BY DEF IInv, callback
<1>2. /\ begun \in Seq(Browsers) /\ Len(begun) \in Nat /\ MaxLogins \in Nat /\ Len(begun) <= MaxLogins
      /\ sessions \in Seq(Row) /\ Len(sessions) \in Nat
  BY <1>1, SessionBoundsAssumption DEF TypeInv, LoginsType, SessionsType
<1>3. /\ Pruned(b) \subseteq logins[b] /\ S \in SUBSET Login /\ S \subseteq logins[b]
      /\ IsFiniteSet(S) /\ Cardinality(S) <= login_capacity
  BY <1>1, PrunedFacts DEF TypeInv
<1>4. KeysTypeOK' /\ KeysInv' /\ SessionsType' /\ SessionsInv' /\ CookiesType'
  BY <1>1, KeysSame, SessionsSame DEF TypeInv, CookiesType
<1>5. LoginsType'
  BY <1>1, <1>2, <1>3, LoginsTyped DEF TypeInv
<1>6. /\ logins'[b] = S /\ \A c \in Bffs : c # b => logins'[c] = logins[c]
  BY <1>1 DEF TypeInv, LoginsType
<1>7. CASE found = {}
  <2>1. request' = [request EXCEPT ![r] = Idle]
    BY <1>1, <1>7
  <2>2. UNCHANGED request
    BY <1>1, <2>1 DEF TypeInv, RequestType
  <2>3. \A c \in Bffs : logins'[c] \subseteq logins[c]
    BY <1>3, <1>6
  <2>4. RequestType' /\ BindingInv' /\ OnceInv'
    BY <1>1, <1>2, <2>2, <2>3, RequestSame, LoginsForgotten DEF TypeInv
  <2> QED
    BY <1>4, <1>5, <2>4 DEF IInv, TypeInv
<1>8. CASE found # {}
  <2>1. request' = [request EXCEPT ![r] = q]
    BY <1>1, <1>8
  <2>2. q \in Request /\ q.at = "exchange" /\ q.browser = w /\ q.login = state
    BY <1>2 DEF Request
  <2> HIDE DEF q
  <2>3. /\ RequestType' /\ request'[r] = q
        /\ \A p \in Requests : p # r => request'[p] = request[p]
    BY <1>1, <1>2, <2>1, <2>2, RequestTyped DEF TypeInv
  <2>4. PICK t \in Pruned(b) : t.state = state /\ t.binding = cookies[w].login
    BY <1>8 DEF Consumable
  <2>5. t \in logins[b] /\ t.binding = state /\ cookies[w].login = state
    BY <1>1, <1>3, <2>4 DEF BindingInv
  <2>6. state # None /\ begun[state] = w
    BY <1>1, <2>5 DEF BindingInv, None
  <2>7. \A c \in Bffs : \A u \in logins'[c] : u \in logins[c] /\ u.state # state
    <3>1. ASSUME NEW u \in S PROVE u \in logins[b] /\ u.state # state
      <4>1. u \in Pruned(b) /\ u \notin found /\ u \in logins[b]
        BY <1>3
      <4>2. u.binding = u.state
        BY <1>1, <4>1 DEF BindingInv
      <4> QED
        BY <2>5, <4>1, <4>2 DEF Consumable
    <3>2. ASSUME NEW c \in Bffs, c # b, NEW u \in logins[c] PROVE u.state # state
      BY <1>1, <2>4, <2>5, <3>2 DEF OnceInv
    <3> HIDE DEF S
    <3> QED
      BY <1>6, <3>1, <3>2
  <2>8. ~Consumed(r) /\ \A p \in Requests : p # r => (Consumed(p)' <=> Consumed(p))
    BY <1>1, <2>3 DEF Consumed, Idle
  <2>9. BindingInv'
    <3>1. ASSUME NEW p \in Requests, Consumed(p)'
          PROVE  request'[p].login \in 1..Len(begun) /\ begun[request'[p].login] = request'[p].browser
      BY <1>1, <2>2, <2>3, <2>6, <2>8, <3>1 DEF BindingInv
    <3> QED
      BY <1>1, <2>7, <3>1 DEF BindingInv
  <2>10. OnceInv'
    <3>1. /\ \A p \in Requests : Consumed(p) => request[p].login # state
          /\ \A i \in 1..Len(opened) : opened[i].login # state
      BY <1>1, <2>4, <2>5 DEF OnceInv
    <3>2. \A c, d \in Bffs : \A u \in logins'[c], v \in logins'[d] : u.state = v.state => c = d
      BY <1>1, <2>7 DEF OnceInv
    <3>3. ASSUME NEW p \in Requests, Consumed(p)'
          PROVE  /\ \A c \in Bffs : \A u \in logins'[c] : request'[p].login # u.state
                 /\ \A i \in 1..Len(opened) : opened[i].login # request'[p].login
      BY <1>1, <2>2, <2>3, <2>7, <2>8, <3>1, <3>3 DEF OnceInv
    <3>4. ASSUME NEW p \in Requests, Consumed(p)', NEW o \in Requests, Consumed(o)',
                 request'[o].login = request'[p].login
          PROVE  o = p
      BY <1>1, <2>2, <2>3, <2>8, <3>1, <3>4 DEF OnceInv
    <3> QED
      BY <1>1, <2>7, <3>2, <3>3, <3>4 DEF OnceInv
  <2> QED
    BY <1>4, <1>5, <2>3, <2>9, <2>10 DEF IInv, TypeInv
<1> QED
  BY <1>7, <1>8

\* The token exchange: the callback goes on with the same login.
LEMMA ExchangeKeeps ==
    ASSUME IInv, NEW r \in Requests, NEW a \in Actors, NEW at \in 0..now, NEW mfa \in BOOLEAN,
           exchange(r, a, at, mfa)
    PROVE  IInv'
<1> DEFINE token == [actor |-> a, kid |-> signing, auth_time |-> at,
                     expires_at |-> now + expires_in, mfa |-> mfa]
           q == [at |-> "create", bff |-> request[r].bff, browser |-> request[r].browser,
                 login |-> request[r].login, token |-> token]
<1>1. /\ TypeInv /\ KeysInv /\ SessionsInv /\ BindingInv /\ OnceInv
      /\ UNCHANGED <<now, keyVars, uiVars>>
      /\ request[r].at = "exchange"
  BY DEF IInv, exchange
<1>2. request' = [request EXCEPT ![r] = q]
  <2>1. request \in [Requests -> Request] /\ r \in DOMAIN request
    BY <1>1 DEF TypeInv, RequestType
  <2> QED
    BY <2>1 DEF exchange
<1>3. token \in Token
  <2>1. now \in 0..MaxTime /\ MaxTime \in Nat /\ expires_in \in Nat /\ signing \in Kids
    BY <1>1, TimesAssumption, SessionsAssumption DEF TypeInv, KeysTypeOK
  <2>2. now + expires_in \in 0..MaxTime + expires_in /\ at \in 0..MaxTime
    BY <2>1
  <2> QED
    BY <2>1, <2>2 DEF Token
<1> HIDE DEF token
<1>4. request[r].bff \in Bffs /\ request[r].browser \in Browsers /\ request[r].login \in 1..MaxLogins
  BY <1>1, RequestFields DEF TypeInv, RequestType
<1>5. /\ q \in Request /\ q.at = "create" /\ q.browser = request[r].browser
      /\ q.login = request[r].login
  BY <1>3, <1>4 DEF Request
<1> HIDE DEF q
<1>6. /\ UNCHANGED <<logins, begun, cookies, sessions, version, opened, ended, served>>
      /\ sessions \in Seq(Row) /\ Len(sessions) \in Nat /\ Len(sessions') = Len(sessions)
  BY <1>1 DEF uiVars, TypeInv, SessionsType
<1>7. /\ RequestType' /\ request'[r] = q
      /\ \A p \in Requests : p # r => request'[p] = request[p]
  <2>1. /\ RequestType /\ Len(sessions') \in Nat /\ Len(sessions) <= Len(sessions')
        /\ q.at = "forward" => q.session \in 1..Len(sessions')
    BY <1>1, <1>5, <1>6 DEF TypeInv
  <2> QED
    BY <1>2, <1>5, <1>6, <2>1, RequestTyped
<1>8. \A p \in Requests : /\ Consumed(p)' => Consumed(p)
                          /\ Consumed(p)' => request'[p].login = request[p].login
                          /\ Consumed(p)' => request'[p].browser = request[p].browser
  BY <1>1, <1>5, <1>7 DEF Consumed
<1>9. BindingInv'
  BY <1>1, <1>6, <1>8 DEF BindingInv
<1>10. OnceInv'
  BY <1>1, <1>6, <1>8 DEF OnceInv
<1>11. KeysTypeOK' /\ KeysInv' /\ SessionsType' /\ SessionsInv' /\ CookiesType' /\ LoginsType'
  BY <1>1, <1>6, KeysSame, SessionsSame DEF TypeInv, CookiesType, LoginsType
<1> QED
  BY <1>7, <1>9, <1>10, <1>11 DEF IInv, TypeInv

\* The exchange fails: the login is spent.
LEMMA ExchangeFailsKeeps ==
    ASSUME IInv, NEW r \in Requests, exchange_fails(r)
    PROVE  IInv'
<1>1. /\ TypeInv /\ KeysInv /\ SessionsInv /\ BindingInv /\ OnceInv
      /\ UNCHANGED <<now, keyVars, logins, begun, cookies, sessions, version, opened, ended, served>>
      /\ request' = [request EXCEPT ![r] = Idle]
      /\ Idle \in Request /\ Idle.at = "idle"
  BY DEF IInv, exchange_fails, uiVars, Request, Idle
<1>2. Len(sessions) \in Nat /\ Len(sessions') = Len(sessions)
  BY <1>1 DEF TypeInv, SessionsType
<1>3. /\ RequestType' /\ request'[r] = Idle
      /\ \A p \in Requests : p # r => request'[p] = request[p]
  <2>1. /\ RequestType /\ Len(sessions') \in Nat /\ Len(sessions) <= Len(sessions')
        /\ Idle.at = "forward" => Idle.session \in 1..Len(sessions')
    BY <1>1, <1>2 DEF TypeInv
  <2> QED
    BY <1>1, <1>2, <2>1, RequestTyped
<1>4. \A p \in Requests : request'[p] = request[p] \/ ~Consumed(p)'
  BY <1>1, <1>3 DEF Consumed
<1>5. /\ \A w \in Browsers : cookies'[w].login \in {None, cookies[w].login}
      /\ \A b \in Bffs : logins'[b] \subseteq logins[b]
  BY <1>1
<1>6. BindingInv' /\ OnceInv'
  BY <1>1, <1>4, <1>5, LoginsForgotten
<1>7. KeysTypeOK' /\ KeysInv' /\ SessionsType' /\ SessionsInv' /\ CookiesType' /\ LoginsType'
  BY <1>1, KeysSame, SessionsSame DEF TypeInv, CookiesType, LoginsType
<1> QED
  BY <1>3, <1>6, <1>7 DEF IInv, TypeInv

-----------------------------------------------------------------------------
(* Sessions. *)

\* Rows are revoked and never changed otherwise.
LEMMA RevokeKeeps ==
    ASSUME SessionsType, SessionsInv, NEW gone \in SUBSET (1..Len(sessions)), Revoke(gone),
           UNCHANGED <<opened, version>>
    PROVE  SessionsType' /\ SessionsInv' /\ Len(sessions') = Len(sessions)
<1>1. /\ sessions \in Seq(Row) /\ Len(sessions) \in Nat /\ ended \subseteq 1..Len(sessions)
      /\ Len(sessions) <= MaxSessions
  BY DEF SessionsType
<1>2. /\ sessions' = [s \in 1..Len(sessions) |->
                        [sessions[s] EXCEPT !.revoked = @ \/ s \in gone]]
      /\ ended' = ended \cup gone
  BY DEF Revoke
<1>3. ASSUME NEW s \in 1..Len(sessions)
      PROVE  /\ sessions'[s] \in Row /\ sessions'[s].token = sessions[s].token
             /\ sessions'[s].expires_at = sessions[s].expires_at
             /\ sessions'[s].revoked = (sessions[s].revoked \/ s \in gone)
  <2>1. sessions[s] \in Row /\ sessions'[s] = [sessions[s] EXCEPT !.revoked = @ \/ s \in gone]
    BY <1>1, <1>2
  <2> QED
    BY <2>1 DEF Row
<1>4. sessions' \in Seq(Row) /\ Len(sessions') = Len(sessions)
  <2>1. sessions' \in [1..Len(sessions) -> Row]
    BY <1>2, <1>3
  <2> QED
    BY <1>1, <2>1
<1>5. SessionsType'
  BY <1>1, <1>2, <1>4 DEF SessionsType
<1>6. ASSUME NEW s \in ended' PROVE sessions'[s].revoked
  BY <1>1, <1>2, <1>3 DEF SessionsInv
<1>7. SessionsInv'
  BY <1>3, <1>4, <1>6 DEF SessionsInv
<1> QED
  BY <1>4, <1>5, <1>7

\* A step that only revokes sessions, and clears a session cookie.
LEMMA RevokingKeeps ==
    ASSUME IInv, NEW gone \in SUBSET (1..Len(sessions)), Revoke(gone), CookiesType',
           \A w \in Browsers : cookies'[w].login = cookies[w].login,
           UNCHANGED <<now, keyVars, logins, begun, version, opened, served, request>>
    PROVE  IInv'
<1>1. /\ TypeInv /\ KeysInv /\ SessionsInv /\ BindingInv /\ OnceInv
  BY DEF IInv
<1>2. SessionsType' /\ SessionsInv' /\ Len(sessions') = Len(sessions)
  BY <1>1, RevokeKeeps DEF TypeInv
<1>3. Len(sessions) \in Nat
  BY <1>1 DEF TypeInv, SessionsType
<1>4. RequestType'
  BY <1>1, <1>2, <1>3, RequestSame DEF TypeInv
<1>5. BindingInv' /\ OnceInv'
  BY <1>1, LoginsForgotten
<1>6. KeysTypeOK' /\ KeysInv' /\ LoginsType'
  BY <1>1, KeysSame DEF TypeInv, LoginsType
<1> QED
  BY <1>2, <1>4, <1>5, <1>6 DEF IInv, TypeInv

\* POST /auth/logout.
LEMMA LogoutKeeps ==
    ASSUME IInv, NEW b \in Bffs, NEW w \in Browsers, NEW csrf \in 1..Len(sessions),
           logout(b, w, csrf)
    PROVE  IInv'
<1>1. /\ Stored(cookies[w].session) /\ Revoke({cookies[w].session})
      /\ cookies' = [cookies EXCEPT ![w].session = None] \/ UNCHANGED cookies
      /\ UNCHANGED <<now, keyVars, logins, begun, version, opened, served, request>>
  BY DEF logout, destroy
<1>2. {cookies[w].session} \in SUBSET (1..Len(sessions))
  BY <1>1 DEF Stored
<1>3. CookiesType /\ MaxSessions \in Nat
  BY SessionBoundsAssumption DEF IInv, TypeInv
<1>4. CookiesType' /\ \A v \in Browsers : cookies'[v].login = cookies[v].login
  <2>1. CASE UNCHANGED cookies
    BY <1>3, <2>1 DEF CookiesType
  <2>2. CASE cookies' = [cookies EXCEPT ![w].session = None]
    BY <1>3, <2>2 DEF CookiesType, None
  <2> QED
    BY <1>1, <2>1, <2>2
<1> QED
  BY <1>1, <1>2, <1>4, RevokingKeeps

\* revoke_actor.
LEMMA RevokeActorKeeps ==
    ASSUME IInv, NEW a \in Actors, revoke_actor(a)
    PROVE  IInv'
<1> DEFINE gone == {s \in 1..Len(sessions) : sessions[s].token.actor = a}
<1>1. /\ Revoke(gone) /\ gone \in SUBSET (1..Len(sessions))
      /\ UNCHANGED <<now, keyVars, logins, begun, cookies, version, opened, served, request>>
  BY DEF revoke_actor
<1> HIDE DEF gone
<1>2. CookiesType' /\ \A w \in Browsers : cookies'[w].login = cookies[w].login
  BY <1>1 DEF IInv, TypeInv, CookiesType
<1> QED
  BY <1>1, <1>2, RevokingKeeps

\* The proxy takes up a request with a session that is stored and current.
LEMMA ProxyKeeps ==
    ASSUME IInv, NEW r \in Requests, NEW b \in Bffs, NEW w \in Browsers, NEW safe \in BOOLEAN,
           NEW csrf \in 1..Len(sessions), proxy(r, b, w, safe, csrf)
    PROVE  IInv'
<1> DEFINE s == cookies[w].session
           q == [at |-> "forward", bff |-> b, session |-> s]
<1>1. /\ TypeInv /\ KeysInv /\ SessionsInv /\ BindingInv /\ OnceInv
      /\ UNCHANGED <<now, keyVars, logins, begun, cookies, version, opened, served>>
      /\ Stored(s) /\ request[r] = Idle
  BY DEF IInv, proxy
<1>2. s \in 1..Len(sessions)
  BY <1>1 DEF Stored
<1>3. CASE get_session(b, s)
  <2>1. request' = [request EXCEPT ![r] = q] /\ UNCHANGED <<sessions, ended>>
    BY <1>3 DEF proxy
  <2>2. /\ Len(sessions) \in Nat /\ Len(sessions') = Len(sessions) /\ Len(sessions) <= MaxSessions
        /\ MaxSessions \in Nat /\ RequestType
    BY <1>1, <2>1, SessionBoundsAssumption DEF TypeInv, SessionsType
  <2>3. q \in Request /\ q.at = "forward" /\ q.session = s
    <3>1. s \in 1..MaxSessions
      BY <1>2, <2>2
    <3> QED
      BY <3>1 DEF Request
  <2> HIDE DEF q, s
  <2>4. /\ RequestType' /\ request'[r] = q
        /\ \A p \in Requests : p # r => request'[p] = request[p]
    <3>1. Len(sessions) <= Len(sessions') /\ Len(sessions') \in Nat
          /\ (q.at = "forward" => q.session \in 1..Len(sessions'))
      BY <1>2, <2>2, <2>3
    <3> QED
      BY <2>1, <2>2, <2>3, <3>1, RequestTyped
  <2>5. /\ \A p \in Requests : request'[p] = request[p] \/ ~Consumed(p)'
        /\ \A v \in Browsers : cookies'[v].login \in {None, cookies[v].login}
        /\ \A c \in Bffs : logins'[c] \subseteq logins[c]
    BY <1>1, <2>3, <2>4 DEF Consumed
  <2>6. BindingInv' /\ OnceInv'
    BY <1>1, <2>5, LoginsForgotten
  <2>7. KeysTypeOK' /\ KeysInv' /\ SessionsType' /\ SessionsInv' /\ CookiesType' /\ LoginsType'
    BY <1>1, <2>1, KeysSame, SessionsSame DEF TypeInv, CookiesType, LoginsType
  <2> QED
    BY <2>4, <2>6, <2>7 DEF IInv, TypeInv
<1>4. CASE ~get_session(b, s)
  <2>1. Revoke({s}) /\ UNCHANGED request
    BY <1>4 DEF proxy, destroy
  <2>2. CookiesType' /\ \A v \in Browsers : cookies'[v].login = cookies[v].login
    BY <1>1 DEF TypeInv, CookiesType
  <2>3. {s} \in SUBSET (1..Len(sessions))
    BY <1>2
  <2> HIDE DEF s
  <2> QED
    BY <1>1, <2>1, <2>2, <2>3, RevokingKeeps
<1> QED
  BY <1>3, <1>4

\* The API looks the key of the forwarded token up.
LEMMA ForwardKeeps ==
    ASSUME IInv, NEW r \in Requests, NEW up \in BOOLEAN, forward(r, up)
    PROVE  IInv'
<1> DEFINE kid == sessions[request[r].session].token.kid
<1>1. /\ TypeInv /\ KeysInv /\ SessionsInv /\ BindingInv /\ OnceInv
      /\ UNCHANGED <<now, published, signing, retired_at, logins, begun, cookies, sessions, version,
                     opened, ended>>
      /\ request[r].at = "forward" /\ request' = [request EXCEPT ![r] = Idle]
      /\ cache' = CacheAfter(kid, up)
      /\ served' \subseteq {kid} /\ (served' # {} => KeyFound(kid, up))
      /\ Idle \in Request /\ Idle.at = "idle"
  BY DEF IInv, forward, get_key, authenticates, Request, Idle
<1>2. kid \in Kids
  <2>1. request[r].session \in 1..Len(sessions) /\ sessions \in Seq(Row)
    BY <1>1 DEF TypeInv, RequestType, SessionsType
  <2>2. sessions[request[r].session] \in Row
    BY <2>1
  <2> QED
    BY <2>2 DEF Row, Token
<1> HIDE DEF kid
<1>3. /\ cache' \in [keys: SUBSET Kids, expires_at: 0..MaxTime + cache_ttl]
      /\ cache'.expires_at <= now + cache_ttl
      /\ \A k \in cache'.keys : k \in published \/ cache'.expires_at <= retired_at[k] + cache_ttl
      /\ KeyFound(kid, up) => kid \in published \/ now < retired_at[kid] + cache_ttl
  BY <1>1, <1>2, KeyLookup DEF TypeInv
<1>4. KeysTypeOK' /\ KeysInv'
  BY <1>1, <1>2, <1>3 DEF TypeInv, KeysTypeOK, KeysInv, ServedKeyIsCurrent
<1>5. /\ RequestType' /\ request'[r] = Idle
      /\ \A p \in Requests : p # r => request'[p] = request[p]
  <2>1. /\ RequestType /\ Len(sessions') \in Nat /\ Len(sessions) \in Nat
        /\ Len(sessions) <= Len(sessions')
        /\ Idle.at = "forward" => Idle.session \in 1..Len(sessions')
    BY <1>1 DEF TypeInv, SessionsType
  <2> QED
    BY <1>1, <2>1, RequestTyped
<1>6. /\ \A p \in Requests : request'[p] = request[p] \/ ~Consumed(p)'
      /\ \A v \in Browsers : cookies'[v].login \in {None, cookies[v].login}
      /\ \A c \in Bffs : logins'[c] \subseteq logins[c]
  BY <1>1, <1>5 DEF Consumed
<1>7. BindingInv' /\ OnceInv'
  BY <1>1, <1>6, LoginsForgotten
<1>8. SessionsType' /\ SessionsInv' /\ CookiesType' /\ LoginsType'
  BY <1>1, SessionsSame DEF TypeInv, CookiesType, LoginsType
<1> QED
  BY <1>4, <1>5, <1>7, <1>8 DEF IInv, TypeInv

\* The row a callback inserts: typed, and its lifetime counts from the MFA.
LEMMA NewRow ==
    ASSUME TypeInv, NEW b \in Bffs, NEW token \in Token, require_mfa(token), NEW row,
           row = [token |-> token, expires_at |-> session_expiry,
                  mfa_policy_version |-> evidence_from_validated_claims(b, token),
                  revoked |-> FALSE]
    PROVE  /\ row \in Row
           /\ row.token.actor \in CriticalActors =>
                /\ row.token.mfa
                /\ row.expires_at <= row.token.auth_time + max_auth_age
                                       + Min2(session_ttl, expires_in)
<1>1. /\ now \in 0..MaxTime /\ MaxTime \in Nat /\ session_ttl \in Nat /\ expires_in \in Nat
      /\ max_auth_age \in Nat /\ version[b] \in 1..MaxVersion /\ MaxVersion \in Nat
      /\ token.auth_time \in Nat
  BY TimesAssumption, SessionsAssumption, SessionBoundsAssumption
     DEF TypeInv, KeysTypeOK, SessionsType, Token
<1>2. /\ Min2(session_ttl, expires_in) \in Nat /\ Min2(session_ttl, expires_in) <= session_ttl
      /\ session_expiry = now + Min2(session_ttl, expires_in)
  BY <1>1 DEF Min2, session_expiry
<1>3. session_expiry \in 0..MaxTime + session_ttl
  BY <1>1, <1>2
<1>4. evidence_from_validated_claims(b, token) \in 0..MaxVersion
  BY <1>1 DEF evidence_from_validated_claims, None
<1>5. /\ row \in Row /\ row.token = token /\ row.expires_at = session_expiry
  BY <1>3, <1>4 DEF Row
<1>6. ASSUME token.actor \in CriticalActors
      PROVE  /\ token.mfa
             /\ session_expiry <= token.auth_time + max_auth_age + Min2(session_ttl, expires_in)
  <2>1. token.mfa /\ now - token.auth_time <= max_auth_age
    BY <1>6 DEF require_mfa
  <2> QED
    BY <1>1, <1>2, <2>1
<1> QED
  BY <1>5, <1>6

\* Last part of the callback: the login moves from the request to the session.
LEMMA CreateKeeps ==
    ASSUME IInv, NEW r \in Requests, NEW up \in BOOLEAN, create_session(r, up)
    PROVE  IInv'
<1> DEFINE token == request[r].token
           w == request[r].browser
           n == request[r].login
<1>1. /\ TypeInv /\ KeysInv /\ SessionsInv /\ BindingInv /\ OnceInv
      /\ UNCHANGED <<now, published, signing, retired_at, logins, begun, version, ended, served>>
      /\ request[r].at = "create" /\ request' = [request EXCEPT ![r] = Idle]
      /\ Len(sessions) < MaxSessions /\ cache' = CacheAfter(token.kid, up)
      /\ Idle \in Request /\ Idle.at = "idle"
  BY DEF IInv, create_session, get_key, Request, Idle
<1>2. /\ request[r].bff \in Bffs /\ w \in Browsers /\ n \in 1..MaxLogins /\ token \in Token
      /\ token.kid \in Kids
  BY <1>1, RequestFields DEF TypeInv, RequestType, Token
<1>3. /\ sessions \in Seq(Row) /\ Len(sessions) \in Nat /\ MaxSessions \in Nat /\ MaxLogins \in Nat
      /\ opened \in Seq([login: Nat, browser: Browsers]) /\ Len(opened) \in Nat
  BY <1>1, SessionBoundsAssumption DEF TypeInv, SessionsType
<1>4. KeysTypeOK' /\ KeysInv'
  <2>1. /\ cache' \in [keys: SUBSET Kids, expires_at: 0..MaxTime + cache_ttl]
        /\ cache'.expires_at <= now + cache_ttl
        /\ \A k \in cache'.keys : k \in published \/ cache'.expires_at <= retired_at[k] + cache_ttl
    BY <1>1, <1>2, KeyLookup DEF TypeInv
  <2> QED
    BY <1>1, <2>1 DEF TypeInv, KeysTypeOK, KeysInv, ServedKeyIsCurrent
<1>5. LoginsType'
  BY <1>1 DEF TypeInv, LoginsType
<1>6. CASE session_identity(token, up) /\ require_mfa(token)
  <2> DEFINE row == [token |-> token, expires_at |-> session_expiry,
                     mfa_policy_version |-> evidence_from_validated_claims(request[r].bff, token),
                     revoked |-> FALSE]
             login_of == [login |-> n, browser |-> w]
  <2>1. /\ sessions' = Append(sessions, row) /\ opened' = Append(opened, login_of)
        /\ cookies' = [cookies EXCEPT ![w] = [login |-> None, session |-> Len(sessions) + 1]]
    BY <1>6 DEF create_session, create
  <2>2. /\ row \in Row
        /\ row.token.actor \in CriticalActors =>
             /\ row.token.mfa
             /\ row.expires_at <= row.token.auth_time + max_auth_age
                                    + Min2(session_ttl, expires_in)
    BY <1>1, <1>2, <1>6, NewRow
  <2>3. login_of \in [login: Nat, browser: Browsers] /\ login_of.login = n /\ login_of.browser = w
    BY <1>2
  <2>4. /\ CookiesType' /\ cookies'[w].login = None
        /\ \A v \in Browsers : v # w => cookies'[v] = cookies[v]
    <3>1. [login |-> None, session |-> Len(sessions) + 1]
            \in [login: 0..MaxLogins, session: 0..MaxSessions]
      BY <1>1, <1>3 DEF None
    <3> QED
      BY <1>1, <1>2, <2>1, <3>1 DEF TypeInv, CookiesType
  <2> HIDE DEF row, login_of, token, w, n
  <2>5. /\ sessions' \in Seq(Row) /\ Len(sessions') = Len(sessions) + 1
        /\ sessions'[Len(sessions) + 1] = row
        /\ \A s \in 1..Len(sessions) : sessions'[s] = sessions[s]
    BY <1>3, <2>1, <2>2
  <2>6. /\ opened' \in Seq([login: Nat, browser: Browsers]) /\ Len(opened') = Len(opened) + 1
        /\ opened'[Len(opened) + 1] = login_of
        /\ \A i \in 1..Len(opened) : opened'[i] = opened[i]
    BY <1>3, <2>1, <2>3
  <2>7. /\ \A s \in 1..Len(sessions') : s \in 1..Len(sessions) \/ s = Len(sessions) + 1
        /\ \A i \in 1..Len(opened') : i \in 1..Len(opened) \/ i = Len(opened) + 1
    BY <1>3, <2>5, <2>6
  <2>8. SessionsType'
    <3>1. Len(sessions') <= MaxSessions /\ ended \subseteq 1..Len(sessions')
      BY <1>1, <1>3, <2>5 DEF TypeInv, SessionsType
    <3> QED
      BY <1>1, <2>5, <2>6, <3>1 DEF TypeInv, SessionsType
  <2>9. SessionsInv'
    <3>1. \A s \in ended : sessions'[s].revoked
      BY <1>1, <2>5 DEF SessionsInv, TypeInv, SessionsType
    <3>2. ASSUME NEW s \in 1..Len(sessions'), sessions'[s].token.actor \in CriticalActors
          PROVE  /\ sessions'[s].token.mfa
                 /\ sessions'[s].expires_at <= sessions'[s].token.auth_time + max_auth_age
                                                 + Min2(session_ttl, expires_in)
      <4>1. CASE s \in 1..Len(sessions)
        BY <1>1, <2>5, <3>2, <4>1 DEF SessionsInv
      <4>2. CASE s = Len(sessions) + 1
        BY <2>2, <2>5, <3>2, <4>2
      <4> QED
        BY <2>7, <4>1, <4>2
    <3> QED
      BY <1>1, <3>1, <3>2 DEF SessionsInv
  <2>10. /\ RequestType' /\ request'[r] = Idle
         /\ \A p \in Requests : p # r => request'[p] = request[p]
    <3>1. /\ RequestType /\ Len(sessions') \in Nat /\ Len(sessions) <= Len(sessions')
          /\ Idle.at = "forward" => Idle.session \in 1..Len(sessions')
      BY <1>1, <1>3, <2>5 DEF TypeInv
    <3> QED
      BY <1>1, <1>3, <3>1, RequestTyped
  <2>11. \A p \in Requests : Consumed(p)' => p # r /\ Consumed(p) /\ request'[p] = request[p]
    BY <1>1, <2>10 DEF Consumed
  <2>12. Consumed(r) /\ request[r].login = n /\ request[r].browser = w
    BY <1>1 DEF Consumed, n, w
  <2>13. BindingInv'
    <3>1. ASSUME NEW i \in 1..Len(opened')
          PROVE  opened'[i].login \in 1..Len(begun) /\ begun[opened'[i].login] = opened'[i].browser
      BY <1>1, <2>3, <2>6, <2>7, <2>12 DEF BindingInv
    <3>2. \A v \in Browsers : cookies'[v].login # None =>
            cookies'[v].login \in 1..Len(begun) /\ begun[cookies'[v].login] = v
      BY <1>1, <2>4 DEF BindingInv
    <3>3. \A p \in Requests : Consumed(p)' =>
            request'[p].login \in 1..Len(begun) /\ begun[request'[p].login] = request'[p].browser
      BY <1>1, <2>11 DEF BindingInv
    <3> QED
      BY <1>1, <3>1, <3>2, <3>3 DEF BindingInv
  <2>14. OnceInv'
    <3>1. /\ \A c \in Bffs : \A t \in logins[c] : n # t.state
          /\ \A p \in Requests : Consumed(p) /\ request[p].login = n => p = r
          /\ \A i \in 1..Len(opened) : opened[i].login # n
      BY <1>1, <2>12 DEF OnceInv
    <3>2. \A i \in 1..Len(opened') :
            (i \in 1..Len(opened) /\ opened'[i] = opened[i])
              \/ (i = Len(opened) + 1 /\ opened'[i].login = n)
      BY <2>3, <2>6, <2>7
    <3>3. \A c \in Bffs : \A t \in logins[c] :
            /\ \A p \in Requests : Consumed(p)' => request'[p].login # t.state
            /\ \A i \in 1..Len(opened') : opened'[i].login # t.state
      BY <1>1, <2>11, <3>1, <3>2 DEF OnceInv
    <3>4. \A p \in Requests : Consumed(p)' =>
            /\ \A o \in Requests : Consumed(o)' /\ request'[o].login = request'[p].login => o = p
            /\ \A i \in 1..Len(opened') : opened'[i].login # request'[p].login
      BY <1>1, <2>11, <3>1, <3>2 DEF OnceInv
    <3>5. \A i, j \in 1..Len(opened') : opened'[i].login = opened'[j].login => i = j
      BY <1>1, <3>1, <3>2 DEF OnceInv
    <3> QED
      BY <1>1, <3>3, <3>4, <3>5 DEF OnceInv
  <2> QED
    BY <1>4, <1>5, <2>4, <2>8, <2>9, <2>10, <2>13, <2>14 DEF IInv, TypeInv
<1>7. CASE ~(session_identity(token, up) /\ require_mfa(token))
  <2>1. UNCHANGED <<sessions, cookies, opened>>
    BY <1>7 DEF create_session
  <2>2. /\ RequestType' /\ request'[r] = Idle
        /\ \A p \in Requests : p # r => request'[p] = request[p]
    <3>1. /\ RequestType /\ Len(sessions') \in Nat /\ Len(sessions) <= Len(sessions')
          /\ Idle.at = "forward" => Idle.session \in 1..Len(sessions')
      BY <1>1, <1>3, <2>1 DEF TypeInv
    <3> QED
      BY <1>1, <1>3, <3>1, RequestTyped
  <2>3. /\ \A p \in Requests : request'[p] = request[p] \/ ~Consumed(p)'
        /\ \A v \in Browsers : cookies'[v].login \in {None, cookies[v].login}
        /\ \A c \in Bffs : logins'[c] \subseteq logins[c]
    BY <1>1, <2>1, <2>2 DEF Consumed
  <2>4. BindingInv' /\ OnceInv'
    BY <1>1, <2>1, <2>3, LoginsForgotten
  <2>5. SessionsType' /\ SessionsInv' /\ CookiesType'
    BY <1>1, <2>1, SessionsSame DEF TypeInv, CookiesType
  <2> QED
    BY <1>4, <1>5, <2>2, <2>4, <2>5 DEF IInv, TypeInv
<1> QED
  BY <1>6, <1>7

-----------------------------------------------------------------------------
(* Operators, the provider and time. *)

\* A restart forgets logins and requests, never a session.
LEMMA RestartKeeps ==
    ASSUME IInv, NEW b \in Bffs, NEW v \in 1..MaxVersion, restart(b, v)
    PROVE  IInv'
<1>1. /\ TypeInv /\ KeysInv /\ SessionsInv /\ BindingInv /\ OnceInv
      /\ UNCHANGED <<now, keyVars, begun, cookies, sessions, opened, ended, served>>
      /\ logins' = [logins EXCEPT ![b] = {}] /\ version' = [version EXCEPT ![b] = v]
      /\ request' = [r \in Requests |-> IF request[r] # Idle /\ request[r].bff = b
                                        THEN Idle ELSE request[r]]
  BY DEF IInv, restart
<1>2. /\ begun' \in Seq(Browsers) /\ Len(begun') <= MaxLogins /\ login_capacity \in Nat
  BY <1>1, SessionsAssumption DEF TypeInv, LoginsType
<1>3. IsFiniteSet({}) /\ Cardinality({}) = 0 /\ {} \in SUBSET Login
  BY FS_EmptySet
<1>4. LoginsType'
  <2>1. Cardinality({}) <= login_capacity
    BY <1>2, <1>3
  <2> QED
    BY <1>1, <1>2, <1>3, <2>1, LoginsTyped DEF TypeInv
<1>5. \A c \in Bffs : logins'[c] \subseteq logins[c]
  BY <1>1 DEF TypeInv, LoginsType
<1>6. Idle \in Request /\ Idle.at = "idle"
  BY DEF Request, Idle
<1>7. \A r \in Requests : request'[r] = request[r] \/ request'[r] = Idle
  BY <1>1
<1>8. RequestType'
  <2>1. request \in [Requests -> Request]
    BY <1>1 DEF TypeInv, RequestType
  <2>2. request' \in [Requests -> Request]
    BY <1>1, <1>6, <2>1
  <2>3. ASSUME NEW r \in Requests, request'[r].at = "forward"
        PROVE  request'[r].session \in 1..Len(sessions')
    BY <1>1, <1>6, <1>7, <2>3 DEF TypeInv, RequestType
  <2> QED
    BY <2>2, <2>3 DEF RequestType
<1>9. \A r \in Requests : request'[r] = request[r] \/ ~Consumed(r)'
  BY <1>6, <1>7 DEF Consumed
<1>10. BindingInv' /\ OnceInv'
  BY <1>1, <1>5, <1>9, LoginsForgotten
<1>11. SessionsType' /\ SessionsInv' /\ CookiesType'
  BY <1>1 DEF TypeInv, SessionsType, SessionsInv, CookiesType
<1>12. KeysTypeOK' /\ KeysInv'
  BY <1>1, KeysSame DEF TypeInv
<1> QED
  BY <1>4, <1>8, <1>10, <1>11, <1>12 DEF IInv, TypeInv

\* A step of the provider or of the clock touches neither logins nor sessions.
LEMMA UiSame ==
    ASSUME IInv, KeysTypeOK', KeysInv',
           UNCHANGED <<logins, begun, cookies, sessions, version, opened, ended, request>>
    PROVE  IInv'
<1>1. TypeInv /\ SessionsInv /\ BindingInv /\ OnceInv
  BY DEF IInv
<1>2. LoginsType' /\ CookiesType' /\ SessionsType' /\ RequestType' /\ SessionsInv'
  BY <1>1 DEF TypeInv, LoginsType, CookiesType, SessionsType, RequestType, SessionsInv
<1>3. BindingInv' /\ OnceInv'
  BY <1>1 DEF BindingInv, OnceInv, Consumed
<1> QED
  BY <1>2, <1>3 DEF IInv, TypeInv

\* Publication and retirement of a key: what is cached outlives the
\* retirement by a cache lifetime at most.
LEMMA ProviderKeeps ==
    ASSUME IInv, NEW k \in Kids, Publish(k) \/ Retire(k), UNCHANGED <<uiVars, request>>
    PROVE  IInv'
<1>1. /\ KeysTypeOK /\ KeysInv /\ UNCHANGED <<now, cache, served>> /\ cache_ttl \in Nat \ {0}
      /\ now \in 0..MaxTime /\ MaxTime \in Nat
  BY TimesAssumption DEF IInv, TypeInv, Publish, Retire, uiVars, KeysTypeOK
<1>2. KeysTypeOK' /\ KeysInv'
  <2>1. CASE Publish(k)
    BY <1>1, <2>1 DEF Publish, KeysTypeOK, KeysInv, ServedKeyIsCurrent
  <2>2. CASE Retire(k)
    <3>1. /\ published' = published \ {k} /\ retired_at' = [retired_at EXCEPT ![k] = now]
          /\ signing' = signing /\ signing \in published' /\ published' \in SUBSET Kids
      BY <1>1, <2>2 DEF Retire, KeysTypeOK
    <3>2. /\ retired_at' \in [Kids -> {Never} \cup 0..MaxTime] /\ retired_at'[k] = now
          /\ \A j \in Kids : j # k => retired_at'[j] = retired_at[j]
      BY <1>1, <3>1 DEF KeysTypeOK
    <3>3. KeysTypeOK'
      BY <1>1, <3>1, <3>2 DEF KeysTypeOK
    <3>4. cache.keys \in SUBSET Kids /\ cache.expires_at <= now + cache_ttl /\ served \subseteq Kids
      BY <1>1 DEF KeysTypeOK, KeysInv
    <3>5. \A j \in cache.keys : j \in published' \/ cache.expires_at <= retired_at'[j] + cache_ttl
      BY <1>1, <3>1, <3>2, <3>4 DEF KeysInv
    <3>6. \A j \in served : j \in published' \/ now < retired_at'[j] + cache_ttl
      BY <1>1, <3>1, <3>2, <3>4 DEF KeysInv, ServedKeyIsCurrent
    <3> QED
      BY <1>1, <3>3, <3>4, <3>5, <3>6 DEF KeysInv, ServedKeyIsCurrent
  <2> QED
    BY <2>1, <2>2
<1> QED
  BY <1>2, UiSame DEF uiVars

\* Time passes.
LEMMA TickKeeps ==
    ASSUME IInv, Tick
    PROVE  IInv'
<1>1. /\ KeysTypeOK /\ KeysInv /\ now < MaxTime /\ now' = now + 1 /\ served' = {}
      /\ UNCHANGED <<keyVars, logins, begun, cookies, sessions, version, opened, ended, request>>
      /\ cache_ttl \in Nat /\ MaxTime \in Nat
  BY TimesAssumption DEF IInv, TypeInv, Tick
<1>2. KeysTypeOK' /\ KeysInv'
  BY <1>1 DEF KeysTypeOK, KeysInv, ServedKeyIsCurrent, keyVars
<1> QED
  BY <1>1, <1>2, UiSame

\* Processes that have just started satisfy the invariant.
LEMMA InitHolds ==
    ASSUME Init
    PROVE  IInv
<1>1. KeysTypeOK /\ KeysInv
  BY TimesAssumption DEF Init, KeysInit, NoCache, KeysTypeOK, KeysInv, ServedKeyIsCurrent
<1>2. LoginsType
  BY FS_EmptySet, SessionsAssumption, SessionBoundsAssumption DEF Init, LoginsType
<1>3. CookiesType /\ SessionsType
  BY SessionBoundsAssumption DEF Init, CookiesType, SessionsType, None
<1>4. RequestType /\ \A r \in Requests : ~Consumed(r)
  BY DEF Init, RequestType, Request, Idle, Consumed
<1>5. SessionsInv /\ opened = <<>> /\ Len(opened) = 0
  BY DEF Init, SessionsInv
<1>6. BindingInv /\ OnceInv
  BY <1>4, <1>5 DEF Init, BindingInv, OnceInv, None
<1> QED
  BY <1>1, <1>2, <1>3, <1>4, <1>5, <1>6 DEF IInv, TypeInv

\* Every step keeps the invariant, one lemma per action.
LEMMA NextKeeps ==
    ASSUME IInv, [Next]_vars
    PROVE  IInv'
<1>1. CASE \E b \in Bffs, w \in Browsers : login(b, w)
  BY <1>1, LoginKeeps
<1>2. CASE \E b \in Bffs, w \in Browsers : \E csrf \in 1..Len(sessions) : logout(b, w, csrf)
  BY <1>2, LogoutKeeps
<1>3. CASE \E r \in Requests, b \in Bffs, w \in Browsers, state \in 1..Len(begun) :
             callback(r, b, w, state)
  BY <1>3, CallbackKeeps
<1>4. CASE \E r \in Requests, b \in Bffs, w \in Browsers, safe \in BOOLEAN,
              csrf \in 1..Len(sessions) : proxy(r, b, w, safe, csrf)
  BY <1>4, ProxyKeeps
<1>5. CASE \E r \in Requests, a \in CriticalActors, t \in 0..now, mfa \in BOOLEAN :
             exchange(r, a, t, mfa)
  BY <1>5, ExchangeKeeps, SessionsAssumption
<1>6. CASE \E r \in Requests, a \in Actors \ CriticalActors : exchange(r, a, now, FALSE)
  <2>1. now \in 0..now
    BY TimesAssumption DEF IInv, TypeInv, KeysTypeOK
  <2> QED
    BY <1>6, <2>1, ExchangeKeeps
<1>7. CASE \E r \in Requests : exchange_fails(r)
  BY <1>7, ExchangeFailsKeeps
<1>8. CASE \E r \in Requests, up \in BOOLEAN : create_session(r, up)
  BY <1>8, CreateKeeps
<1>9. CASE \E r \in Requests, up \in BOOLEAN : forward(r, up)
  BY <1>9, ForwardKeeps
<1>10. CASE \E a \in Actors : revoke_actor(a)
  BY <1>10, RevokeActorKeeps
<1>11. CASE \E b \in Bffs, v \in 1..MaxVersion : restart(b, v)
  BY <1>11, RestartKeeps
<1>12. CASE \E k \in Kids : (Publish(k) \/ Retire(k)) /\ UNCHANGED <<uiVars, request>>
  BY <1>12, ProviderKeeps
<1>13. CASE Tick
  BY <1>13, TickKeeps
<1>14. CASE UNCHANGED vars
  <2>1. UNCHANGED <<now, keyVars, served>>
        /\ UNCHANGED <<logins, begun, cookies, sessions, version, opened, ended, request>>
    BY <1>14 DEF vars, uiVars
  <2>2. KeysTypeOK' /\ KeysInv'
    BY <2>1, KeysSame DEF IInv, TypeInv
  <2> QED
    BY <2>1, <2>2, UiSame
<1> QED
  BY <1>1, <1>2, <1>3, <1>4, <1>5, <1>6, <1>7, <1>8, <1>9, <1>10, <1>11, <1>12, <1>13, <1>14
     DEF Next

\* Only the proxy takes a request up, with a session that is stored.
LEMMA OnlyProxyForwards ==
    ASSUME IInv, [Next]_vars, NEW r \in Requests,
           request[r].at # "forward", request'[r].at = "forward"
    PROVE  Stored(request'[r].session)
<1>1. request \in [Requests -> Request] /\ Idle.at = "idle"
  BY DEF IInv, TypeInv, RequestType, Idle
<1>2. request' # request
  OBVIOUS
<1>3. ASSUME NEW p \in Requests, NEW q, request' = [request EXCEPT ![p] = q], q.at # "forward"
      PROVE  FALSE
  BY <1>1, <1>3
<1>4. ASSUME NEW p \in Requests, NEW b \in Bffs, NEW w \in Browsers, NEW safe \in BOOLEAN,
             NEW csrf \in 1..Len(sessions), proxy(p, b, w, safe, csrf)
      PROVE  Stored(request'[r].session)
  <2>1. request' = [request EXCEPT ![p] = [at |-> "forward", bff |-> b,
                                           session |-> cookies[w].session]]
        /\ Stored(cookies[w].session)
    BY <1>2, <1>4 DEF proxy
  <2>2. p = r
    BY <1>1, <2>1
  <2> QED
    BY <1>1, <2>1, <2>2
<1>5. ASSUME NEW p \in Requests, NEW b \in Bffs, NEW w \in Browsers, NEW state \in 1..Len(begun),
             callback(p, b, w, state)
      PROVE  FALSE
  <2>1. CASE request' = [request EXCEPT ![p] = Idle]
    BY <1>1, <1>3, <2>1
  <2>2. CASE request' = [request EXCEPT ![p] = [at |-> "exchange", bff |-> b,
                                                browser |-> w, login |-> state]]
    BY <1>3, <2>2
  <2> QED
    BY <1>5, <2>1, <2>2 DEF callback
<1>6. ASSUME NEW p \in Requests, NEW a, NEW t, NEW mfa, exchange(p, a, t, mfa)
      PROVE  FALSE
  <2> DEFINE q == [at |-> "create", bff |-> request[p].bff, browser |-> request[p].browser,
                   login |-> request[p].login,
                   token |-> [actor |-> a, kid |-> signing, auth_time |-> t,
                              expires_at |-> now + expires_in, mfa |-> mfa]]
  <2>1. request' = [request EXCEPT ![p] = q]
    BY <1>1, <1>6 DEF exchange
  <2>2. q.at # "forward"
    OBVIOUS
  <2> HIDE DEF q
  <2> QED
    BY <1>3, <2>1, <2>2
<1>7. ASSUME NEW p \in Requests, request' = [request EXCEPT ![p] = Idle]
      PROVE  FALSE
  BY <1>1, <1>3, <1>7
<1>8. ASSUME NEW b, NEW v, restart(b, v) PROVE FALSE
  <2>1. request'[r] = Idle \/ request'[r] = request[r]
    BY <1>8 DEF restart
  <2> QED
    BY <1>1, <2>1
<1>9. \A p \in Requests, up \in BOOLEAN : ~create_session(p, up) /\ ~forward(p, up) /\ ~exchange_fails(p)
  BY <1>7 DEF create_session, forward, exchange_fails
<1>10. /\ \A b \in Bffs, w \in Browsers : ~login(b, w)
       /\ \A b \in Bffs, w \in Browsers, csrf \in 1..Len(sessions) : ~logout(b, w, csrf)
       /\ \A a \in Actors : ~revoke_actor(a)
       /\ ~Tick /\ ~UNCHANGED vars /\ ~UNCHANGED <<uiVars, request>>
  BY <1>2 DEF login, logout, revoke_actor, Tick, vars
<1> QED
  BY <1>4, <1>5, <1>6, <1>8, <1>9, <1>10 DEF Next

-----------------------------------------------------------------------------
(* Theorems. *)

\* In every run of the routes, the store and the cache the inductive
\* invariant holds.
THEOREM Invariance == Spec => []IInv
<1>1. Init => IInv
  BY InitHolds
<1>2. IInv /\ [Next]_vars => IInv'
  BY NextKeeps
<1> QED
  BY <1>1, <1>2, PTL DEF Spec

\* Transactions, cookies, rows and requests keep their types, and no process
\* ever holds more login transactions than its capacity (_prune, create).
THEOREM TypesHold == Spec => []TypeOK
<1>1. IInv => TypeOK
  BY DEF IInv, TypeInv, LoginsType, CookiesType, SessionsType, RequestType, TypeOK
<1> QED
  BY <1>1, Invariance, PTL

\* One login opens one session at most, and only in its own browser, however
\* callbacks, restarts and processes interleave (consume).
THEOREM LoginIsSpent == Spec => []LoginOpensOnce
<1>1. IInv => LoginOpensOnce
  BY DEF IInv, BindingInv, OnceInv, LoginOpensOnce
<1> QED
  BY <1>1, Invariance, PTL

\* A token is accepted only under a key that is published or was retired less
\* than a cache lifetime ago, for any rotation and any outage of the provider
\* (CachedJwksProvider.get).
THEOREM KeysAreCurrent == Spec => []ServedKeyIsCurrent
<1>1. IInv => ServedKeyIsCurrent
  BY DEF IInv, KeysInv
<1> QED
  BY <1>1, Invariance, PTL

\* A session that has ended is handed to no later request, whichever process
\* looks it up (da_get_browser_session and the revocations).
THEOREM EndedSessionsRest == Spec => EndedStaysEnded
<1>1. ASSUME IInv, [Next]_vars
      PROVE  [\A r \in Requests :
                request[r].at # "forward" /\ request'[r].at = "forward"
                   => request'[r].session \notin ended]_vars
  <2>1. ASSUME NEW r \in Requests, request[r].at # "forward", request'[r].at = "forward"
        PROVE  request'[r].session \notin ended
    <3>1. Stored(request'[r].session)
      BY <1>1, <2>1, OnlyProxyForwards
    <3> QED
      BY <1>1, <3>1 DEF Stored, IInv, SessionsInv
  <2> QED
    BY <2>1
<1> QED
  BY <1>1, Invariance, PTL DEF Spec, EndedStaysEnded

\* A critical actor's request is taken up only while the MFA behind its session
\* is younger than the policy's age plus a session's life (require, create,
\* get), for any mixture of policy versions.
THEOREM MfaIsFresh == Spec => CriticalIsFresh
<1>1. ASSUME IInv, [Next]_vars
      PROVE  [\A r \in Requests :
                request[r].at # "forward" /\ request'[r].at = "forward"
                   => LET token == sessions[request'[r].session].token IN
                      token.actor \in CriticalActors =>
                          /\ token.mfa
                          /\ now < token.auth_time + max_auth_age
                                      + Min2(session_ttl, expires_in)]_vars
  <2>1. ASSUME NEW r \in Requests, request[r].at # "forward", request'[r].at = "forward",
               sessions[request'[r].session].token.actor \in CriticalActors
        PROVE  /\ sessions[request'[r].session].token.mfa
               /\ now < sessions[request'[r].session].token.auth_time + max_auth_age
                           + Min2(session_ttl, expires_in)
    <3> DEFINE s == request'[r].session
    <3>1. s \in 1..Len(sessions) /\ sessions[s].expires_at > now
      BY <1>1, <2>1, OnlyProxyForwards DEF Stored
    <3>2. /\ sessions[s] \in Row /\ now \in Nat
      BY <1>1, <3>1, TimesAssumption DEF IInv, TypeInv, SessionsType, KeysTypeOK
    <3>3. /\ sessions[s].expires_at \in Nat /\ sessions[s].token.auth_time \in Nat
          /\ max_auth_age \in Nat /\ Min2(session_ttl, expires_in) \in Nat
      BY <3>2, SessionsAssumption, TimesAssumption DEF Row, Token, Min2
    <3>4. /\ sessions[s].token.mfa
          /\ sessions[s].expires_at <= sessions[s].token.auth_time + max_auth_age
                                         + Min2(session_ttl, expires_in)
      BY <1>1, <2>1, <3>1 DEF IInv, SessionsInv
    <3> QED
      BY <3>1, <3>2, <3>3, <3>4
  <2> QED
    BY <2>1
<1> QED
  BY <1>1, Invariance, PTL DEF Spec, CriticalIsFresh
=============================================================================
