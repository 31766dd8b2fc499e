------------------------------ MODULE OidcKeys ------------------------------
(***************************************************************************)
(* Signing keys of the identity provider and the cache of its verifier:    *)
(* oidc/jwks.py (CachedJwksProvider) as oidc/authenticator.py uses it in   *)
(* the API, together with the acceptance of an access token.  The provider *)
(* rotates its keys while the cache holds an older document, and may be    *)
(* unreachable when the cache needs it.  Keys are model values, time is a  *)
(* counter of ticks.                                                       *)
(***************************************************************************)
EXTENDS Integers, FiniteSets

CONSTANTS
    Kids,            \* signing keys the provider may publish
    EncryptionKids,  \* encryption keys, always in the document
    cache_ttl,       \* cache_ttl_seconds, in ticks
    maximum_keys,    \* largest document a cache accepts
    clock_skew,      \* leeway of the token's expiry, in ticks
    MaxTime          \* bound: the clock

ASSUME TimesAssumption ==
    /\ cache_ttl \in Nat \ {0} /\ clock_skew \in Nat /\ MaxTime \in Nat
    /\ maximum_keys \in Nat \ {0}

VARIABLES
    now,        \* the clock
    published,  \* signing keys in the provider's document
    signing,    \* the key the provider signs with
    retired_at, \* history: when a key left the document, or Never
    cache       \* the keys the API holds and when they expire

keyVars == <<published, signing, retired_at, cache>>

Never == -1
NoCache == [keys |-> {}, expires_at |-> 0]

KeysTypeOK ==
    /\ now \in 0..MaxTime
    /\ published \in SUBSET Kids /\ signing \in published
    /\ retired_at \in [Kids -> {Never} \cup 0..MaxTime]
    /\ cache \in [keys: SUBSET Kids, expires_at: 0..MaxTime + cache_ttl]

KeysInit ==
    /\ now = 0
    /\ \E k \in Kids : published = {k} /\ signing = k
    /\ retired_at = [k \in Kids |-> Never]
    /\ cache = NoCache

----------------------------------------------------------------------------
(* The provider (external).                                                *)

\* A new key is published and signs from now on; key ids are not used again.
Publish(k) ==
    /\ k \notin published /\ retired_at[k] = Never
    /\ published' = published \cup {k} /\ signing' = k
    /\ UNCHANGED <<now, retired_at, cache>>

\* A key that no longer signs leaves the document.
Retire(k) ==
    /\ k \in published \ {signing}
    /\ published' = published \ {k}
    /\ retired_at' = [retired_at EXCEPT ![k] = now]
    /\ UNCHANGED <<now, signing, cache>>

----------------------------------------------------------------------------
(* CachedJwksProvider.                                                     *)

\* _refresh: the whole document is fetched and its size checked; encryption
\* keys are members of it but never enter the cache.
Document == published \cup EncryptionKids

RefreshSucceeds(up) ==
    up /\ Cardinality(Document) \in 1..maximum_keys /\ Document \ EncryptionKids # {}

Refreshed == [keys |-> Document \ EncryptionKids, expires_at |-> now + cache_ttl]

\* Does get have to fetch: the cache has expired, or the key is unknown?
MustRefresh(kid) == now >= cache.expires_at \/ kid \notin cache.keys

\* The cache after get; a failed refresh leaves it as it was.
CacheAfter(kid, up) ==
    IF MustRefresh(kid) /\ RefreshSucceeds(up) THEN Refreshed ELSE cache

\* Faulty variant: a failed refresh falls back on the expired keys.
found_if_cached(kid, up) == kid \in CacheAfter(kid, up).keys

\* Does get return the key?  A refresh that fails raises.
KeyFound(kid, up) ==
    /\ MustRefresh(kid) => RefreshSucceeds(up)
    /\ kid \in CacheAfter(kid, up).keys

\* One lookup under the provider's lock.
get_key(kid, up) == cache' = CacheAfter(kid, up)

\* OidcAuthenticator.authenticate: signature, then expiry with leeway.
authenticates(token, up) ==
    KeyFound(token.kid, up) /\ now < token.expires_at + clock_skew
=============================================================================
