------------------------------ MODULE Gateway ------------------------------
(***************************************************************************)
(* The API's gate: the stateless authentication middleware with its replay *)
(* cache (gateway/stateless_auth.rs), the rate limiter behind it           *)
(* (gateway/ratelimit.rs, rate_limit_middleware.rs; the order of the       *)
(* layers is that of gateway/mod.rs) and the login challenges              *)
(* (services/auth.rs).  All of their state is in memory.                   *)
(*                                                                         *)
(* A token stands for the five x-auth headers of a request whose HMAC and  *)
(* signature verify; it may be delivered any number of times.              *)
(***************************************************************************)
EXTENDS Naturals, FiniteSets, Functions

CONSTANTS
    Pubkeys,
    Nonces,
    Requests,      \* deliveries of authenticated requests
    Challenges,    \* challenge ids
    Verifies,      \* deliveries of POST /auth/verify
    Hour,          \* ticks in an hour bucket
    MaxNonces,     \* MAX_NONCES_PER_BUCKET
    MaxRequests,   \* max_requests of the limiter
    Window,        \* window_duration, in ticks
    TTL,           \* CHALLENGE_TTL_SECS, in ticks
    MaxTime,       \* bound of the clock
    MaxRestarts    \* bound on restarts

ASSUME ClockAssumption == Hour \in Nat \ {0} /\ Window \in Nat /\ TTL \in Nat \ {0} /\ MaxTime \in Nat
ASSUME LimitAssumption == MaxNonces \in Nat \ {0} /\ MaxRequests \in Nat \ {0} /\ MaxRestarts \in Nat

VARIABLES
    clock,
    cache,      \* REPLAY_CACHE: hour |-> nonces; {} when there is no bucket
    buckets,    \* RateLimiter.buckets: key |-> [count, window_start]
    store,      \* CHALLENGES: id |-> expiry; 0 when absent
    st,         \* progress of each delivery
    ver,        \* progress of each verify
    restarts,
    passed,     \* tokens that passed check_replay since the start
    forgotten,  \* tokens the cache has dropped although they had passed
    admitted,   \* requests the limiter let through, per key, run of the process and tick
    started,    \* when each run of the process began
    issued      \* challenge id |-> its expiry; kept for ever

authVars == <<cache, st, passed, forgotten>>
loginVars == <<store, ver, issued>>
rateVars == <<buckets, admitted, started>>
vars == <<clock, authVars, loginVars, rateVars, restarts>>

MaxHour == MaxTime \div Hour
CurrentHour == clock \div Hour
Tokens == [pk : Pubkeys, hour : 0 .. MaxHour, nonce : Nonces]

(* get_rate_limit_key: the caller's public key, or, before login, when no  *)
(* header names one, a key every client shares.                            *)
Anonymous == "anonymous"
Keys == Pubkeys \cup {Anonymous}

NoEntry == [count |-> 0, window_start |-> 0]

GatewayTypeOK ==
    /\ clock \in 0 .. MaxTime
    /\ cache \in [0 .. MaxHour -> SUBSET Nonces]
    /\ \A h \in 0 .. MaxHour : Cardinality(cache[h]) <= MaxNonces
    /\ buckets \in [Keys -> [count : 0 .. MaxRequests, window_start : 0 .. MaxTime]]
    /\ store \in [Challenges -> 0 .. MaxTime + TTL]
    /\ \A r \in Requests : st[r].pc \in {"new", "in_window", "authenticated", "admitted",
                                         "stale", "replay", "limited", "lost"}
    /\ \A v \in Verifies : ver[v].pc \in {"new", "cleaned", "redeemed", "bad_request", "lost"}
    /\ restarts \in 0 .. MaxRestarts
    /\ forgotten \subseteq passed /\ passed \subseteq Tokens

GatewayInit ==
    /\ clock = 0
    /\ cache = [h \in 0 .. MaxHour |-> {}]
    /\ buckets = [k \in Keys |-> NoEntry]
    /\ store = [c \in Challenges |-> 0]
    /\ st = [r \in Requests |-> [pc |-> "new"]]
    /\ ver = [v \in Verifies |-> [pc |-> "new"]]
    /\ restarts = 0
    /\ passed = {}
    /\ forgotten = {}
    /\ admitted = [k \in Keys |-> [b \in 0 .. MaxRestarts |-> [t \in 0 .. MaxTime |-> 0]]]
    /\ started = [b \in 0 .. MaxRestarts |-> 0]
    /\ issued = [c \in Challenges |-> 0]

-----------------------------------------------------------------------------
(* RateLimiter::check *)

WindowOver(e) == e.count = 0 \/ clock - e.window_start > Window
Allows(k) == WindowOver(buckets[k]) \/ buckets[k].count < MaxRequests

Counted_SameWindow(e) ==
    IF WindowOver(e) THEN [e EXCEPT !.count = 1] ELSE [e EXCEPT !.count = @ + 1]
Counted(e) ==
    IF WindowOver(e) THEN [count |-> 1, window_start |-> clock] ELSE [e EXCEPT !.count = @ + 1]

Admit(k) ==
    /\ Allows(k)
    /\ buckets' = [buckets EXCEPT ![k] = Counted(@)]
    /\ admitted' = [admitted EXCEPT ![k][restarts][clock] = @ + 1]
    /\ UNCHANGED started

-----------------------------------------------------------------------------
(* stateless_auth_middleware.  The hour is read once, before the HMAC and  *)
(* the signature are verified; the replay cache is looked at after them.   *)

CheckHour(r, token) ==
    /\ st[r].pc = "new"
    /\ st' = [st EXCEPT ![r] = IF token.hour <= CurrentHour /\ token.hour + 1 >= CurrentHour
                                 THEN [pc |-> "in_window", token |-> token]
                                 ELSE [pc |-> "stale"]]
    /\ UNCHANGED <<clock, cache, passed, forgotten, loginVars, rateVars, restarts>>

Retained_OneHour(h, hour_bucket) == h >= hour_bucket
Retained(h, hour_bucket) == h + 1 >= hour_bucket

(* The bucket of hour h as check_replay leaves it before it inserts. *)
Kept_Unbounded(h, hour_bucket) == IF Retained(h, hour_bucket) THEN cache[h] ELSE {}
Kept(h, hour_bucket) ==
    IF \/ ~ Retained(h, hour_bucket)
       \/ h = hour_bucket /\ Cardinality(cache[h]) >= MaxNonces
    THEN {} ELSE cache[h]

check_replay(r) ==
    LET tok == st[r].token
        kept == [h \in 0 .. MaxHour |-> Kept(h, tok.hour)]
    IN
    /\ st[r].pc = "in_window"
    /\ cache' = [kept EXCEPT ![tok.hour] = @ \cup {tok.nonce}]
    /\ forgotten' = forgotten \cup {t \in passed : /\ t.hour = tok.hour
                                                   /\ t.nonce \in cache[t.hour] \ kept[t.hour]}
    /\ \/ /\ tok.nonce \notin kept[tok.hour]
          /\ st' = [st EXCEPT ![r].pc = "authenticated"]
          /\ passed' = passed \cup {tok}
       \/ /\ tok.nonce \in kept[tok.hour]
          /\ st' = [st EXCEPT ![r] = [pc |-> "replay"]]
          /\ UNCHANGED passed
    /\ UNCHANGED <<clock, loginVars, rateVars, restarts>>

(* The limiter comes after authentication: a request it turns away has     *)
(* used up its nonce.                                                      *)
rate_limit_middleware(r) ==
    /\ st[r].pc = "authenticated"
    /\ \/ /\ Admit(st[r].token.pk)
          /\ st' = [st EXCEPT ![r] = [pc |-> "admitted"]]
       \/ /\ ~ Allows(st[r].token.pk)
          /\ st' = [st EXCEPT ![r] = [pc |-> "limited"]]
          /\ UNCHANGED rateVars
    /\ UNCHANGED <<clock, cache, passed, forgotten, loginVars, restarts>>

-----------------------------------------------------------------------------
(* services/auth.rs *)

cleanup_challenges == [c \in Challenges |-> IF store[c] > clock THEN store[c] ELSE 0]

(* POST /auth/challenge: a fresh id, after the expired ones are dropped. *)
challenge(c) ==
    /\ issued[c] = 0
    /\ Admit(Anonymous)
    /\ store' = [cleanup_challenges EXCEPT ![c] = clock + TTL]
    /\ issued' = [issued EXCEPT ![c] = clock + TTL]
    /\ UNCHANGED <<clock, authVars, ver, restarts>>

(* POST /auth/verify takes the lock twice: to clean up, and to remove.     *)
verify_cleanup(v, c) ==
    /\ ver[v].pc = "new" /\ issued[c] # 0
    /\ Admit(Anonymous)
    /\ store' = cleanup_challenges
    /\ ver' = [ver EXCEPT ![v] = [pc |-> "cleaned", challenge_id |-> c, at |-> clock]]
    /\ UNCHANGED <<clock, authVars, issued, restarts>>

(* The challenge is gone even when the signature turns out to be wrong.    *)
verify_remove_FoundBefore(v, good_signature) ==
    LET c == ver[v].challenge_id IN
    /\ ver[v].pc = "cleaned"
    /\ store' = [store EXCEPT ![c] = 0]
    /\ ver' = [ver EXCEPT ![v].pc = IF ver[v].at < issued[c] /\ good_signature THEN "redeemed"
                                    ELSE "bad_request"]
    /\ UNCHANGED <<clock, authVars, rateVars, issued, restarts>>
verify_remove(v, good_signature) ==
    LET c == ver[v].challenge_id IN
    /\ ver[v].pc = "cleaned"
    /\ store' = [store EXCEPT ![c] = 0]
    /\ ver' = [ver EXCEPT ![v].pc = IF store[c] # 0 /\ good_signature THEN "redeemed"
                                    ELSE "bad_request"]
    /\ UNCHANGED <<clock, authVars, rateVars, issued, restarts>>

-----------------------------------------------------------------------------
Tick ==
    /\ clock < MaxTime
    /\ clock' = clock + 1
    /\ UNCHANGED <<authVars, loginVars, rateVars, restarts>>

Restart ==
    /\ restarts < MaxRestarts
    /\ restarts' = restarts + 1
    /\ cache' = [h \in 0 .. MaxHour |-> {}]
    /\ buckets' = [k \in Keys |-> NoEntry]
    /\ store' = [c \in Challenges |-> 0]
    /\ st' = [r \in Requests |-> IF st[r].pc \in {"in_window", "authenticated"}
                                   THEN [pc |-> "lost"] ELSE st[r]]
    /\ ver' = [v \in Verifies |-> IF ver[v].pc = "cleaned" THEN [pc |-> "lost"] ELSE ver[v]]
    /\ forgotten' = passed
    /\ started' = [started EXCEPT ![restarts + 1] = clock]
    /\ UNCHANGED <<clock, passed, issued, admitted>>

GatewayNext ==
    \/ \E r \in Requests : check_replay(r) \/ rate_limit_middleware(r)
    \/ \E r \in Requests, token \in Tokens : CheckHour(r, token)
    \/ \E c \in Challenges : challenge(c)
    \/ \E v \in Verifies, c \in Challenges : verify_cleanup(v, c)
    \/ \E v \in Verifies, good \in BOOLEAN : verify_remove(v, good)
    \/ Tick
    \/ Restart

GatewaySpec == GatewayInit /\ [][GatewayNext]_vars

-----------------------------------------------------------------------------
(* A token passes check_replay a second time only after the cache was made *)
(* to forget it, by a restart or a full bucket, or when its hour ran out   *)
(* while its signature was being verified: dropping the buckets of past    *)
(* hours never readmits a token that is still valid.                       *)
Passes(r) == st[r].pc = "in_window" /\ st'[r].pc = "authenticated"
ReplayOnlyAfterForgetting ==
    [][\A r \in Requests : Passes(r) /\ st[r].token \in passed =>
          st[r].token \in forgotten' \/ st[r].token.hour + 1 < CurrentHour]_vars

(* The limiter counts in fixed windows that begin with a request and are   *)
(* lost with the process.  So within any span of one window a run of the   *)
(* process lets a key through for two full windows less the request the    *)
(* first began with, and a run that begins inside the span for one: what a *)
(* restart adds is one more limit.  Whoever else calls and however the     *)
(* calls fall.                                                             *)
Span(t) == {u \in t .. t + Window : u <= MaxTime}
AtMostTwicePerWindow ==
    \A k \in Keys, b \in 0 .. MaxRestarts, t \in 0 .. MaxTime :
        SumFunctionOnSet(admitted[k][b], Span(t)) <=
            IF started[b] < t THEN 2 * MaxRequests - 1 ELSE MaxRequests

(* A challenge logs in at most one client, once, and only one whose verify *)
(* request arrived before it expired, although cleaning up and removing    *)
(* are separate steps.                                                     *)
ChallengeRedeemedOnceInTime ==
    \A v \in Verifies : ver[v].pc = "redeemed" =>
        /\ ver[v].at < issued[ver[v].challenge_id]
        /\ \A w \in Verifies \ {v} :
              ver[w].pc = "redeemed" => ver[w].challenge_id # ver[v].challenge_id
=============================================================================
