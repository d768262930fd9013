--------------------------- MODULE GatewayProofs ---------------------------
(***************************************************************************)
(* What the gate guarantees for any number of clients, deliveries and      *)
(* challenges, and for any lengths of the hour, of the limiter's window    *)
(* and of a challenge's life.                                              *)
(***************************************************************************)
EXTENDS Gateway, SumTheorems

(* A delivery carries its token from the check of its hour to the limiter. *)
Delivery == [pc : {"new", "admitted", "stale", "replay", "limited", "lost"}]
            \cup [pc : {"in_window", "authenticated"}, token : Tokens]

(* A verify names its challenge from the moment it has cleaned up.         *)
VerifyState == [pc : {"new", "lost"}]
               \cup [pc : {"cleaned", "redeemed", "bad_request"},
                     challenge_id : Challenges, at : 0 .. MaxTime]

Entry == [count : 0 .. MaxRequests, window_start : 0 .. MaxTime]

ClockTyped == clock \in 0 .. MaxTime /\ restarts \in 0 .. MaxRestarts
AuthTyped ==
    /\ cache \in [0 .. MaxHour -> SUBSET Nonces]
    /\ st \in [Requests -> Delivery]
    /\ passed \in SUBSET Tokens
    /\ forgotten \in SUBSET passed
LoginTyped ==
    /\ store \in [Challenges -> 0 .. MaxTime + TTL]
    /\ issued \in [Challenges -> 0 .. MaxTime + TTL]
    /\ ver \in [Verifies -> VerifyState]
RateTyped ==
    /\ buckets \in [Keys -> Entry]
    /\ admitted \in [Keys -> [0 .. MaxRestarts -> [0 .. MaxTime -> Nat]]]
    /\ started \in [0 .. MaxRestarts -> 0 .. MaxTime]

(* No bucket of the replay cache outgrows its limit. *)
Bounded == \A h \in 0 .. MaxHour : IsFiniteSet(cache[h]) /\ Cardinality(cache[h]) <= MaxNonces

(* The hour of a token being verified has begun. *)
Begun == \A r \in Requests : st[r].pc = "in_window" => st[r].token.hour <= CurrentHour

(* The cache remembers every token that passed, except those it was made   *)
(* to forget and those whose hour is over.                                 *)
Remembered == \A t \in passed : \/ t \in forgotten
                                \/ t.nonce \in cache[t.hour]
                                \/ t.hour + 1 < CurrentHour

(* A challenge in the store has the expiry it was issued with. *)
Stored == \A c \in Challenges : store[c] \in {0, issued[c]}

(* A verify that has cleaned up finds only a challenge that had not        *)
(* expired when it arrived; one that redeemed has taken it away for good.  *)
Cleaned == \A v \in Verifies : ver[v].pc = "cleaned" =>
    LET c == ver[v].challenge_id IN
    /\ issued[c] # 0
    /\ store[c] # 0 => ver[v].at < issued[c]
Redeemed == \A v \in Verifies : ver[v].pc = "redeemed" =>
    LET c == ver[v].challenge_id IN
    /\ issued[c] # 0 /\ store[c] = 0
    /\ ver[v].at < issued[c]
    /\ \A w \in Verifies \ {v} : ver[w].pc = "redeemed" => ver[w].challenge_id # c

Earlier(t, s) == {u \in Span(t) : u < s}

(* What a run of the process that began at s0 let a key through, A, and    *)
(* the key's entry e at time now: the window began with a request, the     *)
(* count is what came since, none of it later than the window; a span that *)
(* reaches back before the window holds at most one window's worth of      *)
(* earlier requests, without the one that window began with, and none at   *)
(* all if it reaches back to the beginning of the run.                     *)
Older(s0, t) == IF s0 < t THEN MaxRequests - 1 ELSE 0
InWindow(A, e, s0) ==
    /\ s0 <= e.window_start
    /\ A[e.window_start] # 0
    /\ \A u \in 0 .. MaxTime : u > e.window_start + Window => A[u] = 0
    /\ SumFunctionOnSet(A, e.window_start .. MaxTime) = e.count
    /\ \A t \in 0 .. MaxTime : t + Window >= e.window_start =>
          SumFunctionOnSet(A, Earlier(t, e.window_start)) <= Older(s0, t)
Within(A, s0) ==
    \A t \in 0 .. MaxTime :
        SumFunctionOnSet(A, Span(t)) <= IF s0 < t THEN 2 * MaxRequests - 1 ELSE MaxRequests
Nothing(A) == \A u \in 0 .. MaxTime : A[u] = 0
Rated(A, e, now, s0) ==
    /\ e.window_start <= now /\ s0 <= now
    /\ e.count = 0 => Nothing(A)
    /\ e.count # 0 => InWindow(A, e, s0)
    /\ Within(A, s0)

(* The run that is on counts; earlier ones are over, later ones have let   *)
(* nothing through.                                                        *)
Limited ==
    \A k \in Keys :
        /\ Rated(admitted[k][restarts], buckets[k], clock, started[restarts])
        /\ \A b \in 0 .. MaxRestarts :
              /\ Within(admitted[k][b], started[b])
              /\ b > restarts => Nothing(admitted[k][b])

GatewayInv ==
    /\ ClockTyped
    /\ AuthTyped /\ Bounded /\ Begun /\ Remembered
    /\ LoginTyped /\ Stored /\ Cleaned /\ Redeemed
    /\ RateTyped /\ Limited

-----------------------------------------------------------------------------
(* The rate limiter. *)

(* The spans and what they are cut into are finite sets of ticks.          *)
LEMMA SpanFacts ==
    ASSUME NEW t \in 0 .. MaxTime, NEW s \in 0 .. MaxTime
    PROVE  /\ Span(t) \subseteq 0 .. MaxTime /\ IsFiniteSet(Span(t))
           /\ Earlier(t, s) \subseteq Span(t) /\ IsFiniteSet(Earlier(t, s))
           /\ Earlier(t, s) \subseteq 0 .. MaxTime
           /\ s .. MaxTime \subseteq 0 .. MaxTime /\ IsFiniteSet(s .. MaxTime)
           /\ Span(t) \ Earlier(t, s) \subseteq s .. MaxTime
<1>1. Span(t) \subseteq 0 .. MaxTime /\ Earlier(t, s) \subseteq Span(t)
  BY ClockAssumption DEF Span, Earlier
<1>2. s .. MaxTime \subseteq 0 .. MaxTime /\ IsFiniteSet(0 .. MaxTime)
  BY ClockAssumption, FS_Interval
<1>3. Span(t) \ Earlier(t, s) \subseteq s .. MaxTime
  BY ClockAssumption DEF Span, Earlier
<1> QED BY <1>1, <1>2, <1>3, FS_Subset

(* B is A with one request more at tick now. *)
OneMore(A, B, now) ==
    /\ B \in [0 .. MaxTime -> Nat]
    /\ B[now] = A[now] + 1
    /\ \A u \in (0 .. MaxTime) \ {now} : B[u] = A[u]

(* One more at a tick outside a set does not change the set's sum; one     *)
(* inside makes it one more.                                               *)
LEMMA SumBump ==
    ASSUME NEW A \in [0 .. MaxTime -> Nat], NEW now \in 0 .. MaxTime,
           NEW S, S \subseteq 0 .. MaxTime, IsFiniteSet(S),
           NEW B, OneMore(A, B, now)
    PROVE  /\ SumFunctionOnSet(A, S) \in Nat
           /\ now \notin S => SumFunctionOnSet(B, S) = SumFunctionOnSet(A, S)
           /\ now \in S => SumFunctionOnSet(B, S) = SumFunctionOnSet(A, S) + 1
<1>1. B \in [0 .. MaxTime -> Nat] /\ B[now] = A[now] + 1
  BY DEF OneMore
<1>2. (\A x \in S : A[x] \in Nat) /\ (\A x \in S : B[x] \in Nat)
  BY <1>1
<1>3. SumFunctionOnSet(A, S) \in Nat
  BY <1>2, SumTake
<1>4. ASSUME now \notin S PROVE SumFunctionOnSet(B, S) = SumFunctionOnSet(A, S)
  <2>1. \A x \in S : B[x] = A[x] /\ B[x] \in Nat
    BY <1>4, <1>2 DEF OneMore
  <2> QED BY <2>1, SumSame
<1>5. ASSUME now \in S PROVE SumFunctionOnSet(B, S) = SumFunctionOnSet(A, S) + 1
  <2> DEFINE T == S \ {now}
  <2>1. IsFiniteSet(T) /\ \A x \in T : B[x] = A[x] /\ B[x] \in Nat
    BY <1>2, FS_Subset DEF OneMore
  <2>2. SumFunctionOnSet(B, T) = SumFunctionOnSet(A, T)
    <3> HIDE DEF T
    <3> QED BY <2>1, SumSame
  <2>3. SumFunctionOnSet(A, S) = A[now] + SumFunctionOnSet(A, T)
    BY <1>2, <1>5, SumTake, ZenonT(60)
  <2>4. SumFunctionOnSet(B, S) = B[now] + SumFunctionOnSet(B, T)
    BY <1>2, <1>5, SumTake, ZenonT(60)
  <2>5. SumFunctionOnSet(A, T) \in Nat
    <3>1. \A x \in T : A[x] \in Nat
      BY <1>2
    <3> HIDE DEF T
    <3> QED BY <2>1, <3>1, SumTake
  <2> HIDE DEF T
  <2> QED BY <1>1, <2>2, <2>3, <2>4, <2>5
<1> QED BY <1>3, <1>4, <1>5

(* A span holds at most what came before the window and the window itself. *)
LEMMA SpanBound ==
    ASSUME NEW A, \A u \in 0 .. MaxTime : A[u] \in Nat,
           NEW t \in 0 .. MaxTime, NEW s \in 0 .. MaxTime
    PROVE  /\ SumFunctionOnSet(A, Earlier(t, s)) \in Nat
           /\ SumFunctionOnSet(A, s .. MaxTime) \in Nat
           /\ SumFunctionOnSet(A, Span(t)) \in Nat
           /\ SumFunctionOnSet(A, Span(t)) <=
                 SumFunctionOnSet(A, Earlier(t, s)) + SumFunctionOnSet(A, s .. MaxTime)
<1> DEFINE E == Earlier(t, s)
           L == Span(t) \ E
<1>1. /\ IsFiniteSet(Span(t)) /\ E \subseteq Span(t) /\ L \subseteq s .. MaxTime
      /\ IsFiniteSet(s .. MaxTime)
  BY SpanFacts
<1>2. (\A x \in Span(t) : A[x] \in Nat) /\ (\A x \in s .. MaxTime : A[x] \in Nat)
  BY SpanFacts
<1>4. SumFunctionOnSet(A, E) \in Nat
  <2> HIDE DEF E
  <2> QED BY <1>1, <1>2, SumSplit
<1>5. /\ SumFunctionOnSet(A, L) <= SumFunctionOnSet(A, s .. MaxTime)
      /\ SumFunctionOnSet(A, L) \in Nat /\ SumFunctionOnSet(A, s .. MaxTime) \in Nat
  <2> HIDE DEF L
  <2> QED BY <1>1, <1>2, SumPart
<1>3. SumFunctionOnSet(A, Span(t)) = SumFunctionOnSet(A, E) + SumFunctionOnSet(A, L)
  <2> DEFINE Sp == Span(t)
  <2>1. IsFiniteSet(Sp) /\ E \subseteq Sp /\ L = Sp \ E /\ \A x \in Sp : A[x] \in Nat
    BY <1>1, <1>2
  <2>2. SumFunctionOnSet(A, Sp) = SumFunctionOnSet(A, E) + SumFunctionOnSet(A, L)
    <3> HIDE DEF E, L, Sp
    <3>1. SumFunctionOnSet(A, Sp) \in Nat
      BY <2>1, SumTake
    <3> QED BY <1>4, <1>5, <2>1, <3>1, SumParts
  <2> QED BY <2>2
<1> HIDE DEF E, L
<1>6. SumFunctionOnSet(A, Span(t)) \in Nat
  BY <1>3, <1>4, <1>5
<1>7. SumFunctionOnSet(A, Span(t)) <= SumFunctionOnSet(A, E) + SumFunctionOnSet(A, s .. MaxTime)
  BY <1>3, <1>4, <1>5
<1> QED BY <1>4, <1>5, <1>6, <1>7 DEF E

(* One request more in the window that is running.                         *)
LEMMA SameWindow ==
    ASSUME NEW A \in [0 .. MaxTime -> Nat], NEW e \in Entry, NEW now \in 0 .. MaxTime,
           NEW s0 \in 0 .. MaxTime,
           Rated(A, e, now, s0), e.count # 0, ~ now - e.window_start > Window,
           e.count < MaxRequests,
           NEW B, OneMore(A, B, now),
           NEW f \in Entry, f.count = e.count + 1, f.window_start = e.window_start
    PROVE  InWindow(B, f, s0)
<1> DEFINE s == e.window_start
<1>1. s \in 0 .. MaxTime /\ s <= now /\ InWindow(A, e, s0) /\ MaxTime \in Nat /\ Window \in Nat
  BY ClockAssumption DEF Rated, Entry
<1>2. \A u \in 0 .. MaxTime : u > s + Window => B[u] = 0
  BY <1>1 DEF InWindow, OneMore
<1>3. SumFunctionOnSet(B, s .. MaxTime) = SumFunctionOnSet(A, s .. MaxTime) + 1
  <2>1. now \in s .. MaxTime
    BY <1>1
  <2>2. s .. MaxTime \subseteq 0 .. MaxTime /\ IsFiniteSet(s .. MaxTime)
    BY <1>1, SpanFacts
  <2> HIDE DEF s
  <2> QED BY <2>1, <2>2, SumBump
<1>4. \A t \in 0 .. MaxTime : t + Window >= s =>
         SumFunctionOnSet(B, Earlier(t, s)) <= Older(s0, t)
  <2> SUFFICES ASSUME NEW t \in 0 .. MaxTime, t + Window >= s
               PROVE  SumFunctionOnSet(B, Earlier(t, s)) <= Older(s0, t)
    OBVIOUS
  <2>1. now \notin Earlier(t, s)
    BY <1>1 DEF Earlier
  <2>2. Earlier(t, s) \subseteq 0 .. MaxTime /\ IsFiniteSet(Earlier(t, s))
    BY <1>1, SpanFacts
  <2>3. SumFunctionOnSet(B, Earlier(t, s)) = SumFunctionOnSet(A, Earlier(t, s))
    <3> HIDE DEF s
    <3> QED BY <2>1, <2>2, SumBump
  <2> QED BY <1>1, <2>3 DEF InWindow
<1>5. SumFunctionOnSet(A, s .. MaxTime) = e.count
  BY <1>1 DEF InWindow
<1>6. s0 <= s /\ B[s] # 0
  <2>1. s0 <= s /\ A[s] # 0 /\ A[s] \in Nat /\ A[now] \in Nat
    BY <1>1 DEF InWindow
  <2> QED BY <1>1, <2>1 DEF OneMore
<1> QED BY <1>2, <1>3, <1>4, <1>5, <1>6 DEF InWindow

(* What came in the last window, without the request it began with.        *)
LEMMA LastWindow ==
    ASSUME NEW A \in [0 .. MaxTime -> Nat], NEW s \in 0 .. MaxTime, A[s] # 0,
           NEW S, S \subseteq (s .. MaxTime) \ {s}
    PROVE  /\ SumFunctionOnSet(A, S) \in Nat
           /\ SumFunctionOnSet(A, s .. MaxTime) \in Nat
           /\ SumFunctionOnSet(A, S) + 1 <= SumFunctionOnSet(A, s .. MaxTime)
<1> DEFINE W == s .. MaxTime
           T == W \ {s}
<1>1. IsFiniteSet(W) /\ s \in W /\ \A x \in W : A[x] \in Nat
  BY SpanFacts, ClockAssumption
<1>2. IsFiniteSet(T) /\ S \subseteq T /\ \A x \in T : A[x] \in Nat
  BY <1>1, FS_Subset
<1>3. SumFunctionOnSet(A, W) = A[s] + SumFunctionOnSet(A, T) /\ SumFunctionOnSet(A, W) \in Nat
  <2> HIDE DEF W
  <2>1. /\ SumFunctionOnSet(A, W) \in Nat
        /\ \A x \in W : SumFunctionOnSet(A, W) = A[x] + SumFunctionOnSet(A, W \ {x})
    BY <1>1, SumTake
  <2> QED BY <1>1, <2>1
<1>4. /\ SumFunctionOnSet(A, S) <= SumFunctionOnSet(A, T)
      /\ SumFunctionOnSet(A, S) \in Nat /\ SumFunctionOnSet(A, T) \in Nat
  <2> HIDE DEF T
  <2> QED BY <1>2, SumPart
<1>5. A[s] \in Nat /\ A[s] # 0
  OBVIOUS
<1>6. SumFunctionOnSet(A, S) + 1 <= SumFunctionOnSet(A, W)
  <2> HIDE DEF W, T
  <2> QED BY <1>3, <1>4, <1>5
<1> QED BY <1>3, <1>4, <1>6

(* The first request of a new window: no request came at this tick or      *)
(* later, and a span that reaches it from before begins inside the last    *)
(* window, after the request that one began with.                          *)
LEMMA NewWindow ==
    ASSUME NEW A \in [0 .. MaxTime -> Nat], NEW e \in Entry, NEW now \in 0 .. MaxTime,
           NEW s0 \in 0 .. MaxTime,
           Rated(A, e, now, s0), e.count = 0 \/ now - e.window_start > Window,
           NEW B, OneMore(A, B, now),
           NEW f \in Entry, f.count = 1, f.window_start = now
    PROVE  InWindow(B, f, s0)
<1> DEFINE s == e.window_start
<1>1. /\ s \in 0 .. MaxTime /\ s <= now /\ MaxTime \in Nat /\ Window \in Nat
      /\ e.count \in 0 .. MaxRequests /\ MaxRequests \in Nat \ {0} /\ s0 <= now
  BY ClockAssumption, LimitAssumption DEF Rated, Entry
<1>2. \A u \in now .. MaxTime : A[u] = 0
  <2>1. CASE e.count = 0
    BY <1>1, <2>1 DEF Rated, Nothing
  <2>2. CASE e.count # 0
    BY <1>1, <2>2 DEF Rated, InWindow
  <2> QED BY <2>1, <2>2
<1>3. now .. MaxTime \subseteq 0 .. MaxTime /\ IsFiniteSet(now .. MaxTime) /\ now \in now .. MaxTime
  BY <1>1, SpanFacts
<1>4. SumFunctionOnSet(B, now .. MaxTime) = 1
  <2>1. SumFunctionOnSet(A, now .. MaxTime) = 0
    BY <1>2, <1>3, SumZero
  <2>2. SumFunctionOnSet(B, now .. MaxTime) = SumFunctionOnSet(A, now .. MaxTime) + 1
    <3> DEFINE T == now .. MaxTime
    <3>1. T \subseteq 0 .. MaxTime /\ IsFiniteSet(T) /\ now \in T
      BY <1>3
    <3> HIDE DEF T
    <3>2. SumFunctionOnSet(B, T) = SumFunctionOnSet(A, T) + 1
      BY <3>1, SumBump, ZenonT(60)
    <3> QED BY <3>2 DEF T
  <2> QED BY <2>1, <2>2
<1>5. \A u \in 0 .. MaxTime : u > now + Window => B[u] = 0
  BY <1>1, <1>2 DEF OneMore
<1>6. \A t \in 0 .. MaxTime : t + Window >= now =>
         SumFunctionOnSet(B, Earlier(t, now)) <= Older(s0, t)
  <2> SUFFICES ASSUME NEW t \in 0 .. MaxTime, t + Window >= now
               PROVE  SumFunctionOnSet(B, Earlier(t, now)) <= Older(s0, t)
    OBVIOUS
  <2>1. now \notin Earlier(t, now)
    BY <1>1 DEF Earlier
  <2>2. Earlier(t, now) \subseteq 0 .. MaxTime /\ IsFiniteSet(Earlier(t, now))
    BY <1>1, SpanFacts
  <2>3. SumFunctionOnSet(B, Earlier(t, now)) = SumFunctionOnSet(A, Earlier(t, now))
    BY <2>1, <2>2, SumBump
  <2>4. CASE e.count = 0
    <3>1. \A x \in Earlier(t, now) : A[x] = 0
      BY <2>2, <2>4 DEF Rated, Nothing
    <3>2. SumFunctionOnSet(A, Earlier(t, now)) = 0
      BY <2>2, <3>1, SumZero
    <3> QED BY <1>1, <2>3, <3>2 DEF Older
  <2>5. CASE e.count # 0
    <3>1. s0 <= s /\ A[s] # 0 /\ SumFunctionOnSet(A, s .. MaxTime) = e.count
      BY <2>5 DEF Rated, InWindow
    <3>2. t > s /\ s0 < t
      BY <1>1, <2>5, <3>1
    <3>3. Earlier(t, now) \subseteq (s .. MaxTime) \ {s}
      BY <1>1, <3>2, SMTT(30) DEF Earlier, Span
    <3>4. /\ SumFunctionOnSet(A, Earlier(t, now)) + 1 <= e.count
          /\ SumFunctionOnSet(A, Earlier(t, now)) \in Nat
      <4> HIDE DEF s
      <4> QED BY <1>1, <3>1, <3>3, LastWindow
    <3>5. SumFunctionOnSet(A, Earlier(t, now)) <= MaxRequests - 1
      BY <1>1, <3>4
    <3> QED BY <2>3, <3>2, <3>5 DEF Older
  <2> QED BY <2>4, <2>5
<1>7. B[now] # 0
  BY DEF OneMore
<1> QED BY <1>1, <1>4, <1>5, <1>6, <1>7 DEF InWindow

(* RateLimiter::check lets a request through only within the limit.        *)
LEMMA CheckRated ==
    ASSUME NEW A \in [0 .. MaxTime -> Nat], NEW e \in Entry, NEW now \in 0 .. MaxTime,
           NEW s0 \in 0 .. MaxTime,
           Rated(A, e, now, s0), NEW B, OneMore(A, B, now),
           NEW f \in Entry, f.count # 0, f.window_start <= now, InWindow(B, f, s0)
    PROVE  Rated(B, f, now, s0)
<1> DEFINE s == f.window_start
<1>1. /\ s \in 0 .. MaxTime /\ s <= now /\ MaxTime \in Nat /\ Window \in Nat
      /\ f.count \in 0 .. MaxRequests /\ MaxRequests \in Nat \ {0}
      /\ B \in [0 .. MaxTime -> Nat]
  BY ClockAssumption, LimitAssumption DEF Entry, OneMore
<1>2. ASSUME NEW t \in 0 .. MaxTime
      PROVE  SumFunctionOnSet(B, Span(t)) <= IF s0 < t THEN 2 * MaxRequests - 1 ELSE MaxRequests
  <2>1. Span(t) \subseteq 0 .. MaxTime /\ IsFiniteSet(Span(t))
    BY SpanFacts
  <2>2. CASE now \notin Span(t)
    <3>1. SumFunctionOnSet(B, Span(t)) = SumFunctionOnSet(A, Span(t))
      BY <2>1, <2>2, SumBump
    <3> QED BY <3>1 DEF Rated, Within
  <2>3. CASE now \in Span(t)
    <3>1. t + Window >= s
      BY <1>1, <2>3 DEF Span
    <3>2. SumFunctionOnSet(B, Earlier(t, s)) <= Older(s0, t)
      BY <3>1 DEF InWindow
    <3>3. SumFunctionOnSet(B, s .. MaxTime) = f.count
      BY DEF InWindow
    <3>4. /\ SumFunctionOnSet(B, Earlier(t, s)) \in Nat
          /\ SumFunctionOnSet(B, Span(t)) \in Nat
          /\ SumFunctionOnSet(B, Span(t)) <=
                SumFunctionOnSet(B, Earlier(t, s)) + SumFunctionOnSet(B, s .. MaxTime)
      <4> HIDE DEF s
      <4> QED BY <1>1, SpanBound
    <3>5. CASE s0 < t
      BY <1>1, <3>2, <3>3, <3>4, <3>5, SMTT(30) DEF Older
    <3>6. CASE ~ s0 < t
      BY <1>1, <3>2, <3>3, <3>4, <3>6, SMTT(30) DEF Older
    <3> QED BY <3>5, <3>6
  <2> QED BY <2>2, <2>3
<1>3. s0 <= now
  BY DEF Rated
<1> QED BY <1>1, <1>2, <1>3 DEF Rated, Within

(* Whoever calls, the limiter keeps its books.                             *)
LEMMA AdmitKeeps ==
    ASSUME ClockTyped, RateTyped, Limited, NEW k \in Keys, Admit(k), clock' = clock,
           restarts' = restarts
    PROVE  RateTyped' /\ Limited'
<1> DEFINE A == admitted[k][restarts]
           e == buckets[k]
           s0 == started[restarts]
           B == [A EXCEPT ![clock] = @ + 1]
           f == Counted(e)
<1>1. /\ A \in [0 .. MaxTime -> Nat] /\ e \in Entry /\ clock \in 0 .. MaxTime
      /\ s0 \in 0 .. MaxTime /\ Rated(A, e, clock, s0)
      /\ restarts \in 0 .. MaxRestarts
  BY DEF ClockTyped, RateTyped, Limited
<1>2. OneMore(A, B, clock)
  <2> HIDE DEF A, e, f
  <2>1. B \in [0 .. MaxTime -> Nat] /\ B[clock] = A[clock] + 1
    BY <1>1
  <2>2. \A u \in (0 .. MaxTime) \ {clock} : B[u] = A[u]
    BY <1>1
  <2> HIDE DEF B
  <2> QED BY <2>1, <2>2 DEF OneMore
<1>3. WindowOver(e) \/ e.count < MaxRequests
  BY DEF Admit, Allows
<1>4. f \in Entry /\ f.count # 0 /\ f.window_start <= clock /\ InWindow(B, f, s0)
  <2>1. CASE WindowOver(e)
    <3>1. f = [count |-> 1, window_start |-> clock]
      BY <2>1 DEF Counted
    <3>2. f \in Entry /\ f.count = 1 /\ f.window_start = clock
      BY <1>1, <3>1, LimitAssumption, ClockAssumption DEF Entry
    <3>3. e.count = 0 \/ clock - e.window_start > Window
      BY <2>1 DEF WindowOver
    <3>4. InWindow(B, f, s0)
      <4> HIDE DEF A, B, e, f, s0
      <4> QED BY <1>1, <1>2, <3>2, <3>3, NewWindow
    <3> QED BY <1>1, <3>2, <3>4, ClockAssumption
  <2>2. CASE ~ WindowOver(e)
    <3>1. f = [e EXCEPT !.count = @ + 1]
      BY <2>2 DEF Counted
    <3>2. /\ e.count # 0 /\ ~ clock - e.window_start > Window /\ e.count < MaxRequests
      BY <1>3, <2>2 DEF WindowOver
    <3>3. f \in Entry /\ f.count = e.count + 1 /\ f.window_start = e.window_start
      BY <1>1, <3>1, <3>2, LimitAssumption, ClockAssumption, SMTT(30) DEF Entry
    <3>4. InWindow(B, f, s0)
      <4> HIDE DEF A, B, e, f, s0
      <4> QED BY <1>1, <1>2, <3>2, <3>3, SameWindow
    <3>5. f.count # 0 /\ f.window_start <= clock
      BY <1>1, <3>2, <3>3 DEF Rated, Entry
    <3> QED BY <3>3, <3>4, <3>5
  <2> QED BY <2>1, <2>2
<1>5. Rated(B, f, clock, s0)
  <2> HIDE DEF A, B, e, f, s0
  <2> QED BY <1>1, <1>2, <1>4, CheckRated
<1>6. /\ buckets' = [buckets EXCEPT ![k] = f]
      /\ admitted' = [admitted EXCEPT ![k] = [@ EXCEPT ![restarts] = B]]
      /\ started' = started
  BY <1>1 DEF Admit
<1>7. B \in [0 .. MaxTime -> Nat]
  BY <1>2 DEF OneMore
<1> HIDE DEF A, B, e, f
<1>8. RateTyped'
  <2>1. [admitted[k] EXCEPT ![restarts] = B] \in [0 .. MaxRestarts -> [0 .. MaxTime -> Nat]]
    BY <1>7 DEF RateTyped
  <2>2. admitted' = [admitted EXCEPT ![k] = [admitted[k] EXCEPT ![restarts] = B]]
    BY <1>6
  <2> QED BY <1>4, <1>6, <2>1, <2>2 DEF RateTyped
<1>9. Limited'
  <2> SUFFICES ASSUME NEW j \in Keys
               PROVE  /\ Rated(admitted'[j][restarts], buckets'[j], clock, s0)
                      /\ \A b \in 0 .. MaxRestarts :
                            /\ Within(admitted'[j][b], started[b])
                            /\ b > restarts => Nothing(admitted'[j][b])
    BY <1>6 DEF Limited
  <2>1. CASE j = k
    <3>1. /\ admitted'[j] = [admitted[k] EXCEPT ![restarts] = B] /\ buckets'[j] = f
          /\ admitted[k] \in [0 .. MaxRestarts -> [0 .. MaxTime -> Nat]]
      BY <1>6, <2>1 DEF RateTyped
    <3>2. Within(B, s0)
      BY <1>5 DEF Rated
    <3>3. /\ admitted'[j][restarts] = B
          /\ \A b \in 0 .. MaxRestarts : b # restarts => admitted'[j][b] = admitted[k][b]
      BY <1>1, <3>1
    <3>4. \A b \in 0 .. MaxRestarts : /\ Within(admitted[k][b], started[b])
                                      /\ b > restarts => Nothing(admitted[k][b])
      BY DEF Limited
    <3>5. \A b \in 0 .. MaxRestarts : b > restarts => b # restarts
      BY <1>1, LimitAssumption
    <3> QED BY <1>5, <3>1, <3>2, <3>3, <3>4, <3>5
  <2>2. CASE j # k
    <3>1. admitted'[j] = admitted[j] /\ buckets'[j] = buckets[j]
      BY <1>6, <2>2 DEF RateTyped
    <3> QED BY <3>1 DEF Limited
  <2> QED BY <2>1, <2>2
<1> QED BY <1>8, <1>9

-----------------------------------------------------------------------------
(* The replay cache. *)

(* Hours go by with the clock, and none outlasts it.                       *)
LEMMA Hours ==
    ASSUME NEW a \in 0 .. MaxTime, NEW b \in 0 .. MaxTime, a <= b
    PROVE  /\ a \div Hour \in 0 .. MaxHour /\ b \div Hour \in 0 .. MaxHour /\ MaxHour \in Nat
           /\ a \div Hour <= b \div Hour
<1>1. a \div Hour \in Nat /\ b \div Hour \in Nat /\ MaxHour \in Nat
  BY ClockAssumption DEF MaxHour
<1>2. a \div Hour <= b \div Hour
  BY ClockAssumption
<1>3. b \div Hour <= MaxHour
  BY ClockAssumption DEF MaxHour
<1> QED BY <1>1, <1>2, <1>3

(* A token has a key, an hour and a nonce.                                 *)
LEMMA TokenFacts ==
    ASSUME NEW t \in Tokens
    PROVE  t.pk \in Keys /\ t.hour \in 0 .. MaxHour /\ t.nonce \in Nonces
BY DEF Tokens, Keys

(* A delivery before the limiter carries a token; moving on keeps it.      *)
LEMMA DeliveryFacts ==
    ASSUME NEW d \in Delivery
    PROVE  /\ d.pc \in {"in_window", "authenticated"} => d.token \in Tokens
           /\ d.pc = "in_window" =>
                 LET n == [d EXCEPT !.pc = "authenticated"] IN
                 n \in Delivery /\ n.pc = "authenticated" /\ n.token = d.token
BY DEF Delivery

(* The hour check admits no token of a future hour.                        *)
LEMMA CheckHourKeeps ==
    ASSUME GatewayInv, NEW r \in Requests, NEW token \in Tokens, CheckHour(r, token)
    PROVE  GatewayInv'
<1> USE DEF GatewayInv
<1>1. UNCHANGED <<clock, cache, passed, forgotten, restarts, loginVars, rateVars>>
  BY DEF CheckHour
<1>2. st' \in [Requests -> Delivery]
  BY DEF CheckHour, AuthTyped, Delivery
<1>3. ClockTyped' /\ AuthTyped'
  BY <1>1, <1>2 DEF ClockTyped, AuthTyped
<1>4. Bounded' /\ Remembered'
  BY <1>1 DEF Bounded, Remembered, CurrentHour
<1>5. Begun'
  <2> SUFFICES ASSUME NEW q \in Requests, st'[q].pc = "in_window"
               PROVE  st'[q].token.hour <= CurrentHour'
    BY DEF Begun
  <2>1. CASE q = r
    BY <1>1, <2>1 DEF CheckHour, CurrentHour, AuthTyped
  <2>2. CASE q # r
    BY <1>1, <2>2 DEF CheckHour, CurrentHour, AuthTyped, Begun
  <2> QED BY <2>1, <2>2
<1>6. LoginTyped' /\ Stored' /\ Cleaned' /\ Redeemed'
  BY <1>1 DEF loginVars, LoginTyped, Stored, Cleaned, Redeemed
<1>7. RateTyped' /\ Limited'
  BY <1>1 DEF rateVars, RateTyped, Limited
<1> QED BY <1>3, <1>4, <1>5, <1>6, <1>7

(* check_replay keeps every bucket within its limit, and forgets only what *)
(* is written down as forgotten or belongs to an hour that is over.        *)
LEMMA CheckReplayKeeps ==
    ASSUME GatewayInv, NEW r \in Requests, check_replay(r)
    PROVE  GatewayInv'
<1> DEFINE tok == st[r].token
           hour == tok.hour
           kept == [h \in 0 .. MaxHour |-> Kept(h, hour)]
<1> USE DEF GatewayInv
<1>0. UNCHANGED <<clock, restarts, loginVars, rateVars>> /\ st[r].pc = "in_window"
  BY DEF check_replay
<1>1. tok \in Tokens /\ hour \in 0 .. MaxHour /\ tok.nonce \in Nonces
  <2>1. st[r] \in Delivery
    BY DEF AuthTyped
  <2>2. tok \in Tokens
    BY <1>0, <2>1, DeliveryFacts
  <2> HIDE DEF tok
  <2> QED BY <2>2, TokenFacts
<1>2. hour <= CurrentHour /\ CurrentHour \in 0 .. MaxHour /\ MaxHour \in Nat
  <2>1. hour <= CurrentHour
    BY <1>0 DEF Begun
  <2>2. CurrentHour \in 0 .. MaxHour /\ MaxHour \in Nat
    BY Hours DEF CurrentHour, ClockTyped
  <2> QED BY <2>1, <2>2
<1>3. /\ cache' = [kept EXCEPT ![hour] = @ \cup {tok.nonce}]
      /\ forgotten' = forgotten \cup {t \in passed : /\ t.hour = hour
                                                     /\ t.nonce \in cache[t.hour] \ kept[t.hour]}
  BY DEF check_replay
<1>4. \/ /\ tok.nonce \notin kept[hour]
         /\ st' = [st EXCEPT ![r].pc = "authenticated"]
         /\ passed' = passed \cup {tok}
      \/ /\ st' = [st EXCEPT ![r] = [pc |-> "replay"]]
         /\ passed' = passed
  BY DEF check_replay
<1>5. kept \in [0 .. MaxHour -> SUBSET Nonces] /\ \A h \in 0 .. MaxHour : kept[h] \in {{}, cache[h]}
  BY DEF Kept, AuthTyped
<1>6. \A h \in 0 .. MaxHour : h + 1 >= hour /\ h # hour => kept[h] = cache[h]
  BY <1>1, <1>2 DEF Kept, Retained
<1>7. IsFiniteSet(kept[hour]) /\ Cardinality(kept[hour]) < MaxNonces
  <2>1. CASE Cardinality(cache[hour]) >= MaxNonces
    <3>1. kept[hour] = {}
      BY <1>1, <2>1 DEF Kept
    <3> HIDE DEF kept
    <3> QED BY <3>1, FS_EmptySet, LimitAssumption
  <2>2. CASE ~ Cardinality(cache[hour]) >= MaxNonces
    <3>1. IsFiniteSet(cache[hour]) /\ Cardinality(cache[hour]) \in Nat
      BY <1>1, FS_CardinalityType DEF Bounded
    <3>4. kept[hour] \in {{}, cache[hour]}
      BY <1>1, <1>5
    <3> HIDE DEF kept
    <3>2. CASE kept[hour] = {}
      BY <3>2, FS_EmptySet, LimitAssumption
    <3>3. CASE kept[hour] = cache[hour]
      BY <2>2, <3>1, <3>3, LimitAssumption
    <3> QED BY <3>2, <3>3, <3>4
  <2> QED BY <2>1, <2>2
<1> HIDE DEF kept, hour, tok
<1>8. /\ cache' \in [0 .. MaxHour -> SUBSET Nonces]
      /\ cache'[hour] = kept[hour] \cup {tok.nonce}
      /\ \A h \in (0 .. MaxHour) \ {hour} : cache'[h] = kept[h]
  BY <1>1, <1>3, <1>5
<1>9. passed' \in SUBSET Tokens /\ passed \subseteq passed'
  BY <1>1, <1>4 DEF AuthTyped
<1>10. forgotten' \in SUBSET passed'
  BY <1>3, <1>9 DEF AuthTyped
<1>11. /\ st' \in [Requests -> Delivery]
       /\ \A q \in Requests : st'[q].pc = "in_window" => st'[q] = st[q]
  <2>1. CASE st' = [st EXCEPT ![r].pc = "authenticated"]
    <3> DEFINE n == [st[r] EXCEPT !.pc = "authenticated"]
    <3>1. n \in Delivery /\ n.pc = "authenticated"
      BY <1>0, DeliveryFacts DEF AuthTyped
    <3>2. st' = [st EXCEPT ![r] = n]
      BY <2>1
    <3> HIDE DEF n
    <3> QED BY <3>1, <3>2 DEF AuthTyped
  <2>2. CASE st' = [st EXCEPT ![r] = [pc |-> "replay"]]
    <3> DEFINE n == [pc |-> "replay"]
    <3>1. n \in Delivery /\ n.pc = "replay"
      BY DEF Delivery
    <3>2. st' = [st EXCEPT ![r] = n]
      BY <2>2
    <3> HIDE DEF n
    <3> QED BY <3>1, <3>2 DEF AuthTyped
  <2> QED BY <1>4, <2>1, <2>2
<1>12. AuthTyped' /\ ClockTyped'
  BY <1>0, <1>8, <1>9, <1>10, <1>11 DEF AuthTyped, ClockTyped
<1>13. Bounded'
  <2> SUFFICES ASSUME NEW h \in 0 .. MaxHour
               PROVE  IsFiniteSet(cache'[h]) /\ Cardinality(cache'[h]) <= MaxNonces
    BY DEF Bounded
  <2>1. CASE h = hour
    <3> DEFINE K == kept[hour]
               x == tok.nonce
    <3>1. IsFiniteSet(K) /\ Cardinality(K) \in Nat /\ Cardinality(K) < MaxNonces
      BY <1>7, FS_CardinalityType
    <3>2. /\ IsFiniteSet(K \cup {x})
          /\ Cardinality(K \cup {x}) = IF x \in K THEN Cardinality(K) ELSE Cardinality(K) + 1
      <4> HIDE DEF K, x
      <4> QED BY <3>1, FS_AddElement
    <3>3. cache'[h] = K \cup {x}
      BY <1>8, <2>1
    <3> HIDE DEF K, x
    <3> QED BY <3>1, <3>2, <3>3, LimitAssumption
  <2>2. CASE h # hour
    <3>1. cache'[h] = {} \/ cache'[h] = cache[h]
      BY <1>5, <1>8, <2>2
    <3>2. CASE cache'[h] = {}
      BY <3>2, FS_EmptySet, LimitAssumption
    <3>3. CASE cache'[h] = cache[h]
      BY <3>3 DEF Bounded
    <3> QED BY <3>1, <3>2, <3>3
  <2> QED BY <2>1, <2>2
<1>14. Begun'
  BY <1>0, <1>11 DEF Begun, CurrentHour
<1>15. Remembered'
  <2> SUFFICES ASSUME NEW t \in passed'
               PROVE  \/ t \in forgotten'
                      \/ t.nonce \in cache'[t.hour]
                      \/ t.hour + 1 < CurrentHour
    BY <1>0 DEF Remembered, CurrentHour
  <2>1. t \in Tokens /\ t.hour \in 0 .. MaxHour
    BY <1>9, TokenFacts
  <2>2. CASE t = tok
    <3>1. t.hour = hour
      BY <2>2 DEF hour
    <3> QED BY <1>8, <2>2, <3>1
  <2>3. CASE t # tok
    <3>1. t \in passed
      BY <1>4, <2>3
    <3>2. t \in forgotten \/ t.nonce \in cache[t.hour] \/ t.hour + 1 < CurrentHour
      BY <3>1 DEF Remembered
    <3>3. CASE t.nonce \in cache[t.hour] /\ t.hour = hour
      BY <1>3, <1>8, <3>1, <3>3
    <3>4. CASE t.nonce \in cache[t.hour] /\ t.hour # hour
      <4>1. CASE t.hour + 1 >= hour
        BY <1>6, <1>8, <2>1, <3>4, <4>1
      <4>2. CASE ~ t.hour + 1 >= hour
        BY <1>1, <1>2, <2>1, <4>2
      <4> QED BY <4>1, <4>2
    <3>5. CASE t \in forgotten
      BY <1>3, <3>5
    <3> QED BY <3>2, <3>3, <3>4, <3>5
  <2> QED BY <2>2, <2>3
<1>16. LoginTyped' /\ Stored' /\ Cleaned' /\ Redeemed'
  BY <1>0 DEF loginVars, LoginTyped, Stored, Cleaned, Redeemed
<1>17. RateTyped' /\ Limited'
  BY <1>0 DEF rateVars, RateTyped, Limited
<1> QED BY <1>12, <1>13, <1>14, <1>15, <1>16, <1>17

(* The limiter ends a delivery either way, and only counts what it admits. *)
LEMMA RateLimitKeeps ==
    ASSUME GatewayInv, NEW r \in Requests, rate_limit_middleware(r)
    PROVE  GatewayInv'
<1> USE DEF GatewayInv
<1>1. UNCHANGED <<clock, cache, passed, forgotten, loginVars, restarts>>
  BY DEF rate_limit_middleware
<1>2. /\ st' \in [Requests -> Delivery]
      /\ \A q \in Requests : st'[q].pc = "in_window" => st'[q] = st[q]
  <2>1. PICK n \in Delivery : st' = [st EXCEPT ![r] = n] /\ n.pc # "in_window"
    BY DEF rate_limit_middleware, Delivery
  <2> QED BY <2>1 DEF AuthTyped
<1>3. ClockTyped' /\ AuthTyped'
  BY <1>1, <1>2 DEF ClockTyped, AuthTyped
<1>4. Bounded' /\ Remembered'
  BY <1>1 DEF Bounded, Remembered, CurrentHour
<1>5. Begun'
  BY <1>1, <1>2 DEF Begun, CurrentHour
<1>6. LoginTyped' /\ Stored' /\ Cleaned' /\ Redeemed'
  BY <1>1 DEF loginVars, LoginTyped, Stored, Cleaned, Redeemed
<1>7. RateTyped' /\ Limited'
  <2>1. CASE Admit(st[r].token.pk)
    <3>1. st[r] \in Delivery /\ st[r].pc = "authenticated"
      BY DEF AuthTyped, rate_limit_middleware
    <3>2. st[r].token \in Tokens
      BY <3>1, DeliveryFacts
    <3>3. st[r].token.pk \in Keys
      BY <3>2, TokenFacts
    <3> QED BY <1>1, <2>1, <3>3, AdmitKeeps
  <2>2. CASE UNCHANGED rateVars
    BY <1>1, <2>2 DEF rateVars, RateTyped, Limited
  <2> QED BY <2>1, <2>2 DEF rate_limit_middleware
<1> QED BY <1>3, <1>4, <1>5, <1>6, <1>7

-----------------------------------------------------------------------------
(* The login challenges. *)

(* What the login leaves alone.                                            *)
LEMMA AuthFrame ==
    ASSUME GatewayInv, UNCHANGED <<clock, authVars, restarts>>
    PROVE  ClockTyped' /\ AuthTyped' /\ Bounded' /\ Begun' /\ Remembered'
<1> USE DEF GatewayInv, authVars
<1>1. ClockTyped' /\ AuthTyped'
  BY DEF ClockTyped, AuthTyped
<1>2. Bounded' /\ Begun' /\ Remembered'
  BY DEF Bounded, Begun, Remembered, CurrentHour
<1> QED BY <1>1, <1>2

(* A verify that has cleaned up names a challenge and when it came.        *)
LEMMA VerifyFacts ==
    ASSUME NEW d \in VerifyState
    PROVE  /\ d.pc \in {"cleaned", "redeemed"} => d.challenge_id \in Challenges /\ d.at \in 0 .. MaxTime
           /\ d.pc = "cleaned" => \A pc \in {"redeemed", "bad_request"} :
                 LET n == [d EXCEPT !.pc = pc] IN
                 /\ n \in VerifyState /\ n.pc = pc
                 /\ n.challenge_id = d.challenge_id /\ n.at = d.at
BY DEF VerifyState

(* Cleaning up keeps what has not expired and drops the rest.              *)
LEMMA CleanupFacts ==
    ASSUME GatewayInv
    PROVE  /\ cleanup_challenges \in [Challenges -> 0 .. MaxTime + TTL]
           /\ \A c \in Challenges :
                 /\ cleanup_challenges[c] \in {0, store[c]}
                 /\ cleanup_challenges[c] # 0 => clock < issued[c]
<1>1. cleanup_challenges \in [Challenges -> 0 .. MaxTime + TTL]
  BY ClockAssumption DEF GatewayInv, LoginTyped, cleanup_challenges
<1>2. \A c \in Challenges : cleanup_challenges[c] \in {0, store[c]}
  BY DEF cleanup_challenges
<1>3. ASSUME NEW c \in Challenges, cleanup_challenges[c] # 0 PROVE clock < issued[c]
  <2>1. cleanup_challenges[c] = store[c] /\ store[c] > clock /\ store[c] # 0
    BY <1>3 DEF cleanup_challenges
  <2>2. store[c] = issued[c] /\ store[c] \in Nat /\ clock \in Nat
    BY <2>1, ClockAssumption DEF GatewayInv, Stored, LoginTyped, ClockTyped
  <2> QED BY <2>1, <2>2
<1> QED BY <1>1, <1>2, <1>3

(* POST /auth/challenge stores a challenge whose id was never used.        *)
LEMMA ChallengeKeeps ==
    ASSUME GatewayInv, NEW c \in Challenges, challenge(c)
    PROVE  GatewayInv'
<1> USE DEF GatewayInv
<1>1. UNCHANGED <<clock, authVars, ver, restarts>> /\ issued[c] = 0 /\ Admit(Anonymous)
  BY DEF challenge
<1> DEFINE e == clock + TTL
<1>2. e \in 0 .. MaxTime + TTL /\ e # 0
  BY ClockAssumption DEF ClockTyped
<1>3. /\ store' = [cleanup_challenges EXCEPT ![c] = e]
      /\ issued' = [issued EXCEPT ![c] = e]
  BY DEF challenge
<1> HIDE DEF e
<1>4. LoginTyped'
  BY <1>1, <1>2, <1>3, CleanupFacts DEF LoginTyped
<1>5. \A d \in Challenges \ {c} : issued'[d] = issued[d] /\ store'[d] \in {0, store[d]}
  BY <1>3, CleanupFacts DEF LoginTyped
<1>6. Stored'
  <2> SUFFICES ASSUME NEW d \in Challenges PROVE store'[d] \in {0, issued'[d]}
    BY DEF Stored
  <2>1. CASE d = c
    BY <1>3, <2>1, CleanupFacts DEF LoginTyped
  <2>2. CASE d # c
    BY <1>5, <2>2 DEF Stored
  <2> QED BY <2>1, <2>2
<1>7. Cleaned'
  <2> SUFFICES ASSUME NEW v \in Verifies, ver[v].pc = "cleaned"
               PROVE  LET d == ver[v].challenge_id IN
                      issued'[d] # 0 /\ (store'[d] # 0 => ver[v].at < issued'[d])
    BY <1>1 DEF Cleaned
  <2> DEFINE d == ver[v].challenge_id
  <2>1. d \in Challenges /\ issued[d] # 0 /\ (store[d] # 0 => ver[v].at < issued[d])
    BY VerifyFacts DEF LoginTyped, Cleaned
  <2> HIDE DEF d
  <2>2. d \in Challenges \ {c}
    BY <1>1, <2>1
  <2>3. issued'[d] # 0 /\ (store'[d] # 0 => ver[v].at < issued'[d])
    BY <1>5, <2>1, <2>2
  <2> QED BY <2>3 DEF d
<1>8. Redeemed'
  <2> SUFFICES ASSUME NEW v \in Verifies, ver[v].pc = "redeemed"
               PROVE  LET d == ver[v].challenge_id IN
                      issued'[d] # 0 /\ store'[d] = 0 /\ ver[v].at < issued'[d]
    BY <1>1 DEF Redeemed
  <2> DEFINE d == ver[v].challenge_id
  <2>1. d \in Challenges /\ issued[d] # 0 /\ store[d] = 0 /\ ver[v].at < issued[d]
    BY VerifyFacts DEF LoginTyped, Redeemed
  <2> HIDE DEF d
  <2>2. d \in Challenges \ {c}
    BY <1>1, <2>1
  <2>3. issued'[d] # 0 /\ store'[d] = 0 /\ ver[v].at < issued'[d]
    BY <1>5, <2>1, <2>2
  <2> QED BY <2>3 DEF d
<1>9. RateTyped' /\ Limited'
  BY <1>1, AdmitKeeps DEF Keys
<1> QED BY <1>1, <1>4, <1>6, <1>7, <1>8, <1>9, AuthFrame

(* The first half of POST /auth/verify: a challenge still there after it   *)
(* expires later than now.                                                 *)
LEMMA VerifyCleanupKeeps ==
    ASSUME GatewayInv, NEW v \in Verifies, NEW c \in Challenges, verify_cleanup(v, c)
    PROVE  GatewayInv'
<1> USE DEF GatewayInv
<1> DEFINE n == [pc |-> "cleaned", challenge_id |-> c, at |-> clock]
<1>1. UNCHANGED <<clock, authVars, issued, restarts>> /\ issued[c] # 0 /\ Admit(Anonymous)
  BY DEF verify_cleanup
<1>2. /\ store' = cleanup_challenges
      /\ ver' = [ver EXCEPT ![v] = n]
  BY DEF verify_cleanup
<1>3. n \in VerifyState /\ n.pc = "cleaned" /\ n.challenge_id = c /\ n.at = clock
  BY DEF VerifyState, ClockTyped
<1> HIDE DEF n
<1>4. LoginTyped'
  BY <1>1, <1>2, <1>3, CleanupFacts DEF LoginTyped
<1>5. ver'[v] = n /\ \A w \in Verifies \ {v} : ver'[w] = ver[w]
  BY <1>2 DEF LoginTyped
<1>6. \A d \in Challenges : store'[d] \in {0, store[d]} /\ (store'[d] # 0 => clock < issued[d])
  BY <1>2, CleanupFacts
<1>7. Stored'
  BY <1>1, <1>6 DEF Stored
<1>8. Cleaned'
  <2> SUFFICES ASSUME NEW w \in Verifies, ver'[w].pc = "cleaned"
               PROVE  LET d == ver'[w].challenge_id IN
                      issued[d] # 0 /\ (store'[d] # 0 => ver'[w].at < issued[d])
    BY <1>1 DEF Cleaned
  <2>1. CASE w = v
    <3>1. ver'[w].challenge_id = c /\ ver'[w].at = clock
      BY <1>3, <1>5, <2>1
    <3> QED BY <1>1, <1>6, <3>1
  <2>2. CASE w # v
    <3>1. ver'[w] = ver[w] /\ ver[w].pc = "cleaned"
      BY <1>5, <2>2
    <3> DEFINE d == ver[w].challenge_id
    <3>2. d \in Challenges /\ issued[d] # 0 /\ (store[d] # 0 => ver[w].at < issued[d])
      BY <3>1, VerifyFacts DEF LoginTyped, Cleaned
    <3>3. issued[d] # 0 /\ (store'[d] # 0 => ver[w].at < issued[d])
      <4> HIDE DEF d
      <4> QED BY <1>6, <3>2
    <3> QED BY <3>1, <3>3
  <2> QED BY <2>1, <2>2
<1>9. Redeemed'
  <2>1. \A w \in Verifies : ver'[w].pc = "redeemed" => w # v /\ ver'[w] = ver[w]
    BY <1>3, <1>5
  <2>2. ASSUME NEW w \in Verifies, ver[w].pc = "redeemed"
        PROVE  ver[w].challenge_id \in Challenges
    BY <2>2, VerifyFacts DEF LoginTyped
  <2>3. ASSUME NEW w \in Verifies, ver'[w].pc = "redeemed"
        PROVE  LET d == ver'[w].challenge_id IN
               /\ issued'[d] # 0 /\ store'[d] = 0
               /\ ver'[w].at < issued'[d]
               /\ \A x \in Verifies \ {w} : ver'[x].pc = "redeemed" => ver'[x].challenge_id # d
    <3>1. ver'[w] = ver[w] /\ ver[w].pc = "redeemed" /\ ver[w].challenge_id \in Challenges
      BY <2>1, <2>2, <2>3
    <3> QED BY <1>1, <1>6, <2>1, <3>1 DEF Redeemed
  <2> QED BY <2>3 DEF Redeemed
<1>10. RateTyped' /\ Limited'
  BY <1>1, AdmitKeeps DEF Keys
<1> QED BY <1>1, <1>4, <1>7, <1>8, <1>9, <1>10, AuthFrame

(* The second half takes the challenge away, so no other verify finds it.  *)
LEMMA VerifyRemoveKeeps ==
    ASSUME GatewayInv, NEW v \in Verifies, NEW good \in BOOLEAN, verify_remove(v, good)
    PROVE  GatewayInv'
<1> USE DEF GatewayInv
<1> DEFINE c == ver[v].challenge_id
           pc == IF store[c] # 0 /\ good THEN "redeemed" ELSE "bad_request"
           n == [ver[v] EXCEPT !.pc = pc]
<1>1. UNCHANGED <<clock, authVars, rateVars, issued, restarts>> /\ ver[v].pc = "cleaned"
  BY DEF verify_remove
<1>2. /\ store' = [store EXCEPT ![c] = 0]
      /\ ver' = [ver EXCEPT ![v] = n]
  BY DEF verify_remove
<1>3. /\ c \in Challenges /\ issued[c] # 0 /\ (store[c] # 0 => ver[v].at < issued[c])
      /\ ver[v] \in VerifyState
  BY <1>1, VerifyFacts DEF LoginTyped, Cleaned
<1>4. /\ n \in VerifyState /\ n.pc = pc /\ n.challenge_id = c /\ n.at = ver[v].at
      /\ n.pc \in {"redeemed", "bad_request"} /\ (n.pc = "redeemed" => store[c] # 0)
  <2>1. pc \in {"redeemed", "bad_request"} /\ (pc = "redeemed" => store[c] # 0)
    OBVIOUS
  <2>2. n \in VerifyState /\ n.pc = pc /\ n.challenge_id = c /\ n.at = ver[v].at
    <3> HIDE DEF pc
    <3> QED BY <1>1, <1>3, <2>1, VerifyFacts
  <2> HIDE DEF n, pc, c
  <2> QED BY <2>1, <2>2
<1> HIDE DEF n, pc, c
<1>5. LoginTyped'
  <2>1. 0 \in 0 .. MaxTime + TTL
    BY ClockAssumption
  <2>2. store' \in [Challenges -> 0 .. MaxTime + TTL]
    BY <1>2, <2>1 DEF LoginTyped
  <2>3. ver' \in [Verifies -> VerifyState]
    BY <1>2, <1>4 DEF LoginTyped
  <2> QED BY <1>1, <2>2, <2>3 DEF LoginTyped
<1>6. ver'[v] = n /\ \A w \in Verifies \ {v} : ver'[w] = ver[w]
  BY <1>2 DEF LoginTyped
<1>7. store'[c] = 0 /\ \A d \in Challenges : store'[d] \in {0, store[d]}
  BY <1>2, <1>3 DEF LoginTyped
<1>8. Stored'
  BY <1>1, <1>7 DEF Stored
<1>9. Cleaned'
  <2> SUFFICES ASSUME NEW w \in Verifies, ver'[w].pc = "cleaned"
               PROVE  LET d == ver'[w].challenge_id IN
                      issued[d] # 0 /\ (store'[d] # 0 => ver'[w].at < issued[d])
    BY <1>1 DEF Cleaned
  <2>1. ver'[w] = ver[w] /\ ver[w].pc = "cleaned"
    BY <1>4, <1>6
  <2> DEFINE d == ver[w].challenge_id
  <2>2. d \in Challenges /\ issued[d] # 0 /\ (store[d] # 0 => ver[w].at < issued[d])
    BY <2>1, VerifyFacts DEF LoginTyped, Cleaned
  <2>3. issued[d] # 0 /\ (store'[d] # 0 => ver[w].at < issued[d])
    <3> HIDE DEF d
    <3> QED BY <1>7, <2>2
  <2> QED BY <2>1, <2>3
<1>10. Redeemed'
  <2>1. ASSUME NEW w \in Verifies \ {v}, ver'[w].pc = "redeemed"
        PROVE  LET d == ver'[w].challenge_id IN
               /\ ver'[w] = ver[w] /\ ver[w].pc = "redeemed"
               /\ d \in Challenges /\ issued[d] # 0 /\ store[d] = 0 /\ store'[d] = 0
               /\ ver'[w].at < issued[d]
    <3>1. ver'[w] = ver[w] /\ ver[w].pc = "redeemed"
      BY <1>6, <2>1
    <3>2. LET d == ver[w].challenge_id IN
          d \in Challenges /\ issued[d] # 0 /\ store[d] = 0 /\ ver[w].at < issued[d]
      BY <3>1, VerifyFacts DEF LoginTyped, Redeemed
    <3> QED BY <1>7, <3>1, <3>2
  <2>2. ASSUME NEW w \in Verifies, ver'[w].pc = "redeemed"
        PROVE  LET d == ver'[w].challenge_id IN
               /\ issued'[d] # 0 /\ store'[d] = 0
               /\ ver'[w].at < issued'[d]
               /\ \A x \in Verifies \ {w} : ver'[x].pc = "redeemed" => ver'[x].challenge_id # d
    <3>1. CASE w = v
      <4>1. ver'[w].challenge_id = c /\ ver'[w].at = ver[v].at /\ store[c] # 0
        BY <1>4, <1>6, <2>2, <3>1
      <4>2. \A x \in Verifies \ {w} : ver'[x].pc = "redeemed" => ver'[x].challenge_id # c
        BY <2>1, <3>1, <4>1
      <4> QED BY <1>1, <1>3, <1>7, <4>1, <4>2
    <3>2. CASE w # v
      <4> DEFINE d == ver'[w].challenge_id
      <4>1. /\ ver'[w] = ver[w] /\ ver[w].pc = "redeemed"
            /\ issued[d] # 0 /\ store[d] = 0 /\ store'[d] = 0 /\ ver'[w].at < issued[d]
        BY <2>1, <2>2, <3>2
      <4>2. ASSUME NEW x \in Verifies \ {w}, ver'[x].pc = "redeemed"
            PROVE  ver'[x].challenge_id # d
        <5>1. CASE x = v
          <6>1. ver'[x].challenge_id = c /\ store[c] # 0
            BY <1>4, <1>6, <4>2, <5>1
          <6> QED BY <4>1, <6>1
        <5>2. CASE x # v
          <6>1. ver'[x] = ver[x] /\ ver[x].pc = "redeemed"
            BY <1>6, <4>2, <5>2
          <6> QED BY <4>1, <4>2, <6>1 DEF Redeemed
        <5> QED BY <5>1, <5>2
      <4> QED BY <1>1, <4>1, <4>2
    <3> QED BY <3>1, <3>2
  <2> QED BY <2>2 DEF Redeemed
<1>11. RateTyped' /\ Limited'
  BY <1>1 DEF rateVars, RateTyped, Limited
<1> QED BY <1>1, <1>5, <1>8, <1>9, <1>10, <1>11, AuthFrame

-----------------------------------------------------------------------------
(* Time only lets hours end; nothing recorded changes.                     *)
LEMMA TickKeeps ==
    ASSUME GatewayInv, Tick
    PROVE  GatewayInv'
<1> USE DEF GatewayInv
<1>1. /\ UNCHANGED <<authVars, loginVars, rateVars, restarts>>
      /\ clock' = clock + 1 /\ clock \in 0 .. MaxTime /\ clock' \in 0 .. MaxTime
  BY ClockAssumption DEF Tick, ClockTyped
<1>2. /\ CurrentHour <= CurrentHour'
      /\ CurrentHour \in Nat /\ CurrentHour' \in Nat /\ MaxHour \in Nat
  BY <1>1, Hours DEF CurrentHour
<1>3. ClockTyped' /\ AuthTyped' /\ Bounded'
  BY <1>1 DEF ClockTyped, authVars, AuthTyped, Bounded
<1>4. Begun'
  <2> SUFFICES ASSUME NEW r \in Requests, st[r].pc = "in_window"
               PROVE  st[r].token.hour <= CurrentHour'
    BY <1>1 DEF Begun, authVars
  <2>1. st[r].token \in Tokens
    BY DeliveryFacts DEF AuthTyped
  <2>2. st[r].token.hour \in 0 .. MaxHour
    BY <2>1, TokenFacts
  <2>3. st[r].token.hour <= CurrentHour
    BY DEF Begun
  <2> QED BY <1>2, <2>2, <2>3
<1>5. Remembered'
  <2> SUFFICES ASSUME NEW t \in passed
               PROVE  t \in forgotten \/ t.nonce \in cache[t.hour] \/ t.hour + 1 < CurrentHour'
    BY <1>1 DEF Remembered, authVars
  <2>1. t.hour \in 0 .. MaxHour
    BY TokenFacts DEF AuthTyped
  <2>2. t \in forgotten \/ t.nonce \in cache[t.hour] \/ t.hour + 1 < CurrentHour
    BY DEF Remembered
  <2> QED BY <1>2, <2>1, <2>2
<1>6. LoginTyped' /\ Stored' /\ Cleaned' /\ Redeemed'
  BY <1>1 DEF loginVars, LoginTyped, Stored, Cleaned, Redeemed
<1>7. RateTyped'
  BY <1>1 DEF rateVars, RateTyped
<1>8. Limited'
  <2> SUFFICES ASSUME NEW k \in Keys
               PROVE  Rated(admitted[k][restarts], buckets[k], clock', started[restarts])
    BY <1>1 DEF Limited, rateVars
  <2>1. /\ Rated(admitted[k][restarts], buckets[k], clock, started[restarts])
        /\ buckets[k].window_start \in 0 .. MaxTime /\ started[restarts] \in 0 .. MaxTime
    BY DEF Limited, RateTyped, Entry, ClockTyped
  <2>2. buckets[k].window_start <= clock' /\ started[restarts] <= clock'
    BY <1>1, <2>1 DEF Rated
  <2> QED BY <2>1, <2>2 DEF Rated
<1> QED BY <1>3, <1>4, <1>5, <1>6, <1>7, <1>8

(* Nothing admitted is within every limit.                                 *)
LEMMA NothingAdmitted ==
    ASSUME NEW A, Nothing(A), NEW now \in 0 .. MaxTime, NEW s0 \in 0 .. MaxTime, s0 <= now
    PROVE  Rated(A, NoEntry, now, s0) /\ Within(A, s0) /\ NoEntry \in Entry
<1>2. ASSUME NEW t \in 0 .. MaxTime PROVE SumFunctionOnSet(A, Span(t)) = 0
  <2>1. IsFiniteSet(Span(t)) /\ \A x \in Span(t) : A[x] = 0
    BY SpanFacts DEF Nothing
  <2> QED BY <2>1, SumZero
<1>3. NoEntry \in Entry
  BY ClockAssumption, LimitAssumption DEF NoEntry, Entry
<1>4. NoEntry.count = 0 /\ NoEntry.window_start <= now
  BY ClockAssumption DEF NoEntry
<1>5. 0 <= 2 * MaxRequests - 1 /\ 0 <= MaxRequests
  BY LimitAssumption
<1>6. Within(A, s0)
  BY <1>2, <1>5 DEF Within
<1> QED BY <1>3, <1>4, <1>6 DEF Rated

(* A restart forgets every token and every challenge.                      *)
LEMMA RestartKeeps ==
    ASSUME GatewayInv, Restart
    PROVE  GatewayInv'
<1> USE DEF GatewayInv
<1>1. ClockTyped' /\ clock' = clock /\ passed' = passed /\ issued' = issued
  BY LimitAssumption DEF ClockTyped, Restart
<1>2. st' \in [Requests -> Delivery] /\ \A r \in Requests : st'[r].pc # "in_window"
  <2> DEFINE lost == [pc |-> "lost"]
             after(r) == IF st[r].pc \in {"in_window", "authenticated"} THEN lost ELSE st[r]
  <2>0. st' = [r \in Requests |-> after(r)]
    BY DEF Restart
  <2>2. lost \in Delivery /\ st \in [Requests -> Delivery] /\ lost.pc = "lost"
    BY DEF Delivery, AuthTyped
  <2> HIDE DEF lost
  <2>1. \A r \in Requests : after(r) = lost \/ (after(r) = st[r] /\ st[r].pc # "in_window")
    OBVIOUS
  <2> HIDE DEF after
  <2>3. \A r \in Requests : after(r) \in Delivery /\ after(r).pc # "in_window"
    BY <2>1, <2>2
  <2> QED BY <2>0, <2>3
<1>3. AuthTyped' /\ Begun' /\ Remembered'
  BY <1>1, <1>2 DEF AuthTyped, Begun, Remembered, Restart
<1>4. Bounded'
  BY FS_EmptySet, LimitAssumption DEF Bounded, Restart
<1>5. /\ ver' \in [Verifies -> VerifyState]
      /\ \A v \in Verifies : ver'[v].pc \in {"cleaned", "redeemed"} =>
            ver'[v] = ver[v] /\ ver[v].pc = "redeemed"
  <2> DEFINE lost == [pc |-> "lost"]
             after(v) == IF ver[v].pc = "cleaned" THEN lost ELSE ver[v]
  <2>0. ver' = [v \in Verifies |-> after(v)]
    BY DEF Restart
  <2>2. lost \in VerifyState /\ ver \in [Verifies -> VerifyState] /\ lost.pc = "lost"
    BY DEF VerifyState, LoginTyped
  <2> HIDE DEF lost
  <2>1. \A v \in Verifies : after(v) = lost \/ (after(v) = ver[v] /\ ver[v].pc # "cleaned")
    OBVIOUS
  <2> HIDE DEF after
  <2>3. \A v \in Verifies : after(v) \in VerifyState
    BY <2>1, <2>2
  <2>4. ver' \in [Verifies -> VerifyState] /\ \A v \in Verifies : ver'[v] = after(v)
    BY <2>0, <2>3
  <2> QED BY <2>1, <2>2, <2>4
<1>6. store' = [c \in Challenges |-> 0] /\ 0 \in 0 .. MaxTime + TTL
  BY ClockAssumption DEF Restart
<1>7. LoginTyped' /\ Stored'
  BY <1>1, <1>5, <1>6 DEF LoginTyped, Stored
<1>8. Cleaned'
  BY <1>5 DEF Cleaned
<1>9. Redeemed'
  <2> SUFFICES ASSUME NEW v \in Verifies, ver'[v].pc = "redeemed"
               PROVE  LET d == ver'[v].challenge_id IN
                      /\ issued[d] # 0 /\ store'[d] = 0
                      /\ ver'[v].at < issued[d]
                      /\ \A w \in Verifies \ {v} :
                            ver'[w].pc = "redeemed" => ver'[w].challenge_id # d
    BY <1>1 DEF Redeemed
  <2>1. ver'[v] = ver[v] /\ ver[v].pc = "redeemed"
    BY <1>5
  <2>2. ver[v].challenge_id \in Challenges
    BY <2>1, VerifyFacts DEF LoginTyped
  <2> QED BY <1>5, <1>6, <2>1, <2>2 DEF Redeemed
<1>10. RateTyped' /\ Limited'
  <2>1. /\ buckets' = [k \in Keys |-> NoEntry] /\ admitted' = admitted
        /\ started' = [started EXCEPT ![restarts + 1] = clock]
        /\ restarts' = restarts + 1 /\ restarts < MaxRestarts
    BY DEF Restart
  <2>2. /\ clock \in 0 .. MaxTime /\ restarts + 1 \in 0 .. MaxRestarts /\ restarts \in Nat
        /\ 0 \in 0 .. MaxTime
    BY <1>1, <2>1, LimitAssumption, ClockAssumption DEF ClockTyped
  <2>3. started \in [0 .. MaxRestarts -> 0 .. MaxTime]
    BY DEF RateTyped
  <2>4. /\ started'[restarts + 1] = clock
        /\ \A b \in 0 .. MaxRestarts : b # restarts + 1 => started'[b] = started[b]
    BY <2>1, <2>2, <2>3
  <2>5. NoEntry \in Entry
    BY ClockAssumption, LimitAssumption DEF NoEntry, Entry
  <2>6. RateTyped'
    BY <2>1, <2>2, <2>3, <2>5 DEF RateTyped
  <2>7. ASSUME NEW k \in Keys
        PROVE  /\ Rated(admitted[k][restarts + 1], NoEntry, clock, clock)
               /\ \A b \in 0 .. MaxRestarts :
                     /\ Within(admitted[k][b], started'[b])
                     /\ b > restarts + 1 => Nothing(admitted[k][b])
    <3>1. \A b \in 0 .. MaxRestarts : /\ Within(admitted[k][b], started[b])
                                      /\ b > restarts => Nothing(admitted[k][b])
      BY DEF Limited
    <3>2. Nothing(admitted[k][restarts + 1])
      BY <2>2, <3>1
    <3>3. clock <= clock
      BY <2>2
    <3>4. Rated(admitted[k][restarts + 1], NoEntry, clock, clock)
          /\ Within(admitted[k][restarts + 1], clock)
      BY <2>2, <3>2, <3>3, NothingAdmitted
    <3>5. \A b \in 0 .. MaxRestarts : b > restarts + 1 => b > restarts
      BY <2>2
    <3> QED BY <2>4, <3>1, <3>4, <3>5
  <2>8. Limited'
    BY <1>1, <2>1, <2>4, <2>7 DEF Limited
  <2> QED BY <2>6, <2>8
<1> QED BY <1>1, <1>3, <1>4, <1>7, <1>8, <1>9, <1>10

(* The gate opens in a good state.                                         *)
LEMMA GatewayInitInv == GatewayInit => GatewayInv
<1> SUFFICES ASSUME GatewayInit PROVE GatewayInv
  OBVIOUS
<1> USE DEF GatewayInit
<1>1. ClockTyped /\ 0 \in 0 .. MaxTime + TTL
  BY ClockAssumption, LimitAssumption DEF ClockTyped
<1>2. AuthTyped /\ Begun /\ Remembered
  BY DEF AuthTyped, Begun, Remembered, Delivery
<1>3. Bounded
  BY FS_EmptySet, LimitAssumption DEF Bounded
<1>4. LoginTyped /\ Stored /\ Cleaned /\ Redeemed
  BY <1>1 DEF LoginTyped, Stored, Cleaned, Redeemed, VerifyState
<1>5. RateTyped /\ Limited
  <2> DEFINE A == [t \in 0 .. MaxTime |-> 0]
  <2>1. Nothing(A) /\ A \in [0 .. MaxTime -> Nat] /\ 0 \in 0 .. MaxTime /\ 0 <= 0
    BY ClockAssumption DEF Nothing
  <2>2. /\ admitted = [k \in Keys |-> [b \in 0 .. MaxRestarts |-> A]]
        /\ buckets = [k \in Keys |-> NoEntry] /\ started = [b \in 0 .. MaxRestarts |-> 0]
        /\ clock = 0 /\ restarts = 0 /\ restarts \in 0 .. MaxRestarts
    BY <1>1 DEF ClockTyped
  <2> HIDE DEF A
  <2>3. Rated(A, NoEntry, 0, 0) /\ Within(A, 0) /\ NoEntry \in Entry
    BY <2>1, NothingAdmitted
  <2>4. \A k \in Keys, b \in 0 .. MaxRestarts : admitted[k][b] = A /\ started[b] = 0
    BY <2>2
  <2>5. Limited
    BY <2>1, <2>2, <2>3, <2>4 DEF Limited
  <2> QED BY <2>1, <2>2, <2>3, <2>5 DEF RateTyped
<1> QED BY <1>1, <1>2, <1>3, <1>4, <1>5 DEF GatewayInv

(* The inductive invariant of the gate: every handler, whichever half of   *)
(* it runs next, every tick of the clock and every restart keep it.        *)
THEOREM GatewayInvariant == GatewaySpec => []GatewayInv
<1>1. GatewayInit => GatewayInv
  BY GatewayInitInv
<1>2. GatewayInv /\ [GatewayNext]_vars => GatewayInv'
  <2> SUFFICES ASSUME GatewayInv, [GatewayNext]_vars PROVE GatewayInv'
    OBVIOUS
  <2>1. CASE UNCHANGED vars
    <3>1. UNCHANGED <<clock, authVars, restarts>> /\ UNCHANGED loginVars /\ UNCHANGED rateVars /\ clock' = clock
      BY <2>1 DEF vars
    <3>2. LoginTyped' /\ Stored' /\ Cleaned' /\ Redeemed'
      BY <3>1 DEF GatewayInv, loginVars, LoginTyped, Stored, Cleaned, Redeemed
    <3>3. RateTyped' /\ Limited'
      BY <3>1 DEF GatewayInv, rateVars, RateTyped, Limited
    <3> QED BY <3>1, <3>2, <3>3, AuthFrame DEF GatewayInv
  <2>2. CASE GatewayNext
    BY <2>2, CheckReplayKeeps, RateLimitKeeps, CheckHourKeeps, ChallengeKeeps, VerifyCleanupKeeps,
       VerifyRemoveKeeps, TickKeeps, RestartKeeps DEF GatewayNext
  <2> QED BY <2>1, <2>2
<1> QED BY <1>1, <1>2, PTL DEF GatewaySpec

(* Every variable keeps its type, and no bucket of the replay cache holds  *)
(* more than MAX_NONCES_PER_BUCKET nonces.                                 *)
THEOREM GatewayTypeCorrect == GatewaySpec => []GatewayTypeOK
<1>1. GatewayInv => GatewayTypeOK
  <2> SUFFICES ASSUME GatewayInv PROVE GatewayTypeOK
    OBVIOUS
  <2> USE DEF GatewayInv
  <2>1. \A r \in Requests : st[r].pc \in {"new", "in_window", "authenticated", "admitted",
                                          "stale", "replay", "limited", "lost"}
    BY DEF AuthTyped, Delivery
  <2>2. \A v \in Verifies : ver[v].pc \in {"new", "cleaned", "redeemed", "bad_request", "lost"}
    BY DEF LoginTyped, VerifyState
  <2>3. forgotten \subseteq passed /\ passed \subseteq Tokens
    BY DEF AuthTyped
  <2>4. buckets \in [Keys -> [count : 0 .. MaxRequests, window_start : 0 .. MaxTime]]
    BY DEF RateTyped, Entry
  <2> QED BY <2>1, <2>2, <2>3, <2>4 DEF GatewayTypeOK, ClockTyped, AuthTyped, LoginTyped, Bounded
<1> QED BY <1>1, GatewayInvariant, PTL

(* Fixed windows: in a span of one window's length a run of the process    *)
(* lets a key through for two windows less one request at most, and a run  *)
(* that began in the span for one window.                                  *)
THEOREM GatewayAtMostTwice == GatewaySpec => []AtMostTwicePerWindow
<1>1. GatewayInv => AtMostTwicePerWindow
  BY DEF GatewayInv, Limited, Within, AtMostTwicePerWindow
<1> QED BY <1>1, GatewayInvariant, PTL

(* A challenge is redeemed at most once, by a verify that came in time,    *)
(* although cleaning up and removing are separate steps and other clients  *)
(* run between them.                                                       *)
THEOREM GatewayRedeemedOnce == GatewaySpec => []ChallengeRedeemedOnceInTime
<1>1. GatewayInv => ChallengeRedeemedOnceInTime
  BY DEF GatewayInv, Redeemed, ChallengeRedeemedOnceInTime
<1> QED BY <1>1, GatewayInvariant, PTL

(* check_replay lets a token through a second time only when a restart or  *)
(* a full bucket made the cache forget it, or when its hour is over.       *)
THEOREM GatewayReplay == GatewaySpec => ReplayOnlyAfterForgetting
<1> DEFINE Guarded == \A r \in Requests : Passes(r) /\ st[r].token \in passed =>
                         st[r].token \in forgotten' \/ st[r].token.hour + 1 < CurrentHour
<1>1. GatewayInv /\ [GatewayNext]_vars => [Guarded]_vars
  <2> SUFFICES ASSUME GatewayInv, GatewayNext, NEW r \in Requests, Passes(r), st[r].token \in passed
               PROVE  st[r].token \in forgotten' \/ st[r].token.hour + 1 < CurrentHour
    OBVIOUS
  <2>0. st \in [Requests -> Delivery] /\ st[r].pc = "in_window" /\ st'[r].pc = "authenticated"
    BY DEF GatewayInv, AuthTyped, Passes
  <2>1. check_replay(r)
    <3>1. ASSUME NEW q \in Requests, check_replay(q), q # r PROVE FALSE
      <4>1. st'[r] = st[r]
        BY <2>0, <3>1 DEF check_replay
      <4> QED BY <2>0, <4>1
    <3>2. ASSUME NEW q \in Requests, rate_limit_middleware(q) PROVE FALSE
      <4>1. CASE q = r
        BY <2>0, <3>2, <4>1 DEF rate_limit_middleware
      <4>2. CASE q # r
        BY <2>0, <3>2, <4>2 DEF rate_limit_middleware
      <4> QED BY <4>1, <4>2
    <3>3. ASSUME NEW q \in Requests, NEW token \in Tokens, CheckHour(q, token) PROVE FALSE
      <4>1. CASE q = r
        BY <2>0, <3>3, <4>1 DEF CheckHour
      <4>2. CASE q # r
        BY <2>0, <3>3, <4>2 DEF CheckHour
      <4> QED BY <4>1, <4>2
    <3>4. ASSUME st' = st PROVE FALSE
      BY <2>0, <3>4
    <3>5. ~ Restart
      BY <2>0 DEF Restart
    <3>6. ASSUME NEW c \in Challenges, challenge(c) PROVE FALSE
      BY <3>4, <3>6 DEF challenge, authVars
    <3>7. ASSUME NEW v \in Verifies, NEW c \in Challenges, verify_cleanup(v, c) PROVE FALSE
      BY <3>4, <3>7 DEF verify_cleanup, authVars
    <3>8. ASSUME NEW v \in Verifies, NEW good \in BOOLEAN, verify_remove(v, good) PROVE FALSE
      BY <3>4, <3>8 DEF verify_remove, authVars
    <3>9. ~ Tick
      BY <3>4 DEF Tick, authVars
    <3> QED BY <3>1, <3>2, <3>3, <3>5, <3>6, <3>7, <3>8, <3>9 DEF GatewayNext
  <2> DEFINE tok == st[r].token
             kept == [h \in 0 .. MaxHour |-> Kept(h, tok.hour)]
  <2>2. /\ forgotten' = forgotten \cup {t \in passed : /\ t.hour = tok.hour
                                                       /\ t.nonce \in cache[t.hour] \ kept[t.hour]}
        /\ tok.nonce \notin kept[tok.hour]
    <3>1. st' # [st EXCEPT ![r] = [pc |-> "replay"]]
      BY <2>0
    <3> QED BY <2>1, <3>1 DEF check_replay
  <2>3. tok \in forgotten \/ tok.nonce \in cache[tok.hour] \/ tok.hour + 1 < CurrentHour
    BY DEF GatewayInv, Remembered
  <2> HIDE DEF tok, kept
  <2>4. tok \in passed
    BY DEF tok
  <2>5. tok \in forgotten' \/ tok.hour + 1 < CurrentHour
    BY <2>2, <2>3, <2>4
  <2> QED BY <2>5 DEF tok
<1> QED BY <1>1, GatewayInvariant, PTL DEF GatewaySpec, ReplayOnlyAfterForgetting
=============================================================================
