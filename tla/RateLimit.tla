------------------------------ MODULE RateLimit ------------------------------
(***************************************************************************)
(* RateLimitGuard for one client and path: a counter in Redis that all     *)
(* instances share, and a window of its own in each instance for when a    *)
(* Redis command fails.  Both are fixed windows: the first request opens   *)
(* the window, and its end does not depend on the requests that follow.    *)
(* The EVAL of one request and its answer are one step; so is the local    *)
(* part, which does not await.  Time passes in ticks, and everything is    *)
(* kept relative to now.                                                   *)
(***************************************************************************)
EXTENDS Integers, FiniteSets

CONSTANTS
  Instance,   \* processes behind the balancer
  Limit,      \* RATE_LIMIT_MAX
  Window,     \* RATE_LIMIT_WINDOW_MS, in ticks
  Outages,    \* bound: EVAL commands that fail
  MaxRecent   \* bound: requests within one window's length

ASSUME RateLimitAssumption ==
  /\ "redis" \notin Instance
  /\ {Limit, Window} \subseteq Nat \ {0} /\ {Outages, MaxRecent} \subseteq Nat

VARIABLES
  shared,    \* rate:<key> in Redis, or no key when nothing is left of its TTL
  windows,   \* windows[i]: the entry of instance i's Map
  enabled,   \* REDIS_URL is set
  outages,   \* bound: failed commands so far
  recent     \* history: the requests of the last Window ticks

limitVars == <<shared, windows, enabled, outages, recent>>

Counting == Instance \union {"redis"}
Counter  == [count : 0 .. MaxRecent, left : 0 .. Window]
Unused   == [count |-> 0, left |-> 0]

RateLimitTypeOK ==
  /\ shared \in Counter /\ windows \in [Instance -> Counter]
  /\ enabled \in BOOLEAN
  /\ outages \in 0 .. Outages
  /\ recent \subseteq [age : 0 .. Window - 1, turn : Nat, by : Counting,
                       lost : BOOLEAN, admitted : BOOLEAN]

RateLimitInit ==
  /\ shared = Unused /\ windows = [i \in Instance |-> Unused]
  /\ enabled \in BOOLEAN /\ outages = 0 /\ recent = {}

\* Injected bug: every request renews the end of the window.
CountedRenewed(w) ==
  [count |-> IF w.left > 0 THEN w.count + 1 ELSE 1, left |-> Window]

\* One more request in window w, or the first one of a new window.
Counted(w) ==
  IF w.left > 0 THEN [w EXCEPT !.count = @ + 1] ELSE [count |-> 1, left |-> Window]

\* The requests of this tick; they are numbered as they come.
ThisTick == {hit \in recent : hit.age = 0}

\* Counter `by` lets the request pass or answers 429; lost says that Redis
\* counted it too.
Hit(by, count, lost) ==
  [age |-> 0, turn |-> Cardinality(ThisTick), by |-> by, lost |-> lost,
   admitted |-> count <= Limit]

Decide(by, count, lost) ==
  /\ Cardinality(recent) < MaxRecent
  /\ recent' = recent \union {Hit(by, count, lost)}

ByRedis ==
  /\ enabled
  /\ shared' = Counted(shared)
  /\ Decide("redis", shared'.count, FALSE)
  /\ UNCHANGED <<windows, enabled, outages>>

\* Without Redis, or when the EVAL failed, perhaps after Redis executed it.
ByInstance(i) ==
  /\ windows' = [windows EXCEPT ![i] = Counted(@)]
  /\ \E lost \in BOOLEAN :
       /\ Decide(i, windows'[i].count, lost)
       /\ shared' = IF lost THEN Counted(shared) ELSE shared
       /\ lost => enabled
  /\ outages' = IF enabled THEN outages + 1 ELSE outages
  /\ outages' <= Outages
  /\ UNCHANGED enabled

Aged(w) == IF w.left <= 1 THEN Unused ELSE [w EXCEPT !.left = @ - 1]

Older(hit) == [hit EXCEPT !.age = @ + 1]

Pass ==
  /\ shared' = Aged(shared)
  /\ windows' = [i \in Instance |-> Aged(windows[i])]
  /\ recent' = {Older(hit) : hit \in {h \in recent : h.age + 1 < Window}}
  /\ UNCHANGED <<enabled, outages>>

RateLimitNext == ByRedis \/ Pass \/ \E i \in Instance : ByInstance(i)

RateLimitSpec == RateLimitInit /\ [][RateLimitNext]_limitVars

-----------------------------------------------------------------------------
(* Properties.                                                              *)

CountedBy(by)  == {hit \in recent : hit.by = by \/ (by = "redis" /\ hit.lost)}
AdmittedBy(by) == {hit \in recent : hit.by = by /\ hit.admitted}

\* What the counter of a fresh hit had counted within one window's length when
\* it came.
Ahead(hit) == {h \in CountedBy(hit.by) : h.age > 0 \/ h.turn < hit.turn}

\* In no span as long as a window does one counter let more than 2 * Limit - 1
\* requests pass, wherever its windows begin; and a refused request was preceded
\* by Limit others within one window's length, so a client that pauses that long
\* is not refused.
LimitKept ==
  /\ \A by \in Counting : Cardinality(AdmittedBy(by)) <= 2 * Limit - 1
  /\ \A hit \in ThisTick : ~hit.admitted => Cardinality(Ahead(hit)) >= Limit

-----------------------------------------------------------------------------
(* The inductive invariant.  TLC checks it on a small instance,             *)
(* ServicesProofs proves it for every one.                                  *)

WindowOf(by) == IF by = "redis" THEN shared ELSE windows[by]

\* The requests of the window that counter `by` has open: none is older than it.
Current(by) ==
  {hit \in CountedBy(by) :
     WindowOf(by).left > 0 /\ hit.age <= Window - WindowOf(by).left}

\* The counter counts them; together with the request that opened the window
\* no more than Limit of them were let pass.  What is left of the window before
\* lacks the request that opened that one.
WindowKept(by) ==
  /\ WindowOf(by).count = Cardinality(Current(by))
  /\ WindowOf(by).left > 0 =>
       \E first \in Current(by) :
         /\ first.age = Window - WindowOf(by).left
         /\ Cardinality((AdmittedBy(by) \intersect Current(by)) \union {first}) <= Limit
  /\ Cardinality(AdmittedBy(by) \ Current(by)) < Limit
  /\ ThisTick \intersect CountedBy(by) \subseteq Current(by)

RateLimitInv ==
  /\ RateLimitTypeOK
  /\ IsFiniteSet(recent) /\ Cardinality(recent) <= MaxRecent
  /\ \A hit \in ThisTick : hit.turn < Cardinality(ThisTick)
  /\ \A by \in Counting : WindowKept(by)
  /\ \A hit \in ThisTick : ~hit.admitted => Cardinality(Ahead(hit)) >= Limit
=============================================================================
