------------------------------ MODULE MapCache ------------------------------
(***************************************************************************)
(* One map, its cache-aside entries in Redis, and the route answers built  *)
(* from it: map:<id>, routes:maps:<ids> and routes:nearby:<...>.           *)
(*                                                                         *)
(* The map is the list of its owners: version v of the record is the one   *)
(* the v-th write left, and 0 is an answer without the map.  Route queries *)
(* store that answer too, and do not look at deleted_at; findById does     *)
(* neither.  Every Redis command and every SQL statement is one action; a  *)
(* request runs once.                                                      *)
(***************************************************************************)
EXTENDS Integers, Sequences, FiniteSets, SequencesExt

CONSTANTS
  Call,       \* HTTP requests about the map
  RouteKey,   \* the routes: keys whose answers contain the map
  Mishaps     \* bound: Redis commands that fail, processes that die

Owner == {1, 2}

ASSUME MapCacheAssumption ==
  /\ IsFiniteSet(RouteKey) /\ "map" \notin RouteKey
  /\ Mishaps \in Nat

VARIABLES
  owners,   \* owners[v]: the owner in version v of the maps row
  deleted,  \* deleted_at IS NOT NULL
  cache,    \* cache[k]: the version stored under key k, or None
  trail,    \* the ownership_change rows of audit_log
  call,     \* call[c]: where call c is and what it has read
  mishaps,  \* bound: mishaps so far
  tainted,  \* history: keys stored stale, or whose DEL was lost
  calm      \* history: no mishap, no stale store, no two writers at once

mapVars == <<owners, deleted, cache, trail, call, mishaps, tainted, calm>>
stored  == <<owners, deleted, trail>>

CacheKey == {"map"} \union RouteKey
Version  == 0 .. Len(owners)
None     == -1

\* What the query behind key k answers.
View(k) == IF k = "map" /\ deleted THEN 0 ELSE Len(owners)

\* A call that has read nothing yet, or is over.
Begin(pc, key, stage) == [pc |-> pc, key |-> key, val |-> 0, stage |-> stage,
                          before |-> 0, dels |-> {}]

Idle == Begin("new", "map", "read")
Over == Begin("end", "map", "read")

MapCacheTypeOK ==
  /\ owners \in Seq(Owner) /\ deleted \in BOOLEAN
  /\ cache \in [CacheKey -> Version \union {None}]
  /\ trail \in Seq([before : Owner, after : Owner])
  /\ call \in [Call -> [pc : {"new", "get", "select", "set", "write",
                              "delMap", "keys", "delRoutes", "audit", "end"},
                        key : CacheKey, val : Version, before : Version,
                        stage : {"read", "before", "after", "delete", "restore"},
                        dels : SUBSET RouteKey]]
  /\ tainted \subseteq CacheKey /\ calm \in BOOLEAN

MapCacheInit ==
  /\ owners \in {<< >>, <<1>>} /\ deleted = FALSE
  /\ cache = [k \in CacheKey |-> None]
  /\ trail = << >>
  /\ call = [c \in Call |-> Idle]
  /\ mishaps = 0 /\ tainted = {} /\ calm = TRUE

-----------------------------------------------------------------------------
(* Steps of a call.                                                         *)

\* A call that writes is one from its first read to its last.
Writing(c) == call[c].pc \notin {"new", "end"} /\ call[c].stage # "read"

Go(c, pc) == call' = [call EXCEPT ![c].pc = pc]
End(c)    == call' = [call EXCEPT ![c] = Over]

Open(c, writes, first) ==
  /\ call[c].pc = "new"
  /\ call' = [call EXCEPT ![c] = first]
  /\ calm' = (calm /\ (writes => \A d \in Call : ~Writing(d)))
  /\ UNCHANGED <<cache, trail, mishaps>>

ReadMap(c) ==
  /\ Open(c, FALSE, Begin("get", "map", "read"))
  /\ UNCHANGED <<owners, deleted, tainted>>

\* findNearby, and search, which loads its maps with findMapsByIds.
RouteQuery(c) ==
  /\ \E k \in RouteKey : Open(c, FALSE, Begin("get", k, "read"))
  /\ UNCHANGED <<owners, deleted, tainted>>

\* create: INSERT, then findById; it drops no key.
CreateMap(c) ==
  /\ owners = << >>
  /\ \E o \in Owner : owners' = <<o>>
  /\ Open(c, TRUE, Begin("get", "map", "read"))
  /\ tainted' = tainted \union {k \in RouteKey : cache[k] # None}
  /\ UNCHANGED deleted

\* update begins with findById, for the owner before.
UpdateMap(c) ==
  /\ Open(c, TRUE, Begin("get", "map", "before"))
  /\ UNCHANGED <<owners, deleted, tainted>>

DeleteMap(c) ==
  /\ owners # << >> /\ deleted' = TRUE
  /\ Open(c, TRUE, Begin("delMap", "map", "delete"))
  /\ UNCHANGED <<owners, tainted>>

\* restore: a deleted map's route answers did not change when it was deleted.
RestoreMap(c) ==
  /\ owners # << >> /\ deleted' = FALSE
  /\ Open(c, TRUE, Begin("delMap", "map", "restore"))
  /\ UNCHANGED <<owners, tainted>>

\* What follows a read: an answer, the UPDATE, or the audit of update.
Went(c, v) ==
  LET me == call[c] IN
  CASE me.stage = "read"   -> Over
    [] me.stage = "before" -> [me EXCEPT !.pc = "write", !.before = v]
    [] OTHER ->
         IF me.before # 0 /\ v # 0 /\ owners[me.before] # owners[v]
           THEN [me EXCEPT !.pc = "audit", !.val = v]
           ELSE Over

Get(c) ==
  /\ call[c].pc = "get"
  /\ LET v == cache[call[c].key] IN
     call' = [call EXCEPT ![c] = IF v = None THEN [@ EXCEPT !.pc = "select"]
                                             ELSE Went(c, v)]
  /\ UNCHANGED <<stored, cache, mishaps, tainted, calm>>

Select(c) ==
  /\ call[c].pc = "select"
  /\ LET v == View(call[c].key) IN
     call' = [call EXCEPT ![c] =
       IF v = 0 /\ call[c].key = "map"
         THEN Went(c, 0) ELSE [@ EXCEPT !.pc = "set", !.val = v]]
  /\ UNCHANGED <<stored, cache, mishaps, tainted, calm>>

\* SET key value EX ttl.
SetKey(c) ==
  LET k == call[c].key  v == call[c].val IN
  /\ call[c].pc = "set"
  /\ cache' = [cache EXCEPT ![k] = v]
  /\ tainted' = IF v = View(k) THEN tainted \ {k} ELSE tainted \union {k}
  /\ calm' = (calm /\ v = View(k))
  /\ call' = [call EXCEPT ![c] = Went(c, v)]
  /\ UNCHANGED <<stored, mishaps>>

\* UPDATE ... WHERE deleted_at IS NULL, with or without a new owner.
Write(c) ==
  /\ call[c].pc = "write"
  /\ IF View("map") = 0 THEN UNCHANGED owners
       ELSE \E o \in Owner : owners' = Append(owners, o)
  /\ Go(c, "delMap")
  /\ UNCHANGED <<deleted, cache, trail, mishaps, tainted, calm>>

\* update reads the map again, for the owner after.
Reload(c) ==
  call' = [call EXCEPT ![c] = [@ EXCEPT !.pc = "get", !.stage = "after"]]

\* An update without fields writes and drops nothing.
NoFields(c) ==
  /\ call[c].pc = "write"
  /\ Reload(c)
  /\ UNCHANGED <<stored, cache, mishaps, tainted, calm>>

\* invalidate, and then the routes: keys, except in restore.
AfterMap(c) ==
  IF call[c].stage = "restore" THEN End(c) ELSE Go(c, "keys")

\* Injected bug: another key is dropped than was stored.
DropOther(c) ==
  /\ call[c].pc = "delMap"
  /\ AfterMap(c)
  /\ UNCHANGED <<stored, cache, mishaps, tainted, calm>>

DropMap(c) ==
  /\ call[c].pc = "delMap"
  /\ cache' = [cache EXCEPT !["map"] = None]
  /\ tainted' = tainted \ {"map"}
  /\ AfterMap(c)
  /\ UNCHANGED <<stored, mishaps, calm>>

\* Injected bug: the pattern matches no key.
KeysNone(c) ==
  /\ call[c].pc = "keys"
  /\ Go(c, "delRoutes")
  /\ UNCHANGED <<stored, cache, mishaps, tainted, calm>>

\* invalidatePrefix: KEYS routes:* names the keys there are now.
Keys(c) ==
  /\ call[c].pc = "keys"
  /\ call' = [call EXCEPT ![c] = [@ EXCEPT !.pc = "delRoutes",
                 !.dels = {k \in RouteKey : cache[k] # None}]]
  /\ UNCHANGED <<stored, cache, mishaps, tainted, calm>>

DropRoute(c) ==
  /\ call[c].pc = "delRoutes"
  /\ \E k \in call[c].dels :
       /\ cache' = [cache EXCEPT ![k] = None]
       /\ tainted' = tainted \ {k}
       /\ call' = [call EXCEPT ![c].dels = @ \ {k}]
  /\ UNCHANGED <<stored, mishaps, calm>>

Dropped(c) ==
  /\ call[c].pc = "delRoutes" /\ call[c].dels = {}
  /\ IF call[c].stage = "delete" THEN End(c) ELSE Reload(c)
  /\ UNCHANGED <<stored, cache, mishaps, tainted, calm>>

AppendTrail(c) ==
  /\ call[c].pc = "audit"
  /\ trail' = Append(trail, [before |-> owners[call[c].before],
                             after  |-> owners[call[c].val]])
  /\ End(c)
  /\ UNCHANGED <<owners, deleted, cache, mishaps, tainted, calm>>

-----------------------------------------------------------------------------
(* Redis and the processes fail.                                            *)

\* A command times out, before or after Redis executed it: a GET is a miss,
\* a SET or a DEL is forgotten, a KEYS names no key.
CommandFails(c) ==
  LET me == call[c] IN
  /\ mishaps < Mishaps /\ mishaps' = mishaps + 1 /\ calm' = FALSE
  /\ \/ /\ me.pc = "get" /\ Go(c, "select") /\ UNCHANGED <<cache, tainted>>
     \/ /\ me.pc = "set" /\ call' = [call EXCEPT ![c] = Went(c, me.val)]
        /\ UNCHANGED <<cache, tainted>>
     \/ /\ me.pc = "delMap" /\ AfterMap(c)
        /\ tainted' = tainted \union {"map"} /\ UNCHANGED cache
     \/ /\ me.pc = "keys" /\ Go(c, "delRoutes")
        /\ tainted' = tainted \union RouteKey /\ UNCHANGED cache
     \/ /\ me.pc = "delRoutes"
        /\ \E k \in me.dels : /\ call' = [call EXCEPT ![c].dels = @ \ {k}]
                              /\ tainted' = tainted \union {k}
        /\ UNCHANGED cache
  /\ UNCHANGED stored

Die(c) ==
  /\ mishaps < Mishaps /\ mishaps' = mishaps + 1 /\ calm' = FALSE
  /\ call[c].pc \notin {"new", "end"} /\ End(c)
  /\ tainted' = IF Writing(c) THEN CacheKey ELSE tainted
  /\ UNCHANGED <<stored, cache>>

\* The TTL: 300 s for maps and route maps, 30 s for nearby.
Lapse(k) ==
  /\ cache[k] # None
  /\ cache' = [cache EXCEPT ![k] = None]
  /\ tainted' = tainted \ {k}
  /\ UNCHANGED <<stored, call, mishaps, calm>>

Step(c) ==
  \/ Get(c) \/ Select(c) \/ SetKey(c) \/ Write(c) \/ NoFields(c)
  \/ DropMap(c) \/ Keys(c) \/ DropRoute(c) \/ Dropped(c) \/ AppendTrail(c)

MapCacheNext ==
  \/ \E c \in Call : \/ ReadMap(c) \/ RouteQuery(c)
                     \/ CreateMap(c) \/ UpdateMap(c) \/ DeleteMap(c) \/ RestoreMap(c)
                     \/ Step(c) \/ CommandFails(c) \/ Die(c)
  \/ \E k \in CacheKey : Lapse(k)

MapCacheSpec == MapCacheInit /\ [][MapCacheNext]_mapVars

-----------------------------------------------------------------------------
(* Properties.                                                              *)

\* Key k will still be dropped by call c.
WillDrop(c, k) ==
  IF k = "map" THEN call[c].pc = "delMap"
  ELSE \/ k \in call[c].dels
       \/ call[c].pc = "keys"
       \/ call[c].pc = "delMap" /\ call[c].stage # "restore"

\* An entry is older than the row only while the call that wrote the row has
\* not dropped it yet, or because a fill that had read before the write stored
\* it, a DEL was lost, a writer died, or it is a route answer stored before the
\* map was created: update, delete and restore drop every key they make stale.
StaleExplained ==
  \A k \in CacheKey \ tainted :
    cache[k] \in {None, View(k)} \/ \E c \in Call : WillDrop(c, k)

\* The versions before version n that the next one gave to another owner.
Changes(n) == {v \in 1 .. n - 1 : owners[v] # owners[v + 1]}

\* With calls one after another and no failure, the audit log lists exactly the
\* changes of the owner: the cached reads around the UPDATE do not hide one.
OwnershipAudited ==
  (calm /\ \A c \in Call : ~Writing(c)) =>
    /\ Len(trail) = Cardinality(Changes(Len(owners)))
    /\ \A i \in 1 .. Len(trail) - 1 : trail[i].after = trail[i + 1].before
-----------------------------------------------------------------------------
(* The inductive invariant.  TLC checks it on a small instance,             *)
(* ServicesProofs proves it for every one.                                  *)

\* What the row of a call says of the steps it has taken.
Shaped(me) ==
  /\ me.stage = "read" => me.pc \in {"new", "get", "select", "set", "end"}
  /\ me.pc \in {"new", "end"} => me.stage = "read"
  /\ me.stage \in {"delete", "restore"} =>
       me.pc \in {"delMap", "keys", "delRoutes"}
  /\ me.stage # "read" => me.key = "map"
  /\ me.pc # "delRoutes" => me.dels = {}
  /\ me.pc = "write" => me.stage = "before"
  /\ me.pc = "audit" => me.before # 0 /\ me.val # 0
  /\ me.pc = "set" /\ me.key = "map" => me.val # 0

\* A writer that nobody disturbed knows the version before its own write.
Paced(me) ==
  LET now == Len(owners) IN
  /\ me.stage \in {"read", "delete", "restore"} => me.before = 0
  /\ me.stage = "before" /\ me.pc \in {"get", "select", "set"} => me.before = 0
  /\ me.pc = "write" => me.before = View("map")
  /\ me.before # 0 => me.before \in {now - 1, now} /\ View("map") = now
  /\ me.pc = "audit" => /\ me.before = now - 1 /\ me.val = now
                        /\ owners[now - 1] # owners[now]

\* The last version whose owner the audit log knows.
Settled ==
  IF \E c \in Call : call[c].before # 0 /\ call[c].before = Len(owners) - 1
    THEN Len(owners) - 1 ELSE Len(owners)

Undisturbed ==
  /\ \A c, d \in Call : Writing(c) /\ Writing(d) => c = d
  /\ "map" \notin tainted
  /\ \A c \in Call : Paced(call[c])
  /\ Len(trail) = Cardinality(Changes(Settled))
  /\ \A i \in 1 .. Len(trail) - 1 : trail[i].after = trail[i + 1].before
  /\ trail # << >> => trail[Len(trail)].after = owners[Settled]

MapCacheInv ==
  /\ MapCacheTypeOK
  /\ \A c \in Call : Shaped(call[c])
  /\ cache["map"] # 0
  /\ StaleExplained
  /\ calm => Undisturbed
=============================================================================
