---------------------------- MODULE ListenProofs ----------------------------
(***************************************************************************)
(* The tables that a snapshot listener goes through: those of the event    *)
(* manager, the sync engine, the local store and the remote store agree    *)
(* after every operation, for every set of queries, targets and listeners, *)
(* in the settings where they can: all listeners listen to the remote      *)
(* store, or no two queries share a target and the backend rejects none.   *)
(* Outside of these the runs on ListenLifecycle show where they disagree.  *)
(***************************************************************************)
EXTENDS ListenLifecycle, TLAPS

\* The settings of the theorems. Listeners of the cache are out of the way of a
\* shared target and of a rejection.
AllRemote(ls) == ls \subseteq RemoteListeners
Apart(ls) ==
  \A l, m \in ls : TargetOf[QueryOf[l]] = TargetOf[QueryOf[m]] => QueryOf[l] = QueryOf[m]

Sound(s) == AllRemote(s.listeners) \/ (Apart(s.listeners) /\ s.rejections = 0)

-----------------------------------------------------------------------------
(* The invariant *)

SettingRecord == [listeners : SUBSET Listeners, keeps : BOOLEAN, rejections : Nat]

QueryMaps == UNION {[S -> SUBSET Queries] : S \in SUBSET Nat}

ClientRecord ==
  [listeners : [Queries -> SUBSET Listeners], view : [Queries -> Nat],
   queries : QueryMaps, cache : [Targets -> Nat], nextId : Nat \ {0},
   active : SUBSET Nat, watched : SUBSET Nat, errors : SUBSET Listeners,
   failed : SUBSET Assertions]

\* The target cache gives each target an id of its own, and new ids are above
\* all of them.
CacheOK(cache, nextId) ==
  /\ \A t \in Targets : cache[t] < nextId
  /\ \A t, u \in Targets : cache[t] = cache[u] /\ cache[t] # None => t = u

\* Some query has its view on the target id; some remote listener needs it.
IsViewed(view, id) == id # None /\ \E q \in Queries : view[q] = id
IsNeeded(c, id)    == \E q \in Queries : c.view[q] = id /\ HasRemote(c, q)

\* The tables agree; ls are the listeners that the user may add.
Tidy(c, ls) ==
  /\ c \in ClientRecord
  /\ c.failed = {}
  /\ CacheOK(c.cache, c.nextId)
  /\ \A q \in Queries : c.view[q] # None => c.cache[TargetOf[q]] = c.view[q]
  /\ \A q \in Queries : c.listeners[q] # {} <=> c.view[q] # None
  /\ \A q \in Queries : \A l \in c.listeners[q] : QueryOf[l] = q /\ l \in ls
  /\ \A id : id \in c.active <=> IsViewed(c.view, id)
  /\ \A id : id \in DOMAIN c.queries <=> IsViewed(c.view, id)
  /\ \A id \in DOMAIN c.queries : \A q \in c.queries[id] : c.view[q] = id
  /\ \A id : id \in c.watched <=> IsNeeded(c, id)

\* While no query is downgraded to the cache, queries_by_target_ is complete.
Complete(c) ==
  \A q \in Queries : c.view[q] # None => q \in c.queries[c.view[q]]

CallsOf(ls) == [op : {"add", "remove"}, listener : ls]

\* A registration that is still to be removed is one of the event manager's, or
\* is still to be added, and is removed only once.
CallsOK(cs, c, gone) ==
  \A i \in 1..Len(cs) : cs[i].op = "remove" =>
    /\ \/ cs[i].listener \in c.listeners[QueryOf[cs[i].listener]]
       \/ \E j \in 1..(i - 1) : cs[j].op = "add" /\ cs[j].listener = cs[i].listener
    /\ cs[i].listener \in gone
    /\ \A j \in 1..(i - 1) : cs[j].op = "remove" => cs[j].listener # cs[i].listener

IInv ==
  /\ setting \in SettingRecord
  /\ Sound(setting)
  /\ calls \in Seq(CallsOf(setting.listeners))
  /\ added \subseteq setting.listeners
  /\ Tidy(client, setting.listeners)
  /\ IF AllRemote(setting.listeners) THEN Complete(client) ELSE CallsOK(calls, client, removed)

-----------------------------------------------------------------------------
(* The tables of the sync engine *)

\* queries_by_target_ maps ids to sets of queries.
LEMMA QueryMapType ==
  ASSUME NEW f \in QueryMaps
  PROVE  /\ DOMAIN f \subseteq Nat
         /\ \A id \in DOMAIN f : f[id] \subseteq Queries
BY DEF QueryMaps

\* A function of that kind is such a map.
LEMMA IsQueryMap ==
  ASSUME NEW f, NEW S \in SUBSET Nat, f \in [S -> SUBSET Queries] PROVE f \in QueryMaps
BY DEF QueryMaps

\* d is c with queries_by_target_[id] = qs.
QueriesSet(c, d, id, qs) ==
  /\ d \in ClientRecord
  /\ DOMAIN d.queries = DOMAIN c.queries \cup {id}
  /\ d.queries[id] = qs
  /\ \A i \in DOMAIN c.queries : i # id => d.queries[i] = c.queries[i]
  /\ d.listeners = c.listeners /\ d.view = c.view /\ d.cache = c.cache
  /\ d.nextId = c.nextId /\ d.active = c.active /\ d.watched = c.watched
  /\ d.errors = c.errors /\ d.failed = c.failed

\* Assignment to an entry.
LEMMA SetQueriesDoes ==
  ASSUME NEW c \in ClientRecord, NEW id \in Nat, NEW qs \in SUBSET Queries
  PROVE  QueriesSet(c, SetQueries(c, id, qs), id, qs)
<1> DEFINE S == DOMAIN c.queries \cup {id}
           f == [i \in S |-> IF i = id THEN qs ELSE c.queries[i]]
           d == SetQueries(c, id, qs)
<1>1. c.queries \in QueryMaps
  BY DEF ClientRecord
<1>2. f \in [S -> SUBSET Queries] /\ S \in SUBSET Nat
  BY <1>1, QueryMapType
<1>3. f \in QueryMaps
  BY <1>2, IsQueryMap
<1>4. d = [c EXCEPT !.queries = f]
  BY DEF SetQueries
<1>5. /\ DOMAIN f = DOMAIN c.queries \cup {id} /\ f[id] = qs
      /\ \A i \in DOMAIN c.queries : i # id => f[i] = c.queries[i]
  OBVIOUS
<1> HIDE DEF f, S, d
<1>6. /\ d \in ClientRecord /\ d.queries = f
      /\ d.listeners = c.listeners /\ d.view = c.view /\ d.cache = c.cache
      /\ d.nextId = c.nextId /\ d.active = c.active /\ d.watched = c.watched
      /\ d.errors = c.errors /\ d.failed = c.failed
  BY <1>3, <1>4 DEF ClientRecord
<1>7. QueriesSet(c, d, id, qs)
  BY <1>5, <1>6 DEF QueriesSet
<1> QED
  BY <1>7 DEF d

\* d is c without its entry for id.
QueriesDropped(c, d, id) ==
  /\ d \in ClientRecord
  /\ DOMAIN d.queries = DOMAIN c.queries \ {id}
  /\ \A i \in DOMAIN d.queries : d.queries[i] = c.queries[i]
  /\ d.listeners = c.listeners /\ d.view = c.view /\ d.cache = c.cache
  /\ d.nextId = c.nextId /\ d.active = c.active /\ d.watched = c.watched
  /\ d.errors = c.errors /\ d.failed = c.failed

\* Erasure of an entry.
LEMMA DropQueriesDoes ==
  ASSUME NEW c \in ClientRecord, NEW id
  PROVE  QueriesDropped(c, DropQueries(c, id), id)
<1> DEFINE S == DOMAIN c.queries \ {id}
           f == [i \in S |-> c.queries[i]]
           d == DropQueries(c, id)
<1>1. c.queries \in QueryMaps
  BY DEF ClientRecord
<1>2. f \in [S -> SUBSET Queries] /\ S \in SUBSET Nat
  BY <1>1, QueryMapType
<1>3. f \in QueryMaps
  BY <1>2, IsQueryMap
<1>4. d = [c EXCEPT !.queries = f]
  BY DEF DropQueries, Restrict
<1>5. DOMAIN f = DOMAIN c.queries \ {id} /\ \A i \in DOMAIN f : f[i] = c.queries[i]
  OBVIOUS
<1> HIDE DEF f, S, d
<1>6. /\ d \in ClientRecord /\ d.queries = f
      /\ d.listeners = c.listeners /\ d.view = c.view /\ d.cache = c.cache
      /\ d.nextId = c.nextId /\ d.active = c.active /\ d.watched = c.watched
      /\ d.errors = c.errors /\ d.failed = c.failed
  BY <1>3, <1>4 DEF ClientRecord
<1>7. QueriesDropped(c, d, id)
  BY <1>5, <1>6 DEF QueriesDropped
<1> QED
  BY <1>7 DEF d

-----------------------------------------------------------------------------
(* The target cache *)

\* d is c with the target of q under id.
Allocated(c, d, id, q) ==
  /\ d \in ClientRecord
  /\ id \in Nat \ {None}
  /\ d.cache = [c.cache EXCEPT ![TargetOf[q]] = id]
  /\ d.nextId = IF id = c.nextId THEN c.nextId + 1 ELSE c.nextId
  /\ d.active = c.active \cup {id}
  /\ d.listeners = c.listeners /\ d.view = c.view /\ d.queries = c.queries
  /\ d.watched = c.watched /\ d.errors = c.errors /\ d.failed = c.failed

\* LocalStore::AllocateTarget.
LEMMA AllocateDoes ==
  ASSUME NEW c \in ClientRecord, NEW q \in Queries
  PROVE  Allocated(c, AllocateTarget(c, q), TargetId(c, q), q)
<1> DEFINE id == TargetId(c, q)
           t == TargetOf[q]
           f == [c.cache EXCEPT ![t] = id]
           n == IF id = c.nextId THEN c.nextId + 1 ELSE c.nextId
           d == AllocateTarget(c, q)
<1>1. /\ c.cache \in [Targets -> Nat] /\ c.nextId \in Nat \ {0} /\ t \in Targets
      /\ c.active \subseteq Nat
  BY MappingAssumption DEF ClientRecord
<1>2. id \in Nat \ {None} /\ id \in Nat
  BY <1>1 DEF TargetId, None
<1> HIDE DEF id
<1>3. f \in [Targets -> Nat] /\ n \in Nat \ {0} /\ c.active \cup {id} \subseteq Nat
  BY <1>1, <1>2
<1>4. d = [c EXCEPT !.cache = f, !.nextId = n, !.active = @ \cup {id}]
  BY DEF AllocateTarget, id
<1> HIDE DEF f, n, d
<1>5. /\ d \in ClientRecord /\ d.cache = f /\ d.nextId = n /\ d.active = c.active \cup {id}
      /\ d.listeners = c.listeners /\ d.view = c.view /\ d.queries = c.queries
      /\ d.watched = c.watched /\ d.errors = c.errors /\ d.failed = c.failed
  BY <1>3, <1>4 DEF ClientRecord
<1>6. Allocated(c, d, id, q)
  BY <1>2, <1>5 DEF Allocated, f, n
<1> QED
  BY <1>6 DEF d, id

\* d is c after the target id was released.
Released(c, d, id) ==
  /\ d \in ClientRecord
  /\ d.active = c.active \ {id}
  /\ \A t \in Targets : d.cache[t] = c.cache[t] \/ (d.cache[t] = None /\ c.cache[t] = id)
  /\ d.nextId = c.nextId
  /\ d.listeners = c.listeners /\ d.view = c.view /\ d.queries = c.queries
  /\ d.watched = c.watched /\ d.errors = c.errors /\ d.failed = c.failed

\* LocalStore::ReleaseTarget of an active target, with either garbage collector.
LEMMA ReleaseDoes ==
  ASSUME NEW c \in ClientRecord, NEW id \in c.active
  PROVE  Released(c, ReleaseTarget(c, id), id)
<1> DEFINE f == [t \in Targets |-> IF c.cache[t] = id /\ ~setting.keeps THEN None
                                   ELSE c.cache[t]]
           d == ReleaseTarget(c, id)
<1>1. c.cache \in [Targets -> Nat] /\ c.active \subseteq Nat
  BY DEF ClientRecord
<1>2. f \in [Targets -> Nat]
  BY <1>1 DEF None
<1>3. \A t \in Targets : f[t] = c.cache[t] \/ (f[t] = None /\ c.cache[t] = id)
  OBVIOUS
<1>4. d = [c EXCEPT !.active = @ \ {id}, !.cache = f]
  BY DEF ReleaseTarget
<1> HIDE DEF f, d
<1>5. /\ d \in ClientRecord /\ d.cache = f /\ d.nextId = c.nextId
      /\ d.active = c.active \ {id}
      /\ d.listeners = c.listeners /\ d.view = c.view /\ d.queries = c.queries
      /\ d.watched = c.watched /\ d.errors = c.errors /\ d.failed = c.failed
  BY <1>1, <1>2, <1>4 DEF ClientRecord
<1>6. Released(c, d, id)
  BY <1>3, <1>5 DEF Released
<1> QED
  BY <1>6 DEF d

-----------------------------------------------------------------------------
(* Adding a listener *)

\* A client in order in one of the settings; what an operation leaves.
Before(c, ls) ==
  /\ ls \subseteq Listeners
  /\ Tidy(c, ls)
  /\ IF AllRemote(ls) THEN Complete(c) ELSE Apart(ls)

ViewsKept(c, d) ==
  \A q \in Queries : c.view[q] # None /\ d.view[q] # None => d.view[q] = c.view[q]

After(c, d, ls) ==
  Tidy(d, ls) /\ (AllRemote(ls) => Complete(d)) /\ ViewsKept(c, d)

\* Two views of the same target id are views of the same target. Listeners of the
\* cache have no company on theirs.
LEMMA SameTarget ==
  ASSUME NEW c, NEW ls, Before(c, ls), NEW p \in Queries, NEW q \in Queries,
         c.view[p] # None, c.cache[TargetOf[q]] = c.view[p]
  PROVE  /\ TargetOf[p] = TargetOf[q]
         /\ \A l \in ls : QueryOf[l] = q /\ ~AllRemote(ls) => p = q
<1>1. c.cache[TargetOf[p]] = c.view[p] /\ CacheOK(c.cache, c.nextId)
  BY DEF Before, Tidy
<1>2. TargetOf[p] = TargetOf[q]
  BY <1>1, MappingAssumption DEF CacheOK
<1>3. ASSUME NEW l \in ls, QueryOf[l] = q, ~AllRemote(ls) PROVE p = q
  <2>1. PICK m \in c.listeners[p] : QueryOf[m] = p /\ m \in ls
    BY DEF Before, Tidy
  <2> QED
    BY <1>2, <1>3, <2>1 DEF Before, Apart
<1> QED
  BY <1>2, <1>3

\* The id of a target is the one in the cache, or a new one.
LEMMA AllocatedCache ==
  ASSUME NEW c \in ClientRecord, CacheOK(c.cache, c.nextId), NEW q \in Queries,
         NEW d, Allocated(c, d, TargetId(c, q), q)
  PROVE  /\ CacheOK(d.cache, d.nextId)
         /\ d.cache[TargetOf[q]] = TargetId(c, q)
         /\ \A t \in Targets : t # TargetOf[q] => d.cache[t] = c.cache[t]
         /\ c.cache[TargetOf[q]] # None => TargetId(c, q) = c.cache[TargetOf[q]]
         /\ \A t \in Targets : c.cache[t] = TargetId(c, q) => t = TargetOf[q]
<1> DEFINE id == TargetId(c, q)
           u == TargetOf[q]
<1>1. /\ c.cache \in [Targets -> Nat] /\ c.nextId \in Nat \ {0} /\ u \in Targets
      /\ \A t \in Targets : c.cache[t] < c.nextId
  BY MappingAssumption DEF ClientRecord, CacheOK
<1>2. /\ c.cache[u] # None => id = c.cache[u]
      /\ c.cache[u] = None => id = c.nextId
  BY DEF TargetId
<1>3. /\ d.cache = [c.cache EXCEPT ![u] = id] /\ id \in Nat /\ id # None
      /\ d.nextId = IF id = c.nextId THEN c.nextId + 1 ELSE c.nextId
  BY DEF Allocated, None
<1> HIDE DEF id, u
<1>4. d.cache[u] = id /\ \A t \in Targets : t # u => d.cache[t] = c.cache[t]
  BY <1>1, <1>3
<1>5. \A t \in Targets : c.cache[t] = id => t = u
  BY <1>1, <1>2, <1>3 DEF CacheOK
<1>6. \A t \in Targets : d.cache[t] < d.nextId
  BY <1>1, <1>2, <1>3, <1>4
<1>7. \A t, v \in Targets : d.cache[t] = d.cache[v] /\ d.cache[t] # None => t = v
  BY <1>1, <1>4, <1>5 DEF CacheOK
<1> QED
  BY <1>2, <1>4, <1>5, <1>6, <1>7 DEF CacheOK, id, u

\* d is c with a view of q, for its first listener l.
Viewed(c, d, q, l, id) ==
  /\ d \in ClientRecord
  /\ CacheOK(d.cache, d.nextId)
  /\ d.cache[TargetOf[q]] = id /\ id # None
  /\ \A t \in Targets : t # TargetOf[q] => d.cache[t] = c.cache[t]
  /\ d.listeners = [c.listeners EXCEPT ![q] = {l}]
  /\ d.view = [c.view EXCEPT ![q] = id]
  /\ d.active = c.active \cup {id}
  /\ DOMAIN d.queries = DOMAIN c.queries \cup {id}
  /\ d.queries[id] = IF id \in DOMAIN c.queries THEN c.queries[id] \cup {q} ELSE {q}
  /\ \A i \in DOMAIN c.queries : i # id => d.queries[i] = c.queries[i]
  /\ d.watched = IF IsRemote(l) THEN c.watched \cup {id} ELSE c.watched
  /\ d.failed = {}

\* SyncEngine::Listen finds neither a view of the query nor an empty vector.
LEMMA EngineListenDoes ==
  ASSUME NEW c, NEW ls, Before(c, ls), NEW l \in ls, NEW q \in Queries,
         QueryOf[l] = q, c.listeners[q] = {}
  PROVE  Viewed(c, AddQueryListener(c, l), q, l, TargetId(c, q))
<1> DEFINE a == [c EXCEPT !.listeners[q] = @ \cup {l}]
           id == TargetId(c, q)
           b == AllocateTarget(a, q)
           w == [b EXCEPT !.view[q] = id]
           qs == IF Has(b, id) THEN b.queries[id] \cup {q} ELSE {q}
           v == SetQueries(w, id, qs)
           d == AddQueryListener(c, l)
<1>0. /\ c \in ClientRecord /\ c.failed = {} /\ CacheOK(c.cache, c.nextId)
      /\ l \in Listeners /\ c.view[q] = None
  BY DEF Before, Tidy
<1>1. /\ a \in ClientRecord /\ a.listeners = [c.listeners EXCEPT ![q] = {l}]
      /\ a.view = c.view /\ a.queries = c.queries /\ a.cache = c.cache
      /\ a.nextId = c.nextId /\ a.active = c.active /\ a.watched = c.watched
      /\ a.failed = c.failed
  BY <1>0 DEF ClientRecord
<1>2. d = EngineListen(a, q, IsRemote(l)) /\ TargetId(a, q) = id
  BY <1>1 DEF AddQueryListener, TargetId
<1>3. EngineListen(a, q, IsRemote(l)) =
        IF a.view[q] # None THEN Fail(a, "already_listening")
        ELSE IF Has(b, id) /\ b.queries[id] = {} THEN Fail(b, "empty_queries")
        ELSE IF IsRemote(l) THEN Watch(v, id) ELSE v
  BY <1>2 DEF EngineListen
<1> HIDE DEF a, id, d
<1>4. Allocated(a, b, id, q)
  BY <1>1, <1>2, AllocateDoes
<1>5. /\ CacheOK(b.cache, b.nextId) /\ b.cache[TargetOf[q]] = id
      /\ \A t \in Targets : t # TargetOf[q] => b.cache[t] = c.cache[t]
      /\ \A t \in Targets : c.cache[t] = id => t = TargetOf[q]
  BY <1>0, <1>1, <1>2, <1>4, AllocatedCache
<1>6. /\ b \in ClientRecord /\ id \in Nat \ {None}
      /\ b.listeners = a.listeners /\ b.view = c.view /\ b.queries = c.queries
      /\ b.active = c.active \cup {id} /\ b.watched = c.watched /\ b.failed = c.failed
  BY <1>1, <1>4 DEF Allocated
<1> HIDE DEF b
<1>7. ~(Has(b, id) /\ b.queries[id] = {})
  <2> SUFFICES ASSUME id \in DOMAIN c.queries, c.queries[id] = {} PROVE FALSE
    BY <1>6 DEF Has
  <2>1. PICK p \in Queries : c.view[p] = id
    BY DEF Before, Tidy, IsViewed
  <2>2. c.cache[TargetOf[p]] = id /\ c.view[p] # None
    BY <1>6, <2>1 DEF Before, Tidy
  <2>3. TargetOf[p] = TargetOf[q]
    BY <1>5, <2>2, MappingAssumption
  <2>4. c.cache[TargetOf[q]] = c.view[p]
    BY <2>1, <2>2, <2>3
  <2>5. CASE AllRemote(ls)
    BY <2>1, <2>2, <2>5 DEF Before, Complete
  <2>6. CASE ~AllRemote(ls)
    <3>1. p = q
      BY <2>2, <2>4, <2>6, SameTarget
    <3> QED
      BY <1>0, <2>2, <3>1
  <2> QED
    BY <2>5, <2>6
<1>8. /\ w \in ClientRecord /\ w.view = [c.view EXCEPT ![q] = id]
      /\ w.listeners = a.listeners /\ w.queries = c.queries
      /\ w.cache = b.cache /\ w.nextId = b.nextId
      /\ w.active = c.active \cup {id} /\ w.watched = c.watched /\ w.failed = {}
  BY <1>0, <1>6 DEF ClientRecord
<1>9. /\ qs = IF id \in DOMAIN c.queries THEN c.queries[id] \cup {q} ELSE {q}
      /\ qs \in SUBSET Queries
  <2>1. c.queries \in QueryMaps
    BY <1>0 DEF ClientRecord
  <2> QED
    BY <1>6, <2>1, QueryMapType DEF Has
<1> HIDE DEF w, qs
<1>10. QueriesSet(w, v, id, qs)
  BY <1>6, <1>8, <1>9, SetQueriesDoes
<1> HIDE DEF v
<1>11. d = IF IsRemote(l) THEN Watch(v, id) ELSE v
  BY <1>0, <1>1, <1>2, <1>3, <1>7
<1>12. v \in ClientRecord
  BY <1>10 DEF QueriesSet
<1>13. /\ d \in ClientRecord
       /\ d.listeners = v.listeners /\ d.view = v.view /\ d.cache = v.cache
       /\ d.nextId = v.nextId /\ d.active = v.active /\ d.queries = v.queries
       /\ d.failed = v.failed
       /\ d.watched = IF IsRemote(l) THEN v.watched \cup {id} ELSE v.watched
  BY <1>6, <1>11, <1>12 DEF Watch, ClientRecord
<1>14. Viewed(c, d, q, l, id)
  BY <1>1, <1>5, <1>6, <1>8, <1>9, <1>10, <1>13 DEF QueriesSet, Viewed
<1> QED
  BY <1>14 DEF d, id

\* The tables agree on the new view, which may share its target.
LEMMA ViewedKeeps ==
  ASSUME NEW c, NEW ls, Before(c, ls), NEW l \in ls, NEW q \in Queries,
         QueryOf[l] = q, c.listeners[q] = {}, NEW d, Viewed(c, d, q, l, TargetId(c, q))
  PROVE  After(c, d, ls)
<1> DEFINE id == TargetId(c, q)
<1>1. /\ c \in ClientRecord /\ c.view[q] = None /\ c.failed = {}
      /\ c.listeners \in [Queries -> SUBSET Listeners] /\ c.view \in [Queries -> Nat]
      /\ l \in Listeners
  BY DEF Before, Tidy, ClientRecord
<1>2. /\ d \in ClientRecord /\ id # None
      /\ d.listeners[q] = {l} /\ d.view[q] = id
      /\ \A p \in Queries : p # q => d.listeners[p] = c.listeners[p] /\ d.view[p] = c.view[p]
      /\ d.cache[TargetOf[q]] = id
      /\ \A t \in Targets : t # TargetOf[q] => d.cache[t] = c.cache[t]
  BY <1>1 DEF Viewed
<1>3. \A t \in Targets : c.cache[t] # None => d.cache[t] = c.cache[t]
  <2>1. c.cache[TargetOf[q]] # None => id = c.cache[TargetOf[q]]
    BY DEF TargetId
  <2> QED
    BY <1>2, <2>1
<1> HIDE DEF id
<1>4. \A i : IsViewed(d.view, i) <=> i = id \/ IsViewed(c.view, i)
  BY <1>1, <1>2 DEF IsViewed
<1>5. \A p \in Queries : d.view[p] # None => d.cache[TargetOf[p]] = d.view[p]
  <2> SUFFICES ASSUME NEW p \in Queries, p # q, c.view[p] # None
               PROVE  d.cache[TargetOf[p]] = c.view[p]
    BY <1>2
  <2> QED
    BY <1>3, MappingAssumption DEF Before, Tidy
<1>6. \A p \in Queries : d.listeners[p] # {} <=> d.view[p] # None
  BY <1>2 DEF Before, Tidy
<1>7. \A p \in Queries : \A m \in d.listeners[p] : QueryOf[m] = p /\ m \in ls
  BY <1>2 DEF Before, Tidy
<1>8. /\ \A i : i \in d.active <=> IsViewed(d.view, i)
      /\ \A i : i \in DOMAIN d.queries <=> IsViewed(d.view, i)
  BY <1>4 DEF Before, Tidy, Viewed, id
<1>9. \A i \in DOMAIN d.queries : \A p \in d.queries[i] : d.view[p] = i
  <2> SUFFICES ASSUME NEW i \in DOMAIN d.queries, NEW p \in d.queries[i]
               PROVE  d.view[p] = i
    OBVIOUS
  <2>1. /\ DOMAIN d.queries = DOMAIN c.queries \cup {id}
        /\ d.queries[id] = IF id \in DOMAIN c.queries THEN c.queries[id] \cup {q} ELSE {q}
        /\ \A j \in DOMAIN c.queries : j # id => d.queries[j] = c.queries[j]
    BY DEF Viewed, id
  <2>2. (i \in DOMAIN c.queries /\ p \in c.queries[i]) \/ (i = id /\ p = q)
    BY <2>1
  <2>3. CASE i \in DOMAIN c.queries /\ p \in c.queries[i]
    <3>1. c.view[p] = i /\ i # None
      BY <2>3 DEF Before, Tidy, IsViewed
    <3>2. p \in Queries
      BY <1>1, <2>3, QueryMapType DEF ClientRecord
    <3> QED
      BY <1>1, <1>2, <3>1, <3>2
  <2> QED
    BY <1>2, <2>2, <2>3
<1>10. \A i : i \in d.watched <=> IsNeeded(d, i)
  <2>1. \A p \in Queries : p # q => (HasRemote(d, p) <=> HasRemote(c, p))
    BY <1>2 DEF HasRemote
  <2>2. HasRemote(d, q) <=> IsRemote(l)
    BY <1>2 DEF HasRemote
  <2>3. ~HasRemote(c, q)
    BY DEF HasRemote
  <2>4. \A i : IsNeeded(d, i) <=> IsNeeded(c, i) \/ (i = id /\ IsRemote(l))
    BY <1>2, <2>1, <2>2, <2>3 DEF IsNeeded
  <2> QED
    BY <2>4 DEF Before, Tidy, Viewed, id
<1>11. ASSUME AllRemote(ls) PROVE Complete(d)
  <2> SUFFICES ASSUME NEW p \in Queries, d.view[p] # None PROVE p \in d.queries[d.view[p]]
    BY DEF Complete
  <2>1. /\ d.queries[id] = IF id \in DOMAIN c.queries THEN c.queries[id] \cup {q} ELSE {q}
        /\ \A j \in DOMAIN c.queries : j # id => d.queries[j] = c.queries[j]
    BY DEF Viewed, id
  <2>2. CASE p = q
    BY <1>2, <2>1, <2>2
  <2>3. CASE p # q
    <3>1. c.view[p] # None /\ p \in c.queries[c.view[p]] /\ d.view[p] = c.view[p]
      BY <1>2, <1>11, <2>3 DEF Before, Complete
    <3>2. c.view[p] \in DOMAIN c.queries
      BY <3>1 DEF Before, Tidy, IsViewed
    <3> QED
      BY <2>1, <3>1, <3>2
  <2> QED
    BY <2>2, <2>3
<1>12. ViewsKept(c, d)
  BY <1>1, <1>2 DEF ViewsKept
<1>13. CacheOK(d.cache, d.nextId) /\ d.failed = {}
  BY DEF Viewed
<1> QED
  BY <1>2, <1>5, <1>6, <1>7, <1>8, <1>9, <1>10, <1>11, <1>12, <1>13 DEF After, Tidy

\* d is c with one more listener of a query that has a view.
Joined(c, d, q, l) ==
  /\ d \in ClientRecord
  /\ d.listeners = [c.listeners EXCEPT ![q] = @ \cup {l}]
  /\ d.view = c.view /\ d.queries = c.queries /\ d.cache = c.cache
  /\ d.nextId = c.nextId /\ d.active = c.active /\ d.failed = {}
  /\ d.watched = IF IsRemote(l) THEN c.watched \cup {c.view[q]} ELSE c.watched

\* A further listener; the first one that is remote starts the watch of a target
\* that is allocated already (SyncEngine::ListenToRemoteStore).
LEMMA JoinDoes ==
  ASSUME NEW c, NEW ls, Before(c, ls), NEW l \in ls, NEW q \in Queries,
         QueryOf[l] = q, c.listeners[q] # {}
  PROVE  Joined(c, AddQueryListener(c, l), q, l)
<1> DEFINE a == [c EXCEPT !.listeners[q] = @ \cup {l}]
           id == TargetId(c, q)
           b == AllocateTarget(a, q)
           d == AddQueryListener(c, l)
<1>0. /\ c \in ClientRecord /\ c.failed = {} /\ CacheOK(c.cache, c.nextId)
      /\ l \in Listeners /\ c.view[q] # None /\ c.view[q] = c.cache[TargetOf[q]]
      /\ c.cache \in [Targets -> Nat] /\ TargetOf[q] \in Targets
  BY MappingAssumption DEF Before, Tidy, ClientRecord
<1>1. /\ a \in ClientRecord /\ a.listeners = [c.listeners EXCEPT ![q] = @ \cup {l}]
      /\ a.view = c.view /\ a.queries = c.queries /\ a.cache = c.cache
      /\ a.nextId = c.nextId /\ a.active = c.active /\ a.watched = c.watched
      /\ a.failed = {} /\ a.errors = c.errors
  BY <1>0 DEF ClientRecord
<1>2. d = IF ~HasRemote(c, q) /\ IsRemote(l) THEN ListenToRemoteStore(a, q) ELSE a
  BY DEF AddQueryListener
<1>3. TargetId(a, q) = id /\ id = c.view[q]
  BY <1>0, <1>1 DEF TargetId
<1>4. ListenToRemoteStore(a, q) = Watch(b, id)
  BY <1>3 DEF ListenToRemoteStore
<1> HIDE DEF a, id, d
<1>5. Allocated(a, b, id, q)
  BY <1>1, <1>3, AllocateDoes
<1> HIDE DEF b
<1>6. id < c.nextId /\ id \in c.active /\ c.nextId \in Nat
  BY <1>0, <1>3 DEF Before, Tidy, CacheOK, IsViewed, ClientRecord
<1>7. /\ b \in ClientRecord /\ b.cache = c.cache /\ b.nextId = c.nextId
      /\ b.active = c.active /\ b.listeners = a.listeners /\ b.view = c.view
      /\ b.queries = c.queries /\ b.watched = c.watched /\ b.failed = {}
      /\ id \in Nat
  <2>1. [c.cache EXCEPT ![TargetOf[q]] = id] = c.cache
    BY <1>0, <1>3
  <2>2. id # c.nextId
    BY <1>0, <1>3, <1>6
  <2> QED
    BY <1>1, <1>5, <1>6, <2>1, <2>2 DEF Allocated
<1>8. CASE ~HasRemote(c, q) /\ IsRemote(l)
  <2> DEFINE x == Watch(b, id)
  <2>1. /\ x \in ClientRecord /\ x.cache = c.cache /\ x.nextId = c.nextId
        /\ x.active = c.active /\ x.listeners = a.listeners /\ x.view = c.view
        /\ x.queries = c.queries /\ x.watched = c.watched \cup {id} /\ x.failed = {}
    BY <1>7 DEF Watch, ClientRecord
  <2>2. d = x
    BY <1>2, <1>4, <1>8
  <2> HIDE DEF x
  <2>3. Joined(c, d, q, l)
    BY <1>1, <1>3, <1>8, <2>1, <2>2 DEF Joined
  <2> QED
    BY <2>3 DEF d
<1>9. CASE HasRemote(c, q) \/ ~IsRemote(l)
  <2>1. d = a
    BY <1>2, <1>9
  <2>2. HasRemote(c, q) => c.view[q] \in c.watched
    BY DEF Before, Tidy, IsNeeded
  <2>3. c.watched = IF IsRemote(l) THEN c.watched \cup {c.view[q]} ELSE c.watched
    BY <1>9, <2>2
  <2>4. Joined(c, d, q, l)
    BY <1>1, <2>1, <2>3 DEF Joined
  <2> QED
    BY <2>4 DEF d
<1> QED
  BY <1>8, <1>9

\* The tables agree with one more listener.
LEMMA JoinedKeeps ==
  ASSUME NEW c, NEW ls, Before(c, ls), NEW l \in ls, NEW q \in Queries,
         QueryOf[l] = q, c.listeners[q] # {}, NEW d, Joined(c, d, q, l)
  PROVE  After(c, d, ls)
<1>1. /\ c \in ClientRecord /\ c.view[q] # None
      /\ c.listeners \in [Queries -> SUBSET Listeners] /\ l \in Listeners
  BY DEF Before, Tidy, ClientRecord
<1>2. /\ d \in ClientRecord /\ d.view = c.view
      /\ d.listeners[q] = c.listeners[q] \cup {l}
      /\ \A p \in Queries : p # q => d.listeners[p] = c.listeners[p]
  BY <1>1 DEF Joined
<1>3. \A p \in Queries : d.listeners[p] # {} <=> c.listeners[p] # {}
  BY <1>2
<1>4. \A p \in Queries : \A m \in d.listeners[p] : QueryOf[m] = p /\ m \in ls
  BY <1>2 DEF Before, Tidy
<1>5. \A i : i \in d.watched <=> IsNeeded(d, i)
  <2>1. \A p \in Queries : p # q => (HasRemote(d, p) <=> HasRemote(c, p))
    BY <1>2 DEF HasRemote
  <2>2. HasRemote(d, q) <=> HasRemote(c, q) \/ IsRemote(l)
    BY <1>2 DEF HasRemote
  <2>3. \A i : IsNeeded(d, i) <=> IsNeeded(c, i) \/ (i = c.view[q] /\ IsRemote(l))
    BY <1>2, <2>1, <2>2 DEF IsNeeded
  <2> QED
    BY <2>3 DEF Before, Tidy, Joined
<1>6. ViewsKept(c, d) /\ (AllRemote(ls) => Complete(d))
  BY <1>2 DEF ViewsKept, Before, Complete, Joined
<1> QED
  BY <1>2, <1>3, <1>4, <1>5, <1>6 DEF After, Before, Tidy, Joined

\* EventManager::AddQueryListener, for a first listener and for a further one.
LEMMA AddKeeps ==
  ASSUME NEW c, NEW ls, Before(c, ls), NEW l \in ls
  PROVE  /\ After(c, AddQueryListener(c, l), ls)
         /\ l \in AddQueryListener(c, l).listeners[QueryOf[l]]
         /\ \A p \in Queries : c.listeners[p] \subseteq AddQueryListener(c, l).listeners[p]
<1> DEFINE q == QueryOf[l]
           d == AddQueryListener(c, l)
<1>1. q \in Queries /\ c.listeners \in [Queries -> SUBSET Listeners]
  BY MappingAssumption DEF Before, Tidy, ClientRecord
<1>2. CASE c.listeners[q] = {}
  <2>1. Viewed(c, d, q, l, TargetId(c, q))
    BY <1>1, <1>2, EngineListenDoes
  <2> HIDE DEF d
  <2>2. After(c, d, ls)
    BY <1>1, <1>2, <2>1, ViewedKeeps
  <2>3. d.listeners = [c.listeners EXCEPT ![q] = {l}]
    BY <2>1 DEF Viewed
  <2> QED
    BY <1>1, <1>2, <2>2, <2>3 DEF d
<1>3. CASE c.listeners[q] # {}
  <2>1. Joined(c, d, q, l)
    BY <1>1, <1>3, JoinDoes
  <2> HIDE DEF d
  <2>2. After(c, d, ls)
    BY <1>1, <1>3, <2>1, JoinedKeeps
  <2>3. d.listeners = [c.listeners EXCEPT ![q] = @ \cup {l}]
    BY <2>1 DEF Joined
  <2> QED
    BY <1>1, <1>3, <2>2, <2>3 DEF d
<1> QED
  BY <1>2, <1>3

-----------------------------------------------------------------------------
(* The end of a target *)

\* d is c without the target id: its views are gone, with their listeners and a
\* report to these if there was an error.
Cleaned(c, d, id, isError) ==
  /\ d \in ClientRecord
  /\ DOMAIN d.queries = DOMAIN c.queries \ {id}
  /\ \A i \in DOMAIN d.queries : d.queries[i] = c.queries[i]
  /\ \A q \in Queries :
       d.view[q] = IF q \in c.queries[id] THEN None ELSE c.view[q]
  /\ \A q \in Queries : \A l : l \in d.listeners[q] <=>
       /\ l \in c.listeners[q]
       /\ isError => \A p \in c.queries[id] : l \notin c.listeners[p]
  /\ isError => \A p \in c.queries[id] : c.listeners[p] \subseteq d.errors
  /\ d.cache = c.cache /\ d.nextId = c.nextId /\ d.active = c.active
  /\ d.watched = c.watched /\ d.failed = c.failed

\* SyncEngine::RemoveAndCleanupTarget of a target that has its entry.
LEMMA CleanupDoes ==
  ASSUME NEW c \in ClientRecord, NEW id \in DOMAIN c.queries, NEW isError \in BOOLEAN
  PROVE  Cleaned(c, RemoveAndCleanupTarget(c, id, isError), id, isError)
<1> DEFINE gone == c.queries[id]
           hit == IF isError THEN UNION {c.listeners[q] : q \in gone} ELSE {}
           e == DropQueries(c, id)
           vw == [q \in Queries |-> IF q \in gone THEN None ELSE c.view[q]]
           ls == [q \in Queries |-> c.listeners[q] \ hit]
           d == RemoveAndCleanupTarget(c, id, isError)
<1>1. QueriesDropped(c, e, id)
  BY DropQueriesDoes
<1>2. /\ c.queries \in QueryMaps /\ c.errors \subseteq Listeners
      /\ c.view \in [Queries -> Nat] /\ c.listeners \in [Queries -> SUBSET Listeners]
  BY DEF ClientRecord
<1>3. gone \subseteq Queries
  BY <1>2, QueryMapType
<1>4. /\ vw \in [Queries -> Nat] /\ ls \in [Queries -> SUBSET Listeners]
      /\ hit \subseteq Listeners
  BY <1>2, <1>3 DEF None
<1>5. \A q \in Queries : \A l : l \in ls[q] <=>
        /\ l \in c.listeners[q]
        /\ isError => \A p \in gone : l \notin c.listeners[p]
  BY <1>2
<1>6. isError => \A p \in gone : c.listeners[p] \subseteq hit
  OBVIOUS
<1>7. /\ e \in ClientRecord /\ e.view = c.view /\ e.listeners = c.listeners
      /\ e.errors = c.errors
  BY <1>1 DEF QueriesDropped
<1>8. d = [e EXCEPT !.view = vw, !.listeners = ls, !.errors = @ \cup hit]
  BY <1>7 DEF RemoveAndCleanupTarget, Has
<1>9. \A q \in Queries : vw[q] = IF q \in gone THEN None ELSE c.view[q]
  OBVIOUS
<1> HIDE DEF gone, hit, e, vw, ls, d
<1>10. /\ d \in ClientRecord /\ d.view = vw /\ d.listeners = ls
       /\ d.errors = e.errors \cup hit /\ d.queries = e.queries /\ d.cache = e.cache
       /\ d.nextId = e.nextId /\ d.active = e.active /\ d.watched = e.watched
       /\ d.failed = e.failed
  BY <1>2, <1>4, <1>7, <1>8 DEF ClientRecord
<1>11. Cleaned(c, d, id, isError)
  BY <1>1, <1>5, <1>6, <1>9, <1>10 DEF Cleaned, QueriesDropped, gone
<1> QED
  BY <1>11 DEF d

-----------------------------------------------------------------------------
(* Removing a listener *)

\* d is c without the last listener of q, whose target has other queries.
LeftShared(c, d, q) ==
  /\ d \in ClientRecord
  /\ d.listeners = [c.listeners EXCEPT ![q] = {}]
  /\ d.view = [c.view EXCEPT ![q] = None]
  /\ DOMAIN d.queries = DOMAIN c.queries
  /\ d.queries[c.view[q]] = c.queries[c.view[q]] \ {q}
  /\ \A i \in DOMAIN c.queries : i # c.view[q] => d.queries[i] = c.queries[i]
  /\ d.cache = c.cache /\ d.nextId = c.nextId /\ d.active = c.active
  /\ d.watched = c.watched /\ d.failed = {}

\* The same when the target goes with its last query.
LeftAlone(c, d, q) ==
  /\ d \in ClientRecord
  /\ d.listeners = [c.listeners EXCEPT ![q] = {}]
  /\ d.view = [c.view EXCEPT ![q] = None]
  /\ DOMAIN d.queries = DOMAIN c.queries \ {c.view[q]}
  /\ \A i \in DOMAIN d.queries : d.queries[i] = c.queries[i]
  /\ \A t \in Targets :
       d.cache[t] = c.cache[t] \/ (d.cache[t] = None /\ c.cache[t] = c.view[q])
  /\ d.nextId = c.nextId /\ d.active = c.active \ {c.view[q]}
  /\ d.watched = c.watched \ {c.view[q]} /\ d.failed = {}

\* With a single query left, no other query has its view on the target.
LEMMA OnlyViewer ==
  ASSUME NEW c, NEW ls, Before(c, ls), NEW q \in Queries, NEW l \in c.listeners[q],
         c.queries[c.view[q]] \subseteq {q}, NEW p \in Queries,
         c.view[p] = c.view[q], c.view[q] # None
  PROVE  p = q
<1>1. QueryOf[l] = q /\ l \in ls /\ c.cache[TargetOf[q]] = c.view[p]
  BY DEF Before, Tidy
<1>2. CASE AllRemote(ls)
  BY <1>2 DEF Before, Complete
<1>3. CASE ~AllRemote(ls)
  BY <1>1, <1>3, SameTarget
<1> QED
  BY <1>2, <1>3

\* Where the last listener of a query is removed, SyncEngine finds what it needs.
LEMMA LastLeaves ==
  ASSUME NEW c, NEW ls, Before(c, ls), NEW q \in Queries, NEW l \in c.listeners[q],
         c.listeners[q] = {l}
  PROVE  \/ /\ LeftShared(c, RemoveQueryListener(c, l), q)
            /\ c.queries[c.view[q]] \ {q} # {}
         \/ /\ LeftAlone(c, RemoveQueryListener(c, l), q)
            /\ c.queries[c.view[q]] \subseteq {q}
<1> DEFINE r == [c EXCEPT !.listeners[q] = @ \ {l}]
           id == c.view[q]
           rest == c.queries[id] \ {q}
           w == [r EXCEPT !.view[q] = None]
           v == SetQueries(w, id, rest)
           u == IF IsRemote(l) THEN Unwatch(v, id) ELSE v
           x == ReleaseTarget(u, id)
           y == RemoveAndCleanupTarget(x, id, FALSE)
           d == RemoveQueryListener(c, l)
<1>0. /\ c \in ClientRecord /\ c.failed = {} /\ id # None /\ QueryOf[l] = q /\ l \in ls
      /\ id \in c.active /\ id \in DOMAIN c.queries /\ id \in Nat
      /\ c.queries \in QueryMaps /\ c.view \in [Queries -> Nat]
  BY DEF Before, Tidy, IsViewed, ClientRecord
<1>1. rest \in SUBSET Queries
  BY <1>0, QueryMapType
<1>2. IsRemote(l) => id \in c.watched
  BY <1>0 DEF Before, Tidy, IsNeeded, HasRemote
<1>3. /\ r \in ClientRecord /\ r.listeners = [c.listeners EXCEPT ![q] = {}]
      /\ r.listeners[q] = {}
      /\ r.view = c.view /\ r.queries = c.queries /\ r.cache = c.cache
      /\ r.nextId = c.nextId /\ r.active = c.active /\ r.watched = c.watched
      /\ r.failed = {}
  BY <1>0 DEF ClientRecord
<1>4. d = StopListeningAndReleaseTarget(r, q, TRUE, IsRemote(l))
  BY <1>0, <1>3 DEF RemoveQueryListener
<1> HIDE DEF r
<1>5. /\ w \in ClientRecord /\ w.view = [c.view EXCEPT ![q] = None]
      /\ w.listeners = r.listeners /\ w.queries = c.queries /\ w.cache = c.cache
      /\ w.nextId = c.nextId /\ w.active = c.active /\ w.watched = c.watched
      /\ w.failed = {}
  BY <1>3 DEF ClientRecord, None
<1>6. StopListeningAndReleaseTarget(r, q, TRUE, IsRemote(l)) =
        IF rest # {} THEN v
        ELSE IF u.failed # {} THEN u
        ELSE IF x.failed # {} THEN x
        ELSE y
  BY <1>0, <1>3 DEF StopListeningAndReleaseTarget, Has
<1> HIDE DEF id, rest, w, d, y
<1>7. QueriesSet(w, v, id, rest)
  BY <1>0, <1>1, <1>5, SetQueriesDoes
<1> HIDE DEF v
<1>8. CASE rest # {}
  <2>1. DOMAIN v.queries = DOMAIN c.queries
    BY <1>0, <1>5, <1>7 DEF QueriesSet
  <2>2. d = v
    BY <1>4, <1>6, <1>8
  <2>3. LeftShared(c, d, q)
    BY <1>3, <1>5, <1>7, <2>1, <2>2 DEF LeftShared, QueriesSet, id, rest
  <2> QED
    BY <1>8, <2>3 DEF d, rest, id
<1>9. CASE rest = {}
  <2>1. c.queries[id] \subseteq {q}
    BY <1>9 DEF rest
  <2>2. ~IsRemote(l) => id \notin c.watched
    <3> SUFFICES ASSUME ~IsRemote(l), id \in c.watched PROVE FALSE
      OBVIOUS
    <3>1. PICK p \in Queries : c.view[p] = id /\ HasRemote(c, p)
      BY DEF Before, Tidy, IsNeeded
    <3>2. p = q
      BY <1>0, <2>1, <3>1, OnlyViewer DEF id
    <3> QED
      BY <3>1, <3>2 DEF HasRemote
  <2>3. /\ u \in ClientRecord /\ u.watched = c.watched \ {id}
        /\ u.listeners = v.listeners /\ u.view = v.view /\ u.queries = v.queries
        /\ u.cache = v.cache /\ u.nextId = v.nextId /\ u.active = v.active
        /\ u.failed = {}
    <3>1. v \in ClientRecord /\ v.watched = c.watched /\ v.failed = {}
      BY <1>5, <1>7 DEF QueriesSet
    <3>2. CASE IsRemote(l)
      <4>1. u = [v EXCEPT !.watched = @ \ {id}]
        BY <1>2, <3>1, <3>2 DEF Unwatch
      <4> HIDE DEF u
      <4> QED
        BY <3>1, <4>1 DEF ClientRecord
    <3>3. CASE ~IsRemote(l)
      <4>1. u = v /\ c.watched = c.watched \ {id}
        BY <2>2, <3>3
      <4> HIDE DEF u
      <4> QED
        BY <3>1, <4>1
    <3> QED
      BY <3>2, <3>3
  <2> HIDE DEF u
  <2>4. id \in u.active
    BY <1>0, <1>5, <1>7, <2>3 DEF QueriesSet
  <2>5. Released(u, x, id)
    BY <2>3, <2>4, ReleaseDoes
  <2> HIDE DEF x
  <2>6. x \in ClientRecord /\ id \in DOMAIN x.queries /\ x.queries[id] = {}
    BY <1>7, <1>9, <2>3, <2>5 DEF Released, QueriesSet
  <2>7. Cleaned(x, y, id, FALSE)
    BY <2>6, CleanupDoes DEF y
  <2>8. x.failed = {} /\ d = y
    BY <1>4, <1>6, <1>9, <2>3, <2>5 DEF Released
  <2>9. y.view = [c.view EXCEPT ![q] = None]
    <3>1. x.view = [c.view EXCEPT ![q] = None]
      BY <1>5, <1>7, <2>3, <2>5 DEF Released, QueriesSet
    <3>2. \A p \in Queries : y.view[p] = x.view[p]
      BY <2>6, <2>7 DEF Cleaned
    <3>3. y.view \in [Queries -> Nat] /\ x.view \in [Queries -> Nat]
      BY <2>6, <2>7 DEF Cleaned, ClientRecord
    <3> QED
      BY <3>1, <3>2, <3>3
  <2>10. y.listeners = [c.listeners EXCEPT ![q] = {}]
    <3>1. x.listeners = [c.listeners EXCEPT ![q] = {}]
      BY <1>3, <1>5, <1>7, <2>3, <2>5 DEF Released, QueriesSet
    <3>2. \A p \in Queries : y.listeners[p] = x.listeners[p]
      BY <2>7 DEF Cleaned
    <3>3. /\ y.listeners \in [Queries -> SUBSET Listeners]
          /\ x.listeners \in [Queries -> SUBSET Listeners]
      BY <2>6, <2>7 DEF Cleaned, ClientRecord
    <3> QED
      BY <3>1, <3>2, <3>3
  <2>11. /\ DOMAIN y.queries = DOMAIN c.queries \ {id}
         /\ \A i \in DOMAIN y.queries : y.queries[i] = c.queries[i]
    BY <1>0, <1>5, <1>7, <2>3, <2>5, <2>7 DEF Cleaned, Released, QueriesSet
  <2>12. /\ \A t \in Targets :
              y.cache[t] = c.cache[t] \/ (y.cache[t] = None /\ c.cache[t] = id)
         /\ y.nextId = c.nextId /\ y.active = c.active \ {id}
         /\ y.watched = c.watched \ {id} /\ y.failed = {}
    BY <1>5, <1>7, <2>3, <2>5, <2>7 DEF Cleaned, Released, QueriesSet
  <2>13. LeftAlone(c, d, q)
    BY <2>7, <2>8, <2>9, <2>10, <2>11, <2>12 DEF LeftAlone, Cleaned, id
  <2> QED
    BY <2>1, <2>13 DEF d, id
<1> QED
  BY <1>8, <1>9

\* A cache that has lost entries is in order.
LEMMA FewerCached ==
  ASSUME NEW cache, NEW n \in Nat \ {0}, CacheOK(cache, n), NEW f,
         \A t \in Targets : f[t] = cache[t] \/ f[t] = None
  PROVE  CacheOK(f, n)
BY DEF CacheOK, None

\* The tables agree without the query, whose target has others.
LEMMA LeftSharedKeeps ==
  ASSUME NEW c, NEW ls, Before(c, ls), NEW q \in Queries, NEW l \in c.listeners[q],
         c.listeners[q] = {l}, c.queries[c.view[q]] \ {q} # {},
         NEW d, LeftShared(c, d, q)
  PROVE  After(c, d, ls)
<1> DEFINE id == c.view[q]
<1>0. /\ c \in ClientRecord /\ id # None /\ QueryOf[l] = q /\ l \in ls
      /\ id \in DOMAIN c.queries
      /\ c.queries \in QueryMaps /\ c.view \in [Queries -> Nat]
      /\ c.listeners \in [Queries -> SUBSET Listeners]
  BY DEF Before, Tidy, IsViewed, ClientRecord
<1>1. PICK o \in c.queries[id] : o # q
  OBVIOUS
<1>2. o \in Queries /\ c.view[o] = id
  BY <1>0, <1>1, QueryMapType DEF Before, Tidy
<1>3. AllRemote(ls)
  <2> SUFFICES ASSUME ~AllRemote(ls) PROVE FALSE
    OBVIOUS
  <2>1. c.cache[TargetOf[q]] = c.view[o] /\ c.view[o] # None
    BY <1>0, <1>2 DEF Before, Tidy
  <2> QED
    BY <1>0, <1>1, <1>2, <2>1, SameTarget
<1>4. /\ d \in ClientRecord /\ d.view[q] = None /\ d.listeners[q] = {}
      /\ \A p \in Queries : p # q => d.view[p] = c.view[p] /\ d.listeners[p] = c.listeners[p]
      /\ DOMAIN d.queries = DOMAIN c.queries
      /\ d.queries[id] = c.queries[id] \ {q}
      /\ \A i \in DOMAIN c.queries : i # id => d.queries[i] = c.queries[i]
      /\ d.cache = c.cache /\ d.nextId = c.nextId /\ d.active = c.active
      /\ d.watched = c.watched /\ d.failed = {}
  BY <1>0 DEF LeftShared
<1> HIDE DEF id
<1>5. \A i : IsViewed(d.view, i) <=> IsViewed(c.view, i)
  <2>1. \A i : IsViewed(d.view, i) => IsViewed(c.view, i)
    BY <1>4 DEF IsViewed
  <2>2. \A i : i # id /\ IsViewed(c.view, i) => IsViewed(d.view, i)
    BY <1>4 DEF IsViewed, id
  <2>3. IsViewed(d.view, id)
    BY <1>0, <1>1, <1>2, <1>4 DEF IsViewed
  <2> QED
    BY <2>1, <2>2, <2>3
<1>6. \A i : IsNeeded(d, i) <=> IsNeeded(c, i)
  <2>1. \A p \in Queries : p # q => (HasRemote(d, p) <=> HasRemote(c, p))
    BY <1>4 DEF HasRemote
  <2>2. ~HasRemote(d, q)
    BY <1>4 DEF HasRemote
  <2>3. \A i : IsNeeded(d, i) => IsNeeded(c, i)
    BY <1>4, <2>1, <2>2 DEF IsNeeded
  <2>4. \A i : i # id /\ IsNeeded(c, i) => IsNeeded(d, i)
    BY <1>4, <2>1 DEF IsNeeded, id
  <2>5. HasRemote(c, o)
    <3>1. PICK m \in c.listeners[o] : m \in ls
      BY <1>0, <1>2 DEF Before, Tidy
    <3> QED
      BY <1>3, <3>1 DEF AllRemote, HasRemote, IsRemote
  <2>6. IsNeeded(d, id)
    BY <1>1, <1>2, <1>4, <2>1, <2>5 DEF IsNeeded
  <2> QED
    BY <2>3, <2>4, <2>6
<1>7. \A p \in Queries : d.view[p] # None => d.cache[TargetOf[p]] = d.view[p]
  BY <1>4 DEF Before, Tidy
<1>8. \A p \in Queries : d.listeners[p] # {} <=> d.view[p] # None
  BY <1>4 DEF Before, Tidy
<1>9. \A p \in Queries : \A m \in d.listeners[p] : QueryOf[m] = p /\ m \in ls
  BY <1>4 DEF Before, Tidy
<1>10. \A i \in DOMAIN d.queries : \A p \in d.queries[i] : d.view[p] = i
  <2> SUFFICES ASSUME NEW i \in DOMAIN d.queries, NEW p \in d.queries[i] PROVE d.view[p] = i
    OBVIOUS
  <2>1. p \in c.queries[i] /\ (i = id => p # q) /\ i \in DOMAIN c.queries
    BY <1>4
  <2>2. p \in Queries /\ c.view[p] = i
    BY <1>0, <2>1, QueryMapType DEF Before, Tidy
  <2>3. p # q
    BY <2>1, <2>2 DEF id
  <2> QED
    BY <1>4, <2>2, <2>3
<1>11. Complete(d)
  <2> SUFFICES ASSUME NEW p \in Queries, p # q, c.view[p] # None
               PROVE  p \in d.queries[c.view[p]]
    BY <1>4 DEF Complete
  <2>1. p \in c.queries[c.view[p]] /\ c.view[p] \in DOMAIN c.queries
    BY <1>3 DEF Before, Complete, Tidy, IsViewed
  <2> QED
    BY <1>4, <2>1
<1>12. ViewsKept(c, d)
  BY <1>4 DEF ViewsKept
<1>13. CacheOK(d.cache, d.nextId)
  BY <1>4 DEF Before, Tidy
<1> QED
  BY <1>4, <1>5, <1>6, <1>7, <1>8, <1>9, <1>10, <1>11, <1>12, <1>13
     DEF After, Before, Tidy

\* The tables agree without the target.
LEMMA LeftAloneKeeps ==
  ASSUME NEW c, NEW ls, Before(c, ls), NEW q \in Queries, NEW l \in c.listeners[q],
         c.listeners[q] = {l}, c.queries[c.view[q]] \subseteq {q},
         NEW d, LeftAlone(c, d, q)
  PROVE  After(c, d, ls)
<1> DEFINE id == c.view[q]
<1>0. /\ c \in ClientRecord /\ id # None /\ c.queries \in QueryMaps
      /\ c.view \in [Queries -> Nat] /\ c.nextId \in Nat \ {0}
      /\ c.listeners \in [Queries -> SUBSET Listeners]
  BY DEF Before, Tidy, ClientRecord
<1>1. \A p \in Queries : p # q => c.view[p] # id
  BY <1>0, OnlyViewer
<1>2. /\ d \in ClientRecord /\ d.view[q] = None /\ d.listeners[q] = {}
      /\ \A p \in Queries : p # q => d.view[p] = c.view[p] /\ d.listeners[p] = c.listeners[p]
      /\ DOMAIN d.queries = DOMAIN c.queries \ {id}
      /\ \A i \in DOMAIN d.queries : d.queries[i] = c.queries[i]
      /\ \A t \in Targets : d.cache[t] = c.cache[t] \/ (d.cache[t] = None /\ c.cache[t] = id)
      /\ d.nextId = c.nextId /\ d.active = c.active \ {id}
      /\ d.watched = c.watched \ {id} /\ d.failed = {}
  BY <1>0 DEF LeftAlone
<1>3. \A i : IsViewed(d.view, i) <=> i # id /\ IsViewed(c.view, i)
  BY <1>0, <1>1, <1>2 DEF IsViewed
<1>4. \A i : IsNeeded(d, i) <=> i # id /\ IsNeeded(c, i)
  <2>1. \A p \in Queries : p # q => (HasRemote(d, p) <=> HasRemote(c, p))
    BY <1>2 DEF HasRemote
  <2>2. ~HasRemote(d, q)
    BY <1>2 DEF HasRemote
  <2> QED
    BY <1>1, <1>2, <2>1, <2>2 DEF IsNeeded
<1>5. \A p \in Queries : d.view[p] # None => d.cache[TargetOf[p]] = d.view[p]
  <2> SUFFICES ASSUME NEW p \in Queries, p # q, c.view[p] # None
               PROVE  d.cache[TargetOf[p]] = c.view[p]
    BY <1>2
  <2>1. c.cache[TargetOf[p]] = c.view[p] /\ c.view[p] # id /\ TargetOf[p] \in Targets
    BY <1>1, MappingAssumption DEF Before, Tidy
  <2> QED
    BY <1>2, <2>1
<1>6. CacheOK(d.cache, d.nextId)
  BY <1>0, <1>2, FewerCached DEF Before, Tidy
<1>7. \A p \in Queries : d.listeners[p] # {} <=> d.view[p] # None
  BY <1>2 DEF Before, Tidy
<1>8. \A p \in Queries : \A m \in d.listeners[p] : QueryOf[m] = p /\ m \in ls
  BY <1>2 DEF Before, Tidy
<1>9. \A i \in DOMAIN d.queries : \A p \in d.queries[i] : d.view[p] = i
  <2> SUFFICES ASSUME NEW i \in DOMAIN d.queries, NEW p \in d.queries[i] PROVE d.view[p] = i
    OBVIOUS
  <2>1. i # id /\ i \in DOMAIN c.queries /\ p \in c.queries[i]
    BY <1>2
  <2>2. p \in Queries /\ c.view[p] = i
    BY <1>0, <2>1, QueryMapType DEF Before, Tidy
  <2> QED
    BY <1>2, <2>1, <2>2
<1>10. ASSUME AllRemote(ls) PROVE Complete(d)
  <2> SUFFICES ASSUME NEW p \in Queries, p # q, c.view[p] # None
               PROVE  p \in d.queries[c.view[p]]
    BY <1>2 DEF Complete
  <2>1. /\ p \in c.queries[c.view[p]] /\ c.view[p] \in DOMAIN c.queries
        /\ c.view[p] # id
    BY <1>1, <1>10 DEF Before, Complete, Tidy, IsViewed
  <2> QED
    BY <1>2, <2>1
<1>11. ViewsKept(c, d)
  BY <1>2 DEF ViewsKept
<1>12. /\ \A i : i \in d.active <=> IsViewed(d.view, i)
       /\ \A i : i \in DOMAIN d.queries <=> IsViewed(d.view, i)
       /\ \A i : i \in d.watched <=> IsNeeded(d, i)
  BY <1>2, <1>3, <1>4 DEF Before, Tidy
<1> QED
  BY <1>2, <1>5, <1>6, <1>7, <1>8, <1>9, <1>10, <1>11, <1>12 DEF After, Tidy

\* d is c after the last remote listener l of q, which keeps listeners of the cache.
Downgraded(c, d, q, l) ==
  /\ d \in ClientRecord
  /\ d.listeners = [c.listeners EXCEPT ![q] = @ \ {l}]
  /\ d.view = c.view
  /\ DOMAIN d.queries = DOMAIN c.queries
  /\ d.queries[c.view[q]] = {}
  /\ \A i \in DOMAIN c.queries : i # c.view[q] => d.queries[i] = c.queries[i]
  /\ d.cache = c.cache /\ d.nextId = c.nextId /\ d.active = c.active
  /\ d.watched = c.watched \ {c.view[q]} /\ d.failed = {}

\* The watch ends, and the query leaves the vector of its target empty.
LEMMA DowngradeDoes ==
  ASSUME NEW c, NEW ls, Before(c, ls), ~AllRemote(ls), NEW q \in Queries,
         NEW l \in c.listeners[q], IsRemote(l), c.listeners[q] # {l},
         \A m \in c.listeners[q] \ {l} : ~IsRemote(m)
  PROVE  Downgraded(c, RemoveQueryListener(c, l), q, l)
<1> DEFINE r == [c EXCEPT !.listeners[q] = @ \ {l}]
           id == c.view[q]
           rest == c.queries[id] \ {q}
           w == [r EXCEPT !.view[q] = r.view[q]]
           v == SetQueries(w, id, rest)
           u == Unwatch(v, id)
           d == RemoveQueryListener(c, l)
<1>0. /\ c \in ClientRecord /\ c.failed = {} /\ id # None /\ QueryOf[l] = q /\ l \in ls
      /\ id \in DOMAIN c.queries /\ id \in Nat /\ id \in c.watched
      /\ c.queries \in QueryMaps /\ c.view \in [Queries -> Nat]
      /\ c.listeners \in [Queries -> SUBSET Listeners]
  BY DEF Before, Tidy, IsViewed, ClientRecord, IsNeeded, HasRemote
<1>1. rest = {}
  <2> SUFFICES ASSUME NEW p \in c.queries[id], p # q PROVE FALSE
    OBVIOUS
  <2>1. p \in Queries /\ c.view[p] = id
    BY <1>0, QueryMapType DEF Before, Tidy
  <2>2. c.cache[TargetOf[q]] = c.view[p] /\ c.view[p] # None
    BY <1>0, <2>1 DEF Before, Tidy
  <2> QED
    BY <1>0, <2>1, <2>2, SameTarget
<1>2. /\ r \in ClientRecord /\ r.listeners = [c.listeners EXCEPT ![q] = @ \ {l}]
      /\ r.listeners[q] = c.listeners[q] \ {l}
      /\ r.view = c.view /\ r.queries = c.queries /\ r.cache = c.cache
      /\ r.nextId = c.nextId /\ r.active = c.active /\ r.watched = c.watched
      /\ r.failed = {}
  BY <1>0 DEF ClientRecord
<1>3. r.listeners[q] # {} /\ ~HasRemote(r, q)
  BY <1>0, <1>2 DEF HasRemote
<1>4. d = StopListeningAndReleaseTarget(r, q, FALSE, TRUE)
  BY <1>0, <1>3 DEF RemoveQueryListener
<1> HIDE DEF r
<1>5. /\ w \in ClientRecord /\ w.view = c.view
      /\ w.listeners = r.listeners /\ w.queries = c.queries /\ w.cache = c.cache
      /\ w.nextId = c.nextId /\ w.active = c.active /\ w.watched = c.watched
      /\ w.failed = {}
  BY <1>0, <1>2 DEF ClientRecord
<1>6. StopListeningAndReleaseTarget(r, q, FALSE, TRUE) = IF rest # {} THEN v ELSE u
  BY <1>0, <1>2 DEF StopListeningAndReleaseTarget, Has
<1> HIDE DEF id, rest, w, d
<1>7. QueriesSet(w, v, id, {})
  BY <1>0, <1>1, <1>5, SetQueriesDoes
<1> HIDE DEF v
<1>8. d = u
  BY <1>1, <1>4, <1>6
<1>9. v \in ClientRecord /\ v.watched = c.watched /\ v.failed = {}
  BY <1>5, <1>7 DEF QueriesSet
<1>10. u = [v EXCEPT !.watched = @ \ {id}]
  BY <1>0, <1>9 DEF Unwatch
<1> HIDE DEF u
<1>11. /\ u \in ClientRecord /\ u.watched = c.watched \ {id}
       /\ u.listeners = v.listeners /\ u.view = v.view /\ u.queries = v.queries
       /\ u.cache = v.cache /\ u.nextId = v.nextId /\ u.active = v.active
       /\ u.failed = {}
  BY <1>9, <1>10 DEF ClientRecord
<1>12. DOMAIN v.queries = DOMAIN c.queries
  BY <1>0, <1>5, <1>7 DEF QueriesSet
<1>13. Downgraded(c, d, q, l)
  BY <1>2, <1>5, <1>7, <1>8, <1>11, <1>12 DEF Downgraded, QueriesSet, id
<1> QED
  BY <1>13 DEF d

\* The tables agree on the query that only has listeners of the cache left.
LEMMA DowngradedKeeps ==
  ASSUME NEW c, NEW ls, Before(c, ls), ~AllRemote(ls), NEW q \in Queries,
         NEW l \in c.listeners[q], c.listeners[q] # {l},
         \A m \in c.listeners[q] \ {l} : ~IsRemote(m),
         NEW d, Downgraded(c, d, q, l)
  PROVE  After(c, d, ls)
<1> DEFINE id == c.view[q]
<1>0. /\ c \in ClientRecord /\ id # None /\ QueryOf[l] = q /\ l \in ls
      /\ id \in DOMAIN c.queries /\ c.cache[TargetOf[q]] = id
      /\ c.listeners \in [Queries -> SUBSET Listeners]
  BY DEF Before, Tidy, IsViewed, ClientRecord
<1>1. \A p \in Queries : p # q => c.view[p] # id
  BY <1>0, SameTarget
<1>2. /\ d \in ClientRecord /\ d.view = c.view
      /\ d.listeners[q] = c.listeners[q] \ {l}
      /\ \A p \in Queries : p # q => d.listeners[p] = c.listeners[p]
      /\ DOMAIN d.queries = DOMAIN c.queries /\ d.queries[id] = {}
      /\ \A i \in DOMAIN c.queries : i # id => d.queries[i] = c.queries[i]
      /\ d.cache = c.cache /\ d.nextId = c.nextId /\ d.active = c.active
      /\ d.watched = c.watched \ {id} /\ d.failed = {}
  BY <1>0 DEF Downgraded
<1>3. \A i : IsNeeded(d, i) <=> i # id /\ IsNeeded(c, i)
  <2>1. \A p \in Queries : p # q => (HasRemote(d, p) <=> HasRemote(c, p))
    BY <1>2 DEF HasRemote
  <2>2. ~HasRemote(d, q)
    BY <1>2 DEF HasRemote
  <2> QED
    BY <1>1, <1>2, <2>1, <2>2 DEF IsNeeded
<1>4. \A p \in Queries : d.listeners[p] # {} <=> d.view[p] # None
  BY <1>0, <1>2 DEF Before, Tidy
<1>5. \A p \in Queries : \A m \in d.listeners[p] : QueryOf[m] = p /\ m \in ls
  BY <1>2 DEF Before, Tidy
<1>6. \A i \in DOMAIN d.queries : \A p \in d.queries[i] : d.view[p] = i
  BY <1>2 DEF Before, Tidy
<1>7. /\ \A i : i \in d.active <=> IsViewed(d.view, i)
      /\ \A i : i \in DOMAIN d.queries <=> IsViewed(d.view, i)
      /\ \A i : i \in d.watched <=> IsNeeded(d, i)
      /\ \A p \in Queries : d.view[p] # None => d.cache[TargetOf[p]] = d.view[p]
      /\ CacheOK(d.cache, d.nextId)
  BY <1>2, <1>3 DEF Before, Tidy
<1>8. ViewsKept(c, d)
  BY <1>2 DEF ViewsKept
<1> QED
  BY <1>2, <1>4, <1>5, <1>6, <1>7, <1>8 DEF After, Tidy

\* A listener leaves a query that keeps its watch as it was.
LEMMA ListenerLeaves ==
  ASSUME NEW c, NEW ls, Before(c, ls), NEW q \in Queries, NEW l \in c.listeners[q],
         c.listeners[q] # {l},
         IsRemote(l) => \E m \in c.listeners[q] \ {l} : IsRemote(m)
  PROVE  /\ RemoveQueryListener(c, l) = [c EXCEPT !.listeners[q] = @ \ {l}]
         /\ After(c, RemoveQueryListener(c, l), ls)
<1> DEFINE d == [c EXCEPT !.listeners[q] = @ \ {l}]
<1>0. /\ c \in ClientRecord /\ QueryOf[l] = q /\ l \in ls
      /\ c.listeners \in [Queries -> SUBSET Listeners]
  BY DEF Before, Tidy, ClientRecord
<1>1. /\ d \in ClientRecord /\ d.view = c.view
      /\ d.listeners[q] = c.listeners[q] \ {l}
      /\ \A p \in Queries : p # q => d.listeners[p] = c.listeners[p]
      /\ d.queries = c.queries
      /\ d.cache = c.cache /\ d.nextId = c.nextId /\ d.active = c.active
      /\ d.watched = c.watched /\ d.failed = c.failed
  BY <1>0 DEF ClientRecord
<1>2. RemoveQueryListener(c, l) = d
  BY <1>0, <1>1 DEF RemoveQueryListener, HasRemote
<1> HIDE DEF d
<1>3. \A p \in Queries : HasRemote(d, p) <=> HasRemote(c, p)
  BY <1>1 DEF HasRemote
<1>4. \A i : IsNeeded(d, i) <=> IsNeeded(c, i)
  BY <1>1, <1>3 DEF IsNeeded
<1>5. \A p \in Queries : d.listeners[p] # {} <=> d.view[p] # None
  BY <1>1 DEF Before, Tidy
<1>6. \A p \in Queries : \A m \in d.listeners[p] : QueryOf[m] = p /\ m \in ls
  BY <1>1 DEF Before, Tidy
<1>7. /\ \A i : i \in d.active <=> IsViewed(d.view, i)
      /\ \A i : i \in DOMAIN d.queries <=> IsViewed(d.view, i)
      /\ \A i : i \in d.watched <=> IsNeeded(d, i)
      /\ \A p \in Queries : d.view[p] # None => d.cache[TargetOf[p]] = d.view[p]
      /\ \A i \in DOMAIN d.queries : \A p \in d.queries[i] : d.view[p] = i
      /\ CacheOK(d.cache, d.nextId)
  BY <1>1, <1>4 DEF Before, Tidy
<1>8. ViewsKept(c, d)
  BY <1>1 DEF ViewsKept
<1>9. AllRemote(ls) => Complete(d)
  BY <1>1 DEF Before, Complete
<1>10. After(c, d, ls)
  BY <1>1, <1>5, <1>6, <1>7, <1>8, <1>9 DEF After, Before, Tidy
<1> QED
  BY <1>2, <1>10 DEF d

\* Removal keeps the tables in agreement. While all listeners are remote it may be
\* that of a listener that is not registered any more.
LEMMA RemoveKeeps ==
  ASSUME NEW c, NEW ls, Before(c, ls), NEW l \in ls,
         AllRemote(ls) \/ l \in c.listeners[QueryOf[l]]
  PROVE  /\ After(c, RemoveQueryListener(c, l), ls)
         /\ \A p \in Queries :
              c.listeners[p] \ {l} \subseteq RemoveQueryListener(c, l).listeners[p]
<1> DEFINE q == QueryOf[l]
           d == RemoveQueryListener(c, l)
<1>0. /\ l \in Listeners /\ q \in Queries /\ c \in ClientRecord
      /\ c.listeners \in [Queries -> SUBSET Listeners]
  BY MappingAssumption DEF Before, Tidy, ClientRecord
<1>1. CASE l \notin c.listeners[q]
  <2> DEFINE r == [c EXCEPT !.listeners[q] = @ \ {l}]
  <2>1. AllRemote(ls)
    BY <1>1
  <2>2. c.listeners[q] # {} => HasRemote(c, q)
    <3> SUFFICES ASSUME NEW m \in c.listeners[q] PROVE IsRemote(m)
      BY DEF HasRemote
    <3>1. m \in ls
      BY <1>0 DEF Before, Tidy
    <3> QED
      BY <2>1, <3>1 DEF AllRemote, IsRemote
  <2>3. c.listeners[q] \ {l} = c.listeners[q]
    BY <1>1
  <2>4. /\ r.listeners = c.listeners /\ r.view = c.view /\ r.queries = c.queries
        /\ r.cache = c.cache /\ r.nextId = c.nextId /\ r.active = c.active
        /\ r.watched = c.watched /\ r.errors = c.errors /\ r.failed = c.failed
        /\ r \in ClientRecord
    BY <1>0, <2>3 DEF ClientRecord
  <2>5. d = IF c.listeners[q] = {} THEN c
            ELSE IF r.listeners[q] = {}
            THEN StopListeningAndReleaseTarget(r, q, TRUE, IsRemote(l))
            ELSE IF ~HasRemote(r, q) /\ IsRemote(l)
            THEN StopListeningAndReleaseTarget(r, q, FALSE, TRUE)
            ELSE r
    BY DEF RemoveQueryListener
  <2> HIDE DEF r, d
  <2>6. r = c
    BY <1>0, <2>4 DEF ClientRecord
  <2>7. d = c
    BY <2>2, <2>5, <2>6
  <2>8. After(c, c, ls)
    BY DEF After, Before, ViewsKept
  <2> QED
    BY <2>7, <2>8 DEF d
<1>2. CASE l \in c.listeners[q] /\ c.listeners[q] = {l}
  <2>1. \/ LeftShared(c, d, q) /\ c.queries[c.view[q]] \ {q} # {}
        \/ LeftAlone(c, d, q) /\ c.queries[c.view[q]] \subseteq {q}
    BY <1>0, <1>2, LastLeaves
  <2> HIDE DEF d, q
  <2>2. After(c, d, ls)
    BY <1>0, <1>2, <2>1, LeftSharedKeeps, LeftAloneKeeps
  <2>3. d.listeners = [c.listeners EXCEPT ![q] = {}]
    BY <2>1 DEF LeftShared, LeftAlone
  <2>4. \A p \in Queries : c.listeners[p] \ {l} \subseteq d.listeners[p]
    BY <1>0, <1>2, <2>3
  <2> QED
    BY <2>2, <2>4 DEF d
<1>3. CASE /\ l \in c.listeners[q] /\ c.listeners[q] # {l} /\ IsRemote(l)
           /\ \A m \in c.listeners[q] \ {l} : ~IsRemote(m)
  <2>1. ~AllRemote(ls)
    <3>1. PICK m \in c.listeners[q] : m # l
      BY <1>3
    <3>2. m \in ls /\ ~IsRemote(m)
      BY <1>0, <1>3, <3>1 DEF Before, Tidy
    <3> QED
      BY <3>2 DEF AllRemote, IsRemote
  <2>2. Downgraded(c, d, q, l)
    BY <1>0, <1>3, <2>1, DowngradeDoes
  <2> HIDE DEF d, q
  <2>3. After(c, d, ls)
    BY <1>0, <1>3, <2>1, <2>2, DowngradedKeeps
  <2>4. \A p \in Queries : c.listeners[p] \ {l} \subseteq d.listeners[p]
    BY <1>0, <2>2 DEF Downgraded
  <2> QED
    BY <2>3, <2>4 DEF d
<1>4. CASE /\ l \in c.listeners[q] /\ c.listeners[q] # {l}
           /\ IsRemote(l) => \E m \in c.listeners[q] \ {l} : IsRemote(m)
  <2>1. d = [c EXCEPT !.listeners[q] = @ \ {l}] /\ After(c, d, ls)
    BY <1>0, <1>4, ListenerLeaves
  <2> HIDE DEF d, q
  <2>2. \A p \in Queries : c.listeners[p] \ {l} \subseteq d.listeners[p]
    BY <1>0, <2>1 DEF ClientRecord
  <2> QED
    BY <2>1, <2>2 DEF d
<1> QED
  BY <1>1, <1>2, <1>3, <1>4

-----------------------------------------------------------------------------
(* The rejection of a target, and the garbage collector *)

\* d is c after the backend rejected the target id.
Rejected(c, d, id) ==
  /\ d \in ClientRecord
  /\ DOMAIN d.queries = DOMAIN c.queries \ {id}
  /\ \A i \in DOMAIN d.queries : d.queries[i] = c.queries[i]
  /\ \A q \in Queries :
       IF q \in c.queries[id]
       THEN d.view[q] = None /\ d.listeners[q] = {} /\ c.listeners[q] \subseteq d.errors
       ELSE d.view[q] = c.view[q] /\ d.listeners[q] = c.listeners[q]
  /\ \A t \in Targets : d.cache[t] = c.cache[t] \/ (d.cache[t] = None /\ c.cache[t] = id)
  /\ d.nextId = c.nextId /\ d.active = c.active \ {id}
  /\ d.watched = c.watched \ {id} /\ d.failed = {}

\* What is watched is the target of a view.
LEMMA WatchedIsViewed ==
  ASSUME NEW c, NEW ls, Before(c, ls), NEW id \in c.watched PROVE IsViewed(c.view, id)
<1>1. PICK q \in Queries : c.view[q] = id /\ HasRemote(c, q)
  BY DEF Before, Tidy, IsNeeded
<1>2. c.view[q] # None
  BY <1>1 DEF Before, Tidy, HasRemote
<1> QED
  BY <1>1, <1>2 DEF IsViewed

\* SyncEngine::HandleRejectedListen finds the target in its tables.
LEMMA RejectDoes ==
  ASSUME NEW c, NEW ls, Before(c, ls), NEW id \in c.watched
  PROVE  Rejected(c, HandleRejectedListen([c EXCEPT !.watched = @ \ {id}], id), id)
<1> DEFINE e == [c EXCEPT !.watched = @ \ {id}]
           r == ReleaseTarget(e, id)
           y == RemoveAndCleanupTarget(r, id, TRUE)
           d == HandleRejectedListen(e, id)
<1>0. /\ c \in ClientRecord /\ c.failed = {} /\ id \in c.active
      /\ id \in DOMAIN c.queries /\ c.queries \in QueryMaps
  BY WatchedIsViewed DEF Before, Tidy, ClientRecord
<1>1. /\ e \in ClientRecord /\ e.listeners = c.listeners /\ e.view = c.view
      /\ e.queries = c.queries /\ e.cache = c.cache /\ e.nextId = c.nextId
      /\ e.active = c.active /\ e.watched = c.watched \ {id} /\ e.failed = {}
  BY <1>0 DEF ClientRecord
<1>2. d = IF r.failed # {} THEN r ELSE y
  BY DEF HandleRejectedListen
<1> HIDE DEF e, d
<1>3. Released(e, r, id)
  BY <1>0, <1>1, ReleaseDoes
<1> HIDE DEF r
<1>4. r \in ClientRecord /\ r.queries = c.queries /\ r.failed = {}
  BY <1>1, <1>3 DEF Released
<1>5. Cleaned(r, y, id, TRUE)
  BY <1>0, <1>4, CleanupDoes
<1> HIDE DEF y
<1>6. d = y
  BY <1>2, <1>4
<1>7. c.queries[id] \subseteq Queries
  BY <1>0, QueryMapType
<1>8. ASSUME NEW q \in Queries, q \in c.queries[id]
      PROVE  y.view[q] = None /\ y.listeners[q] = {} /\ c.listeners[q] \subseteq y.errors
  <2>1. r.listeners = c.listeners
    BY <1>1, <1>3 DEF Released
  <2> QED
    BY <1>4, <1>5, <1>8, <2>1 DEF Cleaned
<1>9. ASSUME NEW q \in Queries, q \notin c.queries[id]
      PROVE  y.view[q] = c.view[q] /\ y.listeners[q] = c.listeners[q]
  <2>1. r.listeners = c.listeners /\ r.view = c.view
    BY <1>1, <1>3 DEF Released
  <2>2. y.view[q] = c.view[q]
    BY <1>4, <1>5, <1>9, <2>1 DEF Cleaned
  <2>3. ASSUME NEW l \in c.listeners[q], NEW p \in c.queries[id] PROVE l \notin c.listeners[p]
    BY <1>7, <1>9 DEF Before, Tidy
  <2>4. \A l : l \in y.listeners[q] <=> l \in c.listeners[q]
    BY <1>4, <1>5, <2>1, <2>3 DEF Cleaned
  <2> QED
    BY <2>2, <2>4
<1>10. /\ y \in ClientRecord
       /\ DOMAIN y.queries = DOMAIN c.queries \ {id}
       /\ \A i \in DOMAIN y.queries : y.queries[i] = c.queries[i]
       /\ \A t \in Targets :
            y.cache[t] = c.cache[t] \/ (y.cache[t] = None /\ c.cache[t] = id)
       /\ y.nextId = c.nextId /\ y.active = c.active \ {id}
       /\ y.watched = c.watched \ {id} /\ y.failed = {}
  BY <1>1, <1>3, <1>4, <1>5 DEF Cleaned, Released
<1>11. Rejected(c, y, id)
  BY <1>8, <1>9, <1>10 DEF Rejected
<1> QED
  BY <1>6, <1>11 DEF d, e

\* Every view of the target goes with it, and its listeners are told.
LEMMA RejectKeeps ==
  ASSUME NEW c, NEW ls, Before(c, ls), AllRemote(ls), NEW id \in c.watched,
         NEW d, Rejected(c, d, id)
  PROVE  /\ After(c, d, ls)
         /\ \A q \in Queries : c.view[q] = id => c.listeners[q] \subseteq d.errors
<1>0. /\ c \in ClientRecord /\ c.queries \in QueryMaps /\ id # None
      /\ id \in DOMAIN c.queries /\ c.nextId \in Nat \ {0}
  BY WatchedIsViewed DEF Before, Tidy, IsViewed, ClientRecord
<1>1. \A q \in Queries : q \in c.queries[id] <=> c.view[q] = id
  BY <1>0 DEF Before, Tidy, Complete
<1>2. /\ d \in ClientRecord
      /\ DOMAIN d.queries = DOMAIN c.queries \ {id}
      /\ \A i \in DOMAIN d.queries : d.queries[i] = c.queries[i]
      /\ \A q \in Queries : c.view[q] = id =>
           d.view[q] = None /\ d.listeners[q] = {} /\ c.listeners[q] \subseteq d.errors
      /\ \A q \in Queries : c.view[q] # id =>
           d.view[q] = c.view[q] /\ d.listeners[q] = c.listeners[q]
      /\ \A t \in Targets : d.cache[t] = c.cache[t] \/ (d.cache[t] = None /\ c.cache[t] = id)
      /\ d.nextId = c.nextId /\ d.active = c.active \ {id}
      /\ d.watched = c.watched \ {id} /\ d.failed = {}
  BY <1>1 DEF Rejected
<1>3. \A i : IsViewed(d.view, i) <=> i # id /\ IsViewed(c.view, i)
  BY <1>2 DEF IsViewed
<1>4. \A i : IsNeeded(d, i) <=> i # id /\ IsNeeded(c, i)
  <2>1. \A p \in Queries : c.view[p] # id => (HasRemote(d, p) <=> HasRemote(c, p))
    BY <1>2 DEF HasRemote
  <2>2. \A p \in Queries : c.view[p] = id => ~HasRemote(d, p)
    BY <1>2 DEF HasRemote
  <2> QED
    BY <1>2, <2>1, <2>2 DEF IsNeeded
<1>5. \A p \in Queries : d.view[p] # None => d.cache[TargetOf[p]] = d.view[p]
  <2> SUFFICES ASSUME NEW p \in Queries, c.view[p] # id, c.view[p] # None
               PROVE  d.cache[TargetOf[p]] = c.view[p]
    BY <1>2
  <2>1. c.cache[TargetOf[p]] = c.view[p] /\ TargetOf[p] \in Targets
    BY MappingAssumption DEF Before, Tidy
  <2> QED
    BY <1>2, <2>1
<1>6. CacheOK(d.cache, d.nextId)
  BY <1>0, <1>2, FewerCached DEF Before, Tidy
<1>7. \A p \in Queries : d.listeners[p] # {} <=> d.view[p] # None
  BY <1>2 DEF Before, Tidy
<1>8. \A p \in Queries : \A m \in d.listeners[p] : QueryOf[m] = p /\ m \in ls
  BY <1>2 DEF Before, Tidy
<1>9. \A i \in DOMAIN d.queries : \A p \in d.queries[i] : d.view[p] = i
  <2> SUFFICES ASSUME NEW i \in DOMAIN d.queries, NEW p \in d.queries[i] PROVE d.view[p] = i
    OBVIOUS
  <2>1. i # id /\ i \in DOMAIN c.queries /\ p \in c.queries[i]
    BY <1>2
  <2>2. p \in Queries /\ c.view[p] = i
    BY <1>0, <2>1, QueryMapType DEF Before, Tidy
  <2> QED
    BY <1>2, <2>1, <2>2
<1>10. Complete(d)
  <2> SUFFICES ASSUME NEW p \in Queries, c.view[p] # id, c.view[p] # None
               PROVE  p \in d.queries[c.view[p]]
    BY <1>2 DEF Complete
  <2>1. p \in c.queries[c.view[p]] /\ c.view[p] \in DOMAIN c.queries
    BY DEF Before, Complete, Tidy, IsViewed
  <2> QED
    BY <1>2, <2>1
<1>11. ViewsKept(c, d)
  BY <1>2 DEF ViewsKept
<1>12. /\ \A i : i \in d.active <=> IsViewed(d.view, i)
       /\ \A i : i \in DOMAIN d.queries <=> IsViewed(d.view, i)
       /\ \A i : i \in d.watched <=> IsNeeded(d, i)
  BY <1>2, <1>3, <1>4 DEF Before, Tidy
<1> QED
  BY <1>2, <1>5, <1>6, <1>7, <1>8, <1>9, <1>10, <1>11, <1>12 DEF After, Tidy

\* The collector takes no target that has a view.
LEMMA CollectKeeps ==
  ASSUME NEW c, NEW ls, Before(c, ls), NEW t \in Targets, c.cache[t] \notin c.active
  PROVE  /\ After(c, [c EXCEPT !.cache[t] = None], ls)
         /\ [c EXCEPT !.cache[t] = None].listeners = c.listeners
<1> DEFINE d == [c EXCEPT !.cache[t] = None]
<1>0. c \in ClientRecord /\ c.cache \in [Targets -> Nat] /\ c.nextId \in Nat \ {0}
  BY DEF Before, Tidy, ClientRecord
<1>1. /\ d \in ClientRecord /\ d.listeners = c.listeners /\ d.view = c.view
      /\ d.queries = c.queries /\ d.nextId = c.nextId /\ d.active = c.active
      /\ d.watched = c.watched /\ d.failed = c.failed
      /\ d.cache[t] = None /\ \A u \in Targets : u # t => d.cache[u] = c.cache[u]
  BY <1>0 DEF ClientRecord, None
<1> HIDE DEF d
<1>2. \A p \in Queries : d.view[p] # None => d.cache[TargetOf[p]] = d.view[p]
  <2> SUFFICES ASSUME NEW p \in Queries, c.view[p] # None
               PROVE  d.cache[TargetOf[p]] = c.view[p]
    BY <1>1
  <2>1. c.cache[TargetOf[p]] = c.view[p] /\ c.view[p] \in c.active /\ TargetOf[p] \in Targets
    BY MappingAssumption DEF Before, Tidy, IsViewed
  <2> QED
    BY <1>1, <2>1
<1>3. CacheOK(d.cache, d.nextId)
  BY <1>0, <1>1, FewerCached DEF Before, Tidy
<1>4. \A i : IsNeeded(d, i) <=> IsNeeded(c, i)
  BY <1>1 DEF IsNeeded, HasRemote
<1>5. /\ \A p \in Queries : d.listeners[p] # {} <=> d.view[p] # None
      /\ \A p \in Queries : \A m \in d.listeners[p] : QueryOf[m] = p /\ m \in ls
      /\ \A i : i \in d.active <=> IsViewed(d.view, i)
      /\ \A i : i \in DOMAIN d.queries <=> IsViewed(d.view, i)
      /\ \A i \in DOMAIN d.queries : \A p \in d.queries[i] : d.view[p] = i
      /\ \A i : i \in d.watched <=> IsNeeded(d, i)
      /\ d.failed = {}
  BY <1>1, <1>4 DEF Before, Tidy
<1>6. (AllRemote(ls) => Complete(d)) /\ ViewsKept(c, d)
  BY <1>1 DEF Before, Complete, ViewsKept
<1>7. After(c, d, ls)
  BY <1>1, <1>2, <1>3, <1>5, <1>6 DEF After, Tidy
<1> QED
  BY <1>1, <1>7 DEF d

-----------------------------------------------------------------------------
(* The calls of the user *)

\* What a call is.
LEMMA CallType ==
  ASSUME NEW ls, NEW cs \in Seq(CallsOf(ls)), NEW i \in 1..Len(cs)
  PROVE  cs[i].op \in {"add", "remove"} /\ cs[i].listener \in ls
<1>1. cs[i] \in CallsOf(ls)
  OBVIOUS
<1> QED
  BY <1>1 DEF CallsOf

\* A call to add a listener waits behind those that are queued.
LEMMA AddIsQueued ==
  ASSUME NEW ls, NEW cs \in Seq(CallsOf(ls)), NEW c, NEW gone, CallsOK(cs, c, gone),
         NEW l
  PROVE  CallsOK(Append(cs, [op |-> "add", listener |-> l]), c, gone)
BY DEF CallsOK, CallsOf

\* A registration is removed once, and the listener is still there or will be.
LEMMA RemovalIsQueued ==
  ASSUME NEW ls, NEW cs \in Seq(CallsOf(ls)), NEW c, NEW gone, CallsOK(cs, c, gone),
         NEW l, l \notin gone,
         \/ l \in c.listeners[QueryOf[l]]
         \/ \E i \in 1..Len(cs) : cs[i].listener = l
  PROVE  CallsOK(Append(cs, [op |-> "remove", listener |-> l]), c, gone \cup {l})
<1> DEFINE n == Len(cs) + 1
           ds == Append(cs, [op |-> "remove", listener |-> l])
<1>1. Len(cs) \in Nat /\ Len(ds) = n /\ ds[n] = [op |-> "remove", listener |-> l]
  OBVIOUS
<1>2. \A i \in 1..Len(cs) : ds[i] = cs[i]
  OBVIOUS
<1>3. \A i \in 1..Len(cs) : cs[i].op \in {"add", "remove"}
  BY CallType
<1>4. \A i \in 1..Len(cs) : cs[i].op = "remove" => cs[i].listener # l
  BY DEF CallsOK
<1> HIDE DEF ds
<1>5. \/ l \in c.listeners[QueryOf[l]]
      \/ \E j \in 1..(n - 1) : ds[j].op = "add" /\ ds[j].listener = l
  BY <1>1, <1>2, <1>3, <1>4
<1>6. ASSUME NEW i \in 1..Len(ds), ds[i].op = "remove"
      PROVE  /\ \/ ds[i].listener \in c.listeners[QueryOf[ds[i].listener]]
                \/ \E j \in 1..(i - 1) : ds[j].op = "add" /\ ds[j].listener = ds[i].listener
             /\ ds[i].listener \in gone \cup {l}
             /\ \A j \in 1..(i - 1) : ds[j].op = "remove" => ds[j].listener # ds[i].listener
  <2>1. CASE i = n
    BY <1>1, <1>2, <1>4, <1>5, <2>1
  <2>2. CASE i # n
    <3>1. i \in 1..Len(cs) /\ ds[i] = cs[i] /\ \A j \in 1..(i - 1) : ds[j] = cs[j]
      BY <1>1, <1>2, <2>2
    <3> QED
      BY <1>6, <3>1 DEF CallsOK
  <2> QED
    BY <2>1, <2>2
<1> QED
  BY <1>6 DEF CallsOK, ds

\* The listeners of a registration that is removed need not be there any more.
LEMMA MoreRemoved ==
  ASSUME NEW cs, NEW c, NEW gone, CallsOK(cs, c, gone), NEW more, gone \subseteq more
  PROVE  CallsOK(cs, c, more)
BY DEF CallsOK

\* The first call has run: a listener is there, or is gone with its only removal.
LEMMA CallHasRun ==
  ASSUME NEW ls, ls \subseteq Listeners, NEW cs \in Seq(CallsOf(ls)), cs # <<>>,
         NEW c, NEW d, NEW gone, CallsOK(cs, c, gone),
         \/ /\ cs[1].op = "add"
            /\ cs[1].listener \in d.listeners[QueryOf[cs[1].listener]]
            /\ \A p \in Queries : c.listeners[p] \subseteq d.listeners[p]
         \/ /\ cs[1].op = "remove"
            /\ \A p \in Queries : c.listeners[p] \ {cs[1].listener} \subseteq d.listeners[p]
  PROVE  CallsOK(Tail(cs), d, gone)
<1> DEFINE ds == Tail(cs)
<1>1. Len(cs) \in Nat \ {0} /\ Len(ds) = Len(cs) - 1
  OBVIOUS
<1>2. \A i \in 1..Len(ds) : ds[i] = cs[i + 1] /\ i + 1 \in 1..Len(cs)
  OBVIOUS
<1>3. \A i \in 1..Len(cs) : cs[i].op \in {"add", "remove"} /\ QueryOf[cs[i].listener] \in Queries
  BY CallType, MappingAssumption
<1> HIDE DEF ds
<1>4. ASSUME NEW i \in 1..Len(ds), ds[i].op = "remove"
      PROVE  /\ \/ ds[i].listener \in d.listeners[QueryOf[ds[i].listener]]
                \/ \E j \in 1..(i - 1) : ds[j].op = "add" /\ ds[j].listener = ds[i].listener
             /\ ds[i].listener \in gone
             /\ \A j \in 1..(i - 1) : ds[j].op = "remove" => ds[j].listener # ds[i].listener
  <2> DEFINE k == i + 1
             l == ds[i].listener
  <2>1. /\ k \in 1..Len(cs) /\ cs[k].op = "remove" /\ cs[k].listener = l
        /\ \A j \in 1..(i - 1) : ds[j] = cs[j + 1] /\ j + 1 \in 1..(k - 1)
        /\ \A m \in 2..(k - 1) : m - 1 \in 1..(i - 1) /\ ds[m - 1] = cs[m]
        /\ 1 \in 1..(k - 1) /\ k \in Nat
    BY <1>1, <1>2, <1>4
  <2> HIDE DEF k, l
  <2>2. /\ \/ l \in c.listeners[QueryOf[l]]
           \/ \E j \in 1..(k - 1) : cs[j].op = "add" /\ cs[j].listener = l
        /\ l \in gone
        /\ \A j \in 1..(k - 1) : cs[j].op = "remove" => cs[j].listener # l
    BY <2>1 DEF CallsOK
  <2>3. QueryOf[l] \in Queries
    BY <1>3, <2>1
  <2>4. \A j \in 1..(i - 1) : ds[j].op = "remove" => ds[j].listener # l
    BY <2>1, <2>2
  <2>5. l \in c.listeners[QueryOf[l]] => l \in d.listeners[QueryOf[l]]
    BY <2>1, <2>2, <2>3
  <2>6. ASSUME NEW m \in 1..(k - 1), cs[m].op = "add", cs[m].listener = l
        PROVE  \/ l \in d.listeners[QueryOf[l]]
               \/ \E j \in 1..(i - 1) : ds[j].op = "add" /\ ds[j].listener = l
    <3>1. CASE m = 1
      BY <2>6, <3>1
    <3>2. CASE m # 1
      <4>1. m \in 2..(k - 1)
        BY <2>1, <3>2
      <4>2. m - 1 \in 1..(i - 1) /\ ds[m - 1] = cs[m]
        BY <2>1, <4>1
      <4> QED
        BY <2>6, <4>2
    <3> QED
      BY <3>1, <3>2
  <2> QED
    BY <2>2, <2>4, <2>5, <2>6 DEF l
<1> QED
  BY <1>4 DEF CallsOK, ds

-----------------------------------------------------------------------------
(* The theorems *)

\* In every state of the invariant the client is in order for its next operation.
LEMMA InOrder ==
  ASSUME IInv PROVE Before(client, setting.listeners)
BY DEF IInv, Before, Sound, SettingRecord

\* What an operation leaves is the invariant's part on the client.
LEMMA StaysInOrder ==
  ASSUME NEW c, NEW d, NEW ls, After(c, d, ls), NEW cs, NEW gone,
         ~AllRemote(ls) => CallsOK(cs, d, gone)
  PROVE  /\ Tidy(d, ls)
         /\ IF AllRemote(ls) THEN Complete(d) ELSE CallsOK(cs, d, gone)
BY DEF After

\* Nothing is registered, cached or watched at first.
LEMMA InitInOrder ==
  ASSUME Init, Sound(setting) PROVE IInv
<1> DEFINE f == [id \in {} |-> {}]
<1>1. setting \in SettingRecord
  BY SettingsAssumption DEF Init, SettingRecord
<1>2. f \in [{} -> SUBSET Queries] /\ {} \in SUBSET Nat /\ DOMAIN f = {}
  OBVIOUS
<1>3. f \in QueryMaps
  BY <1>2, IsQueryMap
<1>4. /\ client.listeners = [q \in Queries |-> {}] /\ client.view = [q \in Queries |-> None]
      /\ client.queries = f /\ client.cache = [t \in Targets |-> None] /\ client.nextId = 1
      /\ client.active = {} /\ client.watched = {} /\ client.errors = {} /\ client.failed = {}
      /\ client = [listeners |-> client.listeners, view |-> client.view,
                   queries |-> client.queries, cache |-> client.cache,
                   nextId |-> client.nextId, active |-> client.active,
                   watched |-> client.watched, errors |-> client.errors,
                   failed |-> client.failed]
  BY DEF Init, NewClient
<1> HIDE DEF f
<1>5. client \in ClientRecord
  BY <1>3, <1>4 DEF ClientRecord, None
<1>6. CacheOK(client.cache, client.nextId)
  BY <1>4 DEF CacheOK, None
<1>7. \A id : ~IsViewed(client.view, id) /\ ~IsNeeded(client, id)
  BY <1>4 DEF IsViewed, IsNeeded, HasRemote
<1>8. Tidy(client, setting.listeners)
  BY <1>2, <1>4, <1>5, <1>6, <1>7 DEF Tidy
<1>9. Complete(client)
  BY <1>4 DEF Complete
<1>10. /\ calls = <<>> /\ calls \in Seq(CallsOf(setting.listeners))
       /\ CallsOK(calls, client, removed)
       /\ added \subseteq setting.listeners
  BY DEF Init, CallsOK
<1> QED
  BY <1>1, <1>8, <1>9, <1>10 DEF IInv

\* The calls of the user are queued; the client does not change.
LEMMA UserKeeps ==
  ASSUME IInv, NEW l \in Listeners, AddListener(l) \/ RemoveListener(l)
  PROVE  IInv'
<1> DEFINE ls == setting.listeners
<1>0. /\ UNCHANGED <<client, setting>> /\ setting \in SettingRecord /\ Sound(setting)
      /\ calls \in Seq(CallsOf(ls)) /\ added \subseteq ls /\ Tidy(client, ls)
      /\ IF AllRemote(ls) THEN Complete(client) ELSE CallsOK(calls, client, removed)
  BY DEF IInv, AddListener, RemoveListener
<1>1. CASE AddListener(l)
  <2>1. /\ l \in ls /\ added' = added \cup {l} /\ removed' = removed
        /\ calls' = Append(calls, [op |-> "add", listener |-> l])
    BY <1>1 DEF AddListener
  <2>2. [op |-> "add", listener |-> l] \in CallsOf(ls)
    BY <2>1 DEF CallsOf
  <2>3. calls' \in Seq(CallsOf(ls)) /\ added' \subseteq ls
    BY <1>0, <2>1, <2>2
  <2>4. ~AllRemote(ls) => CallsOK(calls', client, removed)
    BY <1>0, <2>1, AddIsQueued
  <2> QED
    BY <1>0, <2>1, <2>3, <2>4 DEF IInv
<1>2. CASE RemoveListener(l)
  <2>1. /\ l \in ls /\ l \notin removed /\ added' = added /\ removed' = removed \cup {l}
        /\ calls' = IF IsAlive(l) THEN Append(calls, [op |-> "remove", listener |-> l])
                    ELSE calls
    BY <1>0, <1>2 DEF RemoveListener
  <2>2. [op |-> "remove", listener |-> l] \in CallsOf(ls)
    BY <2>1 DEF CallsOf
  <2>3. calls' \in Seq(CallsOf(ls))
    <3>1. Append(calls, [op |-> "remove", listener |-> l]) \in Seq(CallsOf(ls))
      BY <1>0, <2>2
    <3> QED
      BY <1>0, <2>1, <3>1
  <2>4. ASSUME ~AllRemote(ls) PROVE CallsOK(calls', client, removed')
    <3>1. CallsOK(calls, client, removed)
      BY <1>0, <2>4
    <3>2. CASE IsAlive(l)
      BY <1>0, <2>1, <3>1, <3>2, RemovalIsQueued DEF IsAlive
    <3>3. CASE ~IsAlive(l)
      BY <2>1, <3>1, <3>3, MoreRemoved
    <3> QED
      BY <3>2, <3>3
  <2> QED
    BY <1>0, <2>1, <2>3, <2>4 DEF IInv
<1> QED
  BY <1>1, <1>2

\* A call of the worker queue runs.
LEMMA RunKeeps ==
  ASSUME IInv, RunCall
  PROVE  IInv' /\ After(client, client', setting.listeners)
<1> DEFINE ls == setting.listeners
           l == calls[1].listener
<1>0. /\ UNCHANGED <<added, removed, setting>> /\ calls # <<>> /\ calls' = Tail(calls)
      /\ client' = IF calls[1].op = "add" THEN AddQueryListener(client, l)
                   ELSE RemoveQueryListener(client, l)
  BY DEF RunCall
<1>1. /\ setting \in SettingRecord /\ Sound(setting) /\ ls \subseteq Listeners
      /\ calls \in Seq(CallsOf(ls)) /\ added \subseteq ls
      /\ Before(client, ls)
      /\ ~AllRemote(ls) => CallsOK(calls, client, removed)
  BY InOrder DEF IInv, SettingRecord
<1>2. /\ 1 \in 1..Len(calls) /\ calls' \in Seq(CallsOf(ls))
      /\ calls[1].op \in {"add", "remove"} /\ l \in ls
  <2>1. 1 \in 1..Len(calls) /\ calls' \in Seq(CallsOf(ls))
    BY <1>0, <1>1
  <2> QED
    BY <1>1, <2>1, CallType
<1> HIDE DEF ls, l
<1>3. /\ After(client, client', ls)
      /\ \/ /\ calls[1].op = "add"
            /\ l \in client'.listeners[QueryOf[l]]
            /\ \A p \in Queries : client.listeners[p] \subseteq client'.listeners[p]
         \/ /\ calls[1].op = "remove"
            /\ \A p \in Queries : client.listeners[p] \ {l} \subseteq client'.listeners[p]
  <2>1. CASE calls[1].op = "add"
    BY <1>0, <1>1, <1>2, <2>1, AddKeeps
  <2>2. CASE calls[1].op = "remove"
    <3>1. AllRemote(ls) \/ l \in client.listeners[QueryOf[l]]
      BY <1>1, <1>2, <2>2 DEF CallsOK, l
    <3>2. client' = RemoveQueryListener(client, l)
      BY <1>0, <2>2
    <3> QED
      BY <1>1, <1>2, <2>2, <3>1, <3>2, RemoveKeeps
  <2> QED
    BY <1>2, <2>1, <2>2
<1>4. ~AllRemote(ls) => CallsOK(calls', client', removed)
  BY <1>0, <1>1, <1>3, CallHasRun DEF l
<1>5. /\ Tidy(client', ls)
      /\ IF AllRemote(ls) THEN Complete(client') ELSE CallsOK(calls', client', removed)
  BY <1>3, <1>4, StaysInOrder
<1> QED
  BY <1>0, <1>1, <1>2, <1>3, <1>5 DEF IInv, ls

\* The backend rejects a target. It does so only while all listeners are remote.
LEMMA ErrorKeeps ==
  ASSUME IInv, NEW id \in TargetIds, TargetError(id)
  PROVE  /\ IInv' /\ After(client, client', setting.listeners)
         /\ client'.watched = client.watched \ {id}
         /\ \A q \in Queries :
              client.view[q] = id => client.listeners[q] \subseteq client'.errors
<1> DEFINE ls == setting.listeners
<1>0. /\ UNCHANGED <<calls, added, removed>> /\ id \in client.watched
      /\ setting.rejections > 0
      /\ setting' = [setting EXCEPT !.rejections = @ - 1]
      /\ client' = HandleRejectedListen([client EXCEPT !.watched = @ \ {id}], id)
  BY DEF TargetError
<1>1. /\ setting \in SettingRecord /\ Sound(setting)
      /\ calls \in Seq(CallsOf(ls)) /\ added \subseteq ls
      /\ Before(client, ls)
  BY InOrder DEF IInv
<1>2. AllRemote(ls)
  BY <1>0, <1>1 DEF Sound
<1>3. setting' \in SettingRecord /\ setting'.listeners = ls /\ Sound(setting')
  BY <1>0, <1>1, <1>2 DEF SettingRecord, Sound
<1> HIDE DEF ls
<1>4. Rejected(client, client', id)
  BY <1>0, <1>1, RejectDoes
<1>5. /\ After(client, client', ls)
      /\ \A q \in Queries :
           client.view[q] = id => client.listeners[q] \subseteq client'.errors
  BY <1>0, <1>1, <1>2, <1>4, RejectKeeps
<1>6. client'.watched = client.watched \ {id}
  BY <1>4 DEF Rejected
<1>7. Tidy(client', ls) /\ Complete(client')
  BY <1>2, <1>5 DEF After
<1> QED
  BY <1>0, <1>1, <1>2, <1>3, <1>5, <1>6, <1>7 DEF IInv, ls

\* The collector removes a target.
LEMMA CollectorKeeps ==
  ASSUME IInv, NEW t \in Targets, CollectTarget(t)
  PROVE  IInv' /\ After(client, client', setting.listeners)
<1> DEFINE ls == setting.listeners
<1>0. /\ UNCHANGED <<calls, added, removed, setting>>
      /\ client.cache[t] \notin client.active
      /\ client' = [client EXCEPT !.cache[t] = None]
  BY DEF CollectTarget
<1>1. /\ setting \in SettingRecord /\ Sound(setting)
      /\ calls \in Seq(CallsOf(ls)) /\ added \subseteq ls
      /\ Before(client, ls)
      /\ ~AllRemote(ls) => CallsOK(calls, client, removed)
  BY InOrder DEF IInv
<1> HIDE DEF ls
<1>2. After(client, client', ls) /\ client'.listeners = client.listeners
  BY <1>0, <1>1, CollectKeeps
<1>3. ~AllRemote(ls) => CallsOK(calls, client', removed)
  BY <1>1, <1>2 DEF CallsOK
<1>4. /\ Tidy(client', ls)
      /\ IF AllRemote(ls) THEN Complete(client') ELSE CallsOK(calls, client', removed)
  BY <1>2, <1>3, StaysInOrder
<1> QED
  BY <1>0, <1>1, <1>2, <1>4 DEF IInv, ls

\* Every step keeps the invariant, and leaves the views that stay where they are.
LEMMA StepKeeps ==
  ASSUME IInv, [Next]_vars
  PROVE  IInv' /\ After(client, client', setting.listeners)
<1>0. Before(client, setting.listeners) => After(client, client, setting.listeners)
  BY DEF Before, After, ViewsKept
<1>1. CASE UNCHANGED vars
  <2>1. IInv'
    BY <1>1 DEF vars, IInv
  <2> QED
    BY <1>0, <1>1, <2>1, InOrder DEF vars
<1>2. ASSUME NEW l \in Listeners, AddListener(l) \/ RemoveListener(l)
      PROVE  IInv' /\ After(client, client', setting.listeners)
  <2>1. client' = client
    BY <1>2 DEF AddListener, RemoveListener
  <2> QED
    BY <1>0, <1>2, <2>1, InOrder, UserKeeps
<1>3. CASE RunCall
  BY <1>3, RunKeeps
<1>4. ASSUME NEW id \in TargetIds, TargetError(id)
      PROVE  IInv' /\ After(client, client', setting.listeners)
  BY <1>4, ErrorKeeps
<1>5. ASSUME NEW t \in Targets, CollectTarget(t)
      PROVE  IInv' /\ After(client, client', setting.listeners)
  BY <1>5, CollectorKeeps
<1> QED
  BY <1>1, <1>2, <1>3, <1>4, <1>5 DEF Next, UserCalls, Backend

\* The invariant holds in a setting of the theorems.
LEMMA Invariance == Spec /\ Sound(setting) => []IInv
<1>1. Init /\ Sound(setting) => IInv
  BY InitInOrder
<1>2. IInv /\ [Next]_vars => IInv'
  BY StepKeeps
<1> QED
  BY <1>1, <1>2, PTL DEF Spec

\* No assertion on the path of a listener fails: SyncEngine::Listen finds no view
\* of its query, StopListening and ReleaseTarget find their target, and
\* RemoveAndCleanupTarget its queries.
THEOREM NoListenAssertFails == Spec /\ Sound(setting) => []AssertsHold
<1>1. IInv => AssertsHold
  BY DEF IInv, Tidy, AssertsHold
<1> QED
  BY <1>1, Invariance, PTL

\* The tables of event manager, sync engine, local store and remote store agree
\* between two operations.
THEOREM ListenTablesAgree == Spec /\ Sound(setting) => []TablesAgree
<1>1. ASSUME IInv PROVE TablesAgree
  <2> DEFINE ls == setting.listeners
  <2>0. /\ Tidy(client, ls) /\ client.view \in [Queries -> Nat]
        /\ client.queries \in QueryMaps /\ client.active \subseteq Nat
        /\ AllRemote(ls) => Complete(client)
    BY <1>1 DEF IInv, Tidy, ClientRecord
  <2> HIDE DEF ls
  <2>1. \A q \in Queries : client.listeners[q] # {} <=> client.view[q] # None
    BY <2>0 DEF Tidy
  <2>2. client.watched = {client.view[q] : q \in {p \in Queries : HasRemote(client, p)}}
    <3>1. \A id : id \in client.watched <=>
                    \E q \in Queries : client.view[q] = id /\ HasRemote(client, q)
      BY <2>0 DEF Tidy, IsNeeded
    <3> QED
      BY <3>1
  <2>3. ASSUME AllRemote(ls), NEW id \in TargetIds
        PROVE  {q \in Queries : client.view[q] = id} =
                 IF Has(client, id) THEN client.queries[id] ELSE {}
    <3>1. id # None
      BY DEF TargetIds, None
    <3>2. CASE Has(client, id)
      <4>1. id \in DOMAIN client.queries /\ client.queries[id] \subseteq Queries
        BY <2>0, <3>2, QueryMapType DEF Has
      <4>2. \A q \in Queries : q \in client.queries[id] <=> client.view[q] = id
        BY <2>0, <2>3, <3>1, <4>1 DEF Tidy, Complete
      <4> QED
        BY <3>2, <4>1, <4>2
    <3>3. CASE ~Has(client, id)
      <4>1. \A q \in Queries : client.view[q] # id
        BY <2>0, <3>1, <3>3 DEF Tidy, IsViewed, Has
      <4> QED
        BY <3>3, <4>1
    <3> QED
      BY <3>2, <3>3
  <2>4. client.active = Range(client.view) \ {None}
    <3>1. \A id : id \in Range(client.view) <=> \E q \in Queries : client.view[q] = id
      BY <2>0 DEF Range
    <3>2. \A id : id \in client.active <=>
                    id # None /\ \E q \in Queries : client.view[q] = id
      BY <2>0 DEF Tidy, IsViewed
    <3> QED
      BY <3>1, <3>2
  <2> QED
    BY <2>1, <2>2, <2>3, <2>4 DEF TablesAgree, AllRemote, ls
<1>2. IInv => TablesAgree
  BY <1>1
<1> QED
  BY <1>2, Invariance, PTL

\* A rejection by the backend reaches every listener of the target.
THEOREM RejectionsReachListeners == Spec /\ Sound(setting) => RejectionIsReported
<1> DEFINE Reported ==
      \A id \in client.watched :
        setting' # setting /\ id \notin client'.watched =>
          \A q \in Queries : client.view[q] = id =>
            client.listeners[q] \subseteq client'.errors
<1>1. ASSUME IInv, [Next]_vars PROVE Reported
  <2>1. CASE setting' = setting
    BY <2>1
  <2>2. CASE setting' # setting
    <3>1. PICK e \in TargetIds : TargetError(e)
      BY <1>1, <2>2 DEF Next, vars, UserCalls, AddListener, RemoveListener, RunCall,
                        Backend, CollectTarget
    <3>2. /\ client'.watched = client.watched \ {e}
          /\ \A q \in Queries :
               client.view[q] = e => client.listeners[q] \subseteq client'.errors
      BY <1>1, <3>1, ErrorKeeps
    <3> QED
      BY <3>2
  <2> QED
    BY <2>1, <2>2
<1>2. IInv /\ [Next]_vars => [Reported]_vars
  BY <1>1
<1> QED
  BY <1>2, Invariance, PTL DEF Spec, RejectionIsReported

\* The target id of a listened query never changes.
THEOREM TargetIdsAreStable == Spec /\ Sound(setting) => IdsAreStable
<1> DEFINE Stable ==
      client'.failed = {} =>
        \A q \in Queries :
          client.view[q] # None /\ client'.view[q] # None =>
            /\ client'.view[q] = client.view[q]
            /\ client'.cache[TargetOf[q]] = client.view[q]
<1>1. ASSUME IInv, [Next]_vars PROVE Stable
  <2>1. After(client, client', setting.listeners)
    BY <1>1, StepKeeps
  <2> QED
    BY <2>1 DEF After, Tidy, ViewsKept
<1>2. IInv /\ [Next]_vars => [Stable]_vars
  BY <1>1
<1> QED
  BY <1>2, Invariance, PTL DEF Spec, IdsAreStable
=============================================================================
