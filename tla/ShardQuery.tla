----------------------------- MODULE ShardQuery -----------------------------
(***************************************************************************)
(* Distributed queries, services/distributed_coordinator.py.  A search     *)
(* submits one task per shard to the coordinator's thread pool, which      *)
(* concurrent searches share, collects the futures as they complete and    *)
(* fuses the lists by distance.  The shards are external: each returns the *)
(* nearest of what it holds, raises, or never returns.                     *)
(***************************************************************************)
EXTENDS Integers, Sequences, SequencesExt, FiniteSetsExt

CONSTANTS
  Searches,   \* calls of search
  Shards,     \* the shards, a sequence of distinct names
  VectorIds,
  Holdings,   \* what the shards may hold: functions from shards to hits, nearest first
  Hanging,    \* shards that may not return
  Workers,    \* max_workers
  K,
  Oversample

ASSUME ShardAssumption ==
  /\ Workers \in Nat \ {0} /\ K \in Nat \ {0} /\ Oversample \in Nat
  /\ Hanging \subseteq ToSet(Shards)
  /\ Shards \in Seq(ToSet(Shards)) /\ IsInjective(Shards)

\* A shard holds an id once, and answers with the nearest first.
Hits == [id : VectorIds, dist : Nat]

ASSUME HoldingsAssumption ==
  \A held \in Holdings :
    /\ held \in [ToSet(Shards) -> Seq(Hits)]
    /\ \A s \in ToSet(Shards) : \A i, j \in DOMAIN held[s] :
         i < j => held[s][i].id # held[s][j].id /\ held[s][i].dist <= held[s][j].dist

VARIABLES
  holds,      \* holds[s]: the hits of shard s, nearest first
  tasks,      \* the pool's queue of pairs <<search, shard>>
  working,    \* tasks a thread runs
  hung,       \* tasks that keep their thread for ever
  completed,  \* completed[q]: what search q's futures hold and has not been collected
  gathered,   \* gathered[q]: per_shard_results, shards and their hits in the order of arrival
  failedShards, \* failedShards[q]: failed
  searchPc,   \* searchPc[q]: "new", "wait", "done" or "raised"
  poolOpen    \* shutdown has not been called

shardVars == <<holds, tasks, working, hung, completed, gathered, failedShards, searchPc, poolOpen>>

ShardInit ==
  /\ holds \in Holdings /\ tasks = <<>> /\ working = {} /\ hung = {} /\ poolOpen = TRUE
  /\ completed = [q \in Searches |-> {}] /\ gathered = [q \in Searches |-> <<>>]
  /\ failedShards = [q \in Searches |-> {}]
  /\ searchPc = [q \in Searches |-> "new"]

-----------------------------------------------------------------------------
(* Lists of hits *)

FirstOf(s, n) == SubSeq(s, 1, Min({n, Len(s)}))

PerShardK == Max({K * Oversample, K})

\* The places of hits in what a search gathered, and the order in which they are met.
HitPlaces(answers) == UNION {{n} \X DOMAIN answers[n].hits : n \in DOMAIN answers}
HitAt(answers, p) == answers[p[1]].hits[p[2]]
Sooner(p, r) == p[1] < r[1] \/ (p[1] = r[1] /\ p[2] < r[2])

\* `best` keeps an id at the place of its first hit.
FirstPlaces(answers) ==
  {p \in HitPlaces(answers) :
     \A r \in HitPlaces(answers) : Sooner(r, p) => HitAt(answers, r).id # HitAt(answers, p).id}

\* Buggy variant: the distance of the hit that came first.
FirstDistance(answers, p) == HitAt(answers, p).dist

\* Duplicates keep the smallest distance.
BestDistance(answers, p) ==
  Min({HitAt(answers, r).dist : r \in {r \in HitPlaces(answers) : HitAt(answers, r).id = HitAt(answers, p).id}})

\* sorted() keeps the order of what has the same distance.
SortedBefore(answers, p, r) ==
  \/ BestDistance(answers, p) < BestDistance(answers, r)
  \/ BestDistance(answers, p) = BestDistance(answers, r) /\ Sooner(p, r)
Ahead(answers, p) == {r \in FirstPlaces(answers) : SortedBefore(answers, r, p)}

\* _fuse_distance.
Fuse(answers) ==
  [n \in 1 .. Min({K, Cardinality(FirstPlaces(answers))}) |->
     LET p == CHOOSE p \in FirstPlaces(answers) : Cardinality(Ahead(answers, p)) = n - 1
     IN [id |-> HitAt(answers, p).id, dist |-> BestDistance(answers, p)]]

-----------------------------------------------------------------------------
(* search *)

Ask(q) ==
  /\ searchPc[q] = "new"
  /\ IF poolOpen THEN /\ tasks' = tasks \o [i \in DOMAIN Shards |-> <<q, Shards[i]>>]
                      /\ searchPc' = [searchPc EXCEPT ![q] = "wait"]
     ELSE searchPc' = [searchPc EXCEPT ![q] = "raised"] /\ UNCHANGED tasks
  /\ UNCHANGED <<holds, working, hung, completed, gathered, failedShards, poolOpen>>

StartTask ==
  /\ tasks # <<>> /\ Cardinality(working) < Workers
  /\ working' = working \cup {Head(tasks)} /\ tasks' = Tail(tasks)
  /\ UNCHANGED <<holds, hung, completed, gathered, failedShards, searchPc, poolOpen>>

\* A shard answers with its nearest hits.
Answer(t) ==
  /\ t \in working \ hung
  /\ working' = working \ {t}
  /\ LET hits == FirstOf(holds[t[2]], PerShardK)
     IN completed' = [completed EXCEPT ![t[1]] = @ \cup {[shard |-> t[2], ok |-> TRUE, hits |-> hits]}]
  /\ UNCHANGED <<holds, tasks, hung, gathered, failedShards, searchPc, poolOpen>>

\* Buggy variant: the future of a shard that raised is forgotten.
RaiseSilently(t) ==
  /\ t \in working \ hung
  /\ working' = working \ {t}
  /\ UNCHANGED <<holds, tasks, hung, completed, gathered, failedShards, searchPc, poolOpen>>

Raise(t) ==
  /\ t \in working \ hung
  /\ working' = working \ {t}
  /\ completed' = [completed EXCEPT ![t[1]] = @ \cup {[shard |-> t[2], ok |-> FALSE, hits |-> <<>>]}]
  /\ UNCHANGED <<holds, tasks, hung, gathered, failedShards, searchPc, poolOpen>>

Hang(t) ==
  /\ t \in working \ hung /\ t[2] \in Hanging
  /\ hung' = hung \cup {t}
  /\ UNCHANGED <<holds, tasks, working, completed, gathered, failedShards, searchPc, poolOpen>>

\* as_completed has no timeout, and result() is called on a future that is done: the
\* timeout per shard never starts.
Collect(q) ==
  /\ \E f \in completed[q] :
       /\ completed' = [completed EXCEPT ![q] = @ \ {f}]
       /\ IF f.ok THEN gathered' = [gathered EXCEPT ![q] = Append(@, [shard |-> f.shard, hits |-> f.hits])] /\ UNCHANGED failedShards
          ELSE failedShards' = [failedShards EXCEPT ![q] = @ \cup {f.shard}] /\ UNCHANGED gathered
  /\ UNCHANGED <<holds, tasks, working, hung, searchPc, poolOpen>>

Merge(q) ==
  /\ searchPc[q] = "wait" /\ Len(gathered[q]) + Cardinality(failedShards[q]) = Len(Shards)
  /\ searchPc' = [searchPc EXCEPT ![q] = "done"]
  /\ UNCHANGED <<holds, tasks, working, hung, completed, gathered, failedShards, poolOpen>>

\* shutdown(wait=False): what was submitted still runs.
Shutdown ==
  /\ poolOpen /\ poolOpen' = FALSE
  /\ UNCHANGED <<holds, tasks, working, hung, completed, gathered, failedShards, searchPc>>

Ends(t) == Answer(t) \/ Raise(t)

ShardStep ==
  \/ StartTask
  \/ \E q \in Searches : Collect(q) \/ Merge(q)
  \/ \E t \in Searches \X ToSet(Shards) : Ends(t) \/ Hang(t)

ShardNext == ShardStep \/ Shutdown \/ \E q \in Searches : Ask(q)

ShardSpec == ShardInit /\ [][ShardNext]_shardVars

\* Threads run, and a shard that does not hang returns or raises.  The searches take a
\* bounded number of steps, so that some step is taken is enough for each of them.
ShardFairness == WF_shardVars(ShardStep)

-----------------------------------------------------------------------------
(* Properties *)

\* The hits of the shards that answered.
HeldBy(q) == UNION {ToSet(holds[s]) : s \in ToSet(Shards) \ failedShards[q]}

\* The nearest distance at which the shards that answered search q hold an id.
Best(q, id) ==
  Min({h.dist : h \in {h \in HeldBy(q) : h.id = id}})

\* Whatever the order of arrival, a search returns the K nearest ids of the shards that
\* answered, each once and at its nearest distance, although each shard's list is cut off.
TopKExact ==
  \A q \in Searches : searchPc[q] = "done" =>
    LET top == Fuse(gathered[q])
        ids == {h.id : h \in HeldBy(q)}
        returned == {top[i].id : i \in DOMAIN top}
    IN /\ returned \subseteq ids /\ Cardinality(returned) = Len(top)
       /\ Len(top) = Min({K, Cardinality(ids)})
       /\ \A i \in DOMAIN top : top[i].dist = Best(q, top[i].id)
       /\ \A i, j \in DOMAIN top : i < j => top[i].dist <= top[j].dist
       /\ \A id \in ids \ returned : \A i \in DOMAIN top : top[i].dist <= Best(q, id)

\* A search ends when its shards return or raise, however many searches share the pool and
\* also after a shutdown: only a shard that hangs can keep it waiting.
Waiting == {q \in Searches : searchPc[q] = "wait"}
SearchesEnd == Waiting # {} ~> (Waiting = {} \/ hung # {})
=============================================================================
