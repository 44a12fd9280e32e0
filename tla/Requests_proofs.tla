-------------------------- MODULE Requests_proofs --------------------------
(***************************************************************************)
(* Proofs about the parts that take work on from callers and do it later,  *)
(* for any number of requests, vectors, queries, workers and starts and    *)
(* any batch and queue size.  AdaptiveBatchPool: an unfinished request is  *)
(* in exactly one place, a semaphore never gives out more than its         *)
(* permits, and join() returns only when every caller is answered.         *)
(* QueryScheduler and BulkIngestion: so is every query and every vector.   *)
(***************************************************************************)
EXTENDS AdaptiveBatchPool, BulkIngestion, QueryScheduler, FiniteSetTheorems, TLAPS

(***************************************************************************)
(* The inductive invariant.                                                *)
(***************************************************************************)
\* TypeOK without its last conjunct, which PermitsAdd is.
PlainTypes ==
  /\ running \in BOOLEAN
  /\ starts \in 0 .. MaxStarts
  /\ queue \in Seq(Items)
  /\ unfinished \subseteq Items
  /\ abandoned \subseteq Items
  /\ overlapped \in BOOLEAN
  /\ future \in [Items -> {"none", "pending", "done", "failed", "cancelled"}]
  /\ coordinator \in [Generations -> {"none", "loop", "collect", "done"}]
  /\ batch \in [Generations -> SUBSET Items]
  /\ goal \in [Generations -> MinBatch .. MaxBatch]
  /\ permits \in [Generations -> 0 .. MaxWorkers]
  /\ stopper \in {"none", "join", "joined"}

TaskTypes ==
  \A t \in tasks :
    /\ t.batch \subseteq Items
    /\ Cardinality(t.batch) \in 1 .. MaxBatch
    /\ t.phase \in {"created", "waiting", "running"}
    /\ t.sem \in Generations \/ (t.sem = 0 /\ t.phase = "created")

PermitsAdd == \A g \in Generations : permits[g] + Cardinality(Holders(g)) = MaxWorkers

\* What is collected is finite and not yet what is collected for.
Sizes ==
  /\ IsFiniteSet(tasks)
  /\ \A t \in tasks : IsFiniteSet(t.batch)
  /\ \A c \in Generations : IsFiniteSet(batch[c]) /\ Cardinality(batch[c]) < goal[c]

\* Only a collecting coordinator holds items, and only a started one does anything.
Lifecycle ==
  /\ \A c \in Generations : coordinator[c] # "collect" => batch[c] = {}
  /\ \A c \in Generations : c > starts => coordinator[c] = "none"
  /\ tasks # {} => starts > 0

\* A future is pending only while its item is unfinished, and unfinished only once put.
Futures ==
  /\ \A i \in Items : future[i] = "pending" => i \in unfinished
  /\ \A i \in unfinished : future[i] # "none"

PoolInv ==
  PlainTypes /\ TaskTypes /\ PermitsAdd /\ Sizes /\ Lifecycle /\ Futures /\ ItemsInOnePlace

LEMMA TypeOKParts == TypeOK <=> PlainTypes /\ TaskTypes /\ PermitsAdd
  BY DEF TypeOK, PlainTypes, TaskTypes, PermitsAdd

-----------------------------------------------------------------------------
(***************************************************************************)
(* Facts about the data.                                                   *)
(***************************************************************************)
\* The size collected for is between the smallest and the largest.
LEMMA TargetInBounds ==
  ASSUME NEW depth \in Nat
  PROVE  Target(depth) \in MinBatch .. MaxBatch
<1>1. CASE depth >= TargetDepth
  BY <1>1, PoolAssumption DEF Target
<1>2. CASE depth < TargetDepth
  <2> DEFINE d == MaxBatch - MinBatch
             q == (depth * d) \div TargetDepth
  <2>1. d \in Nat
    BY PoolAssumption
  <2>2. depth * d \in Nat /\ depth * d <= TargetDepth * d
    BY <1>2, <2>1, PoolAssumption
  <2>3. q \in Nat /\ TargetDepth * q <= depth * d
    BY <2>2, PoolAssumption
  <2>4. TargetDepth * q <= TargetDepth * d
    BY <2>1, <2>2, <2>3, PoolAssumption
  <2>5. q <= d
    BY <2>1, <2>3, <2>4, PoolAssumption
  <2>6. Target(depth) = MinBatch + q
    BY <1>2, PoolAssumption DEF Target
  <2>7. QED BY <2>1, <2>3, <2>5, <2>6, PoolAssumption
<1>3. QED BY <1>1, <1>2, PoolAssumption

\* Taking the head off a queue without repetitions.
LEMMA TailOfQueue ==
  ASSUME NEW q \in Seq(Items), q # <<>>, IsInjective(q)
  PROVE  /\ Tail(q) \in Seq(Items)
         /\ Head(q) \in ToSet(q)
         /\ Head(q) \in Items
         /\ IsInjective(Tail(q))
         /\ ToSet(Tail(q)) = ToSet(q) \ {Head(q)}
<1>1. /\ Len(q) \in Nat \ {0}
      /\ Len(Tail(q)) = Len(q) - 1
      /\ DOMAIN q = 1 .. Len(q)
      /\ DOMAIN Tail(q) = 1 .. Len(q) - 1
      /\ \A k \in 1 .. Len(q) - 1 : Tail(q)[k] = q[k + 1]
      /\ Head(q) = q[1]
  OBVIOUS
<1>2. Tail(q) \in Seq(Items)
  OBVIOUS
<1>3. Head(q) \in ToSet(q) /\ Head(q) \in Items
  BY <1>1 DEF ToSet
<1>4. IsInjective(Tail(q))
  BY <1>1 DEF IsInjective
<1>5. ToSet(Tail(q)) \subseteq ToSet(q) \ {Head(q)}
  BY <1>1 DEF ToSet, IsInjective
<1>6. ASSUME NEW x \in ToSet(q), x # Head(q)
      PROVE  x \in ToSet(Tail(q))
  <2>1. PICK k \in 1 .. Len(q) : x = q[k]
    BY <1>1 DEF ToSet
  <2>2. k - 1 \in 1 .. Len(q) - 1 /\ Tail(q)[k - 1] = x
    BY <1>1, <1>6, <2>1
  <2>3. QED BY <1>1, <2>2 DEF ToSet
<1>7. QED BY <1>2, <1>3, <1>4, <1>5, <1>6

\* Appending an item the queue has not.
LEMMA AppendToQueue ==
  ASSUME NEW q \in Seq(Items), NEW i \in Items, IsInjective(q), i \notin ToSet(q)
  PROVE  /\ Append(q, i) \in Seq(Items)
         /\ IsInjective(Append(q, i))
         /\ ToSet(Append(q, i)) = ToSet(q) \cup {i}
<1>1. /\ Len(q) \in Nat
      /\ DOMAIN q = 1 .. Len(q)
      /\ DOMAIN Append(q, i) = 1 .. Len(q) + 1
      /\ \A k \in 1 .. Len(q) : Append(q, i)[k] = q[k]
      /\ Append(q, i)[Len(q) + 1] = i
  OBVIOUS
<1>2. IsInjective(Append(q, i))
  BY <1>1 DEF IsInjective, ToSet
<1>3. ToSet(Append(q, i)) \subseteq ToSet(q) \cup {i}
  BY <1>1 DEF ToSet
<1>4. ToSet(q) \cup {i} \subseteq ToSet(Append(q, i))
  BY <1>1 DEF ToSet
<1>5. QED BY <1>2, <1>3, <1>4

-----------------------------------------------------------------------------
(***************************************************************************)
(* What steps that leave a part of the state alone preserve.               *)
(***************************************************************************)
LEMMA PlacesUnchanged ==
  ItemsInOnePlace /\ UNCHANGED <<queue, batch, tasks, unfinished, abandoned>>
    => ItemsInOnePlace'
  BY DEF ItemsInOnePlace, InQueue, InBatches, InTasks

LEMMA TasksUnchanged ==
  TaskTypes /\ PermitsAdd /\ UNCHANGED <<tasks, permits>> => TaskTypes' /\ PermitsAdd'
  BY DEF TaskTypes, PermitsAdd, Holders

LEMMA SizesUnchanged == Sizes /\ UNCHANGED <<tasks, batch, goal>> => Sizes'
  BY DEF Sizes

LEMMA FuturesUnchanged == Futures /\ UNCHANGED <<future, unfinished>> => Futures'
  BY DEF Futures

\* The initial state.
LEMMA PoolInit == Init => PoolInv
<1> SUFFICES ASSUME Init
             PROVE  PoolInv
  OBVIOUS
<1> USE DEF Init
<1>1. PlainTypes
  <2>0. running \in BOOLEAN /\ overlapped \in BOOLEAN
    OBVIOUS
  <2>1. /\ queue \in Seq(Items)
        /\ unfinished \subseteq Items /\ abandoned \subseteq Items
        /\ stopper \in {"none", "join", "joined"}
    OBVIOUS
  <2>2. starts \in 0 .. MaxStarts
    BY PoolAssumption
  <2>3. goal \in [Generations -> MinBatch .. MaxBatch]
    BY PoolAssumption
  <2>4. permits \in [Generations -> 0 .. MaxWorkers]
    BY PoolAssumption
  <2>5. /\ future \in [Items -> {"none", "pending", "done", "failed", "cancelled"}]
        /\ coordinator \in [Generations -> {"none", "loop", "collect", "done"}]
        /\ batch \in [Generations -> SUBSET Items]
    OBVIOUS
  <2>6. QED BY <2>0, <2>1, <2>2, <2>3, <2>4, <2>5 DEF PlainTypes
<1>2. TaskTypes
  BY DEF TaskTypes
<1>3. PermitsAdd
  <2>1. \A g \in Generations : Holders(g) = {}
    BY DEF Holders
  <2>2. \A g \in Generations : Cardinality(Holders(g)) = 0
    BY <2>1, FS_EmptySet
  <2>3. \A g \in Generations : permits[g] = MaxWorkers
    OBVIOUS
  <2>4. MaxWorkers + 0 = MaxWorkers
    BY PoolAssumption
  <2>5. QED BY <2>2, <2>3, <2>4 DEF PermitsAdd
<1>4. Sizes
  BY FS_EmptySet, PoolAssumption DEF Sizes
<1>5. Lifecycle
  BY DEF Lifecycle
<1>6. Futures
  BY DEF Futures
<1>7. ItemsInOnePlace
  <2>1. InQueue = {} /\ InBatches = {} /\ InTasks = {}
    BY DEF InQueue, InBatches, InTasks, ToSet
  <2>2. IsInjective(queue)
    BY DEF IsInjective
  <2>3. QED BY <2>1, <2>2 DEF ItemsInOnePlace
<1>8. QED BY <1>1, <1>2, <1>3, <1>4, <1>5, <1>6, <1>7 DEF PoolInv

-----------------------------------------------------------------------------
(***************************************************************************)
(* Callers.                                                                *)
(***************************************************************************)
LEMMA StartStep == PoolInv /\ Start => PoolInv'
<1> SUFFICES ASSUME PoolInv, Start
             PROVE  PoolInv'
  OBVIOUS
<1> USE DEF PoolInv
<1>1. starts + 1 \in Generations
  BY PoolAssumption DEF Start, Generations, PlainTypes
<1>2. UNCHANGED <<queue, unfinished, future, batch, goal, tasks, permits, abandoned>>
  BY DEF Start
<1>3. PlainTypes'
  BY <1>1, PoolAssumption DEF Start, PlainTypes, Generations
<1>4. TaskTypes' /\ PermitsAdd' /\ Sizes' /\ Futures' /\ ItemsInOnePlace'
  BY <1>2, TasksUnchanged, SizesUnchanged, FuturesUnchanged, PlacesUnchanged
<1>5. Lifecycle'
  <2>1. \A c \in Generations : c > starts' => c > starts /\ c # starts + 1
    BY PoolAssumption DEF Start, Generations, PlainTypes
  <2>2. \A c \in Generations : coordinator'[c] # "collect" => batch'[c] = {}
    <3>1. coordinator[starts + 1] = "none"
      BY <1>1, PoolAssumption DEF Lifecycle, PlainTypes
    <3>2. QED BY <1>1, <1>2, <3>1 DEF Start, Lifecycle, PlainTypes
  <2>3. \A c \in Generations : c > starts' => coordinator'[c] = "none"
    BY <1>1, <2>1 DEF Start, Lifecycle, PlainTypes
  <2>4. starts' > 0
    BY PoolAssumption DEF Start, PlainTypes
  <2>5. QED BY <2>2, <2>3, <2>4 DEF Lifecycle
<1>6. QED BY <1>3, <1>4, <1>5

LEMMA PutStep ==
  ASSUME PoolInv, NEW i \in Items, Put(i)
  PROVE  PoolInv'
<1> USE DEF PoolInv
<1>1. UNCHANGED <<running, starts, coordinator, batch, goal, tasks, permits, stopper,
                  abandoned, overlapped>>
  BY DEF Put, collecting, history
<1>2. i \notin unfinished
  BY DEF Put, Futures
<1>3. i \notin InQueue /\ i \notin InBatches /\ i \notin InTasks /\ i \notin abandoned
  BY <1>2 DEF ItemsInOnePlace
<1>4. /\ queue' \in Seq(Items)
      /\ IsInjective(queue')
      /\ ToSet(queue') = ToSet(queue) \cup {i}
  BY <1>3, AppendToQueue DEF Put, PlainTypes, ItemsInOnePlace, InQueue
<1>5. PlainTypes'
  BY <1>1, <1>4 DEF PlainTypes, Put
<1>6. TaskTypes' /\ PermitsAdd' /\ Sizes'
  BY <1>1, TasksUnchanged, SizesUnchanged
<1>7. Lifecycle'
  BY <1>1 DEF Lifecycle
<1>8. Futures'
  BY DEF Futures, Put, PlainTypes
<1>9. ItemsInOnePlace'
  <2>1. InQueue' = InQueue \cup {i} /\ InBatches' = InBatches /\ InTasks' = InTasks
    BY <1>1, <1>4 DEF InQueue, InBatches, InTasks
  <2>2. unfinished' = unfinished \cup {i}
    BY DEF Put
  <2>3. QED BY <1>1, <1>3, <1>4, <2>1, <2>2 DEF ItemsInOnePlace
<1>10. QED BY <1>5, <1>6, <1>7, <1>8, <1>9

LEMMA CancelFutureStep ==
  ASSUME PoolInv, NEW i \in Items, CancelFuture(i)
  PROVE  PoolInv'
<1> USE DEF PoolInv
<1>1. UNCHANGED <<running, starts, queue, unfinished, coordinator, batch, goal, tasks,
                  permits, stopper, abandoned, overlapped>>
  BY DEF CancelFuture, collecting, history
<1>2. PlainTypes'
  BY <1>1 DEF PlainTypes, CancelFuture
<1>3. TaskTypes' /\ PermitsAdd' /\ Sizes' /\ ItemsInOnePlace'
  BY <1>1, TasksUnchanged, SizesUnchanged, PlacesUnchanged
<1>4. Lifecycle'
  BY <1>1 DEF Lifecycle
<1>5. Futures'
  BY <1>1 DEF Futures, CancelFuture, PlainTypes
<1>6. QED BY <1>2, <1>3, <1>4, <1>5

LEMMA StopDrainStep == PoolInv /\ StopDrain => PoolInv'
<1> SUFFICES ASSUME PoolInv, StopDrain
             PROVE  PoolInv'
  OBVIOUS
<1> USE DEF PoolInv
<1>1. UNCHANGED <<starts, queue, unfinished, future, coordinator, batch, goal, tasks,
                  permits, abandoned, overlapped>>
  BY DEF StopDrain, collecting, history
<1>2. PlainTypes'
  BY <1>1 DEF PlainTypes, StopDrain
<1>3. TaskTypes' /\ PermitsAdd' /\ Sizes' /\ Futures' /\ ItemsInOnePlace'
  BY <1>1, TasksUnchanged, SizesUnchanged, FuturesUnchanged, PlacesUnchanged
<1>4. Lifecycle'
  BY <1>1 DEF Lifecycle
<1>5. QED BY <1>2, <1>3, <1>4

\* The items of the cancelled coordinator become abandoned.
LEMMA CancelStep ==
  ASSUME PoolInv, CancelCoordinator, running' \in BOOLEAN,
         UNCHANGED <<starts, queue, unfinished, future, goal, tasks, permits>>
  PROVE  PoolInv'
<1> USE DEF PoolInv
<1> DEFINE taken == UNION {batch[c] : c \in Generations \cap {starts}}
<1>1. /\ coordinator' \in [Generations -> {"none", "loop", "collect", "done"}]
      /\ batch' \in [Generations -> SUBSET Items]
      /\ \A c \in Generations : batch'[c] = IF c = starts THEN {} ELSE batch[c]
  BY DEF CancelCoordinator, PlainTypes
<1>2. taken \subseteq Items /\ abandoned' = abandoned \cup taken
  BY DEF CancelCoordinator, PlainTypes
<1>3. PlainTypes'
  BY <1>1, <1>2 DEF PlainTypes, CancelCoordinator
<1>4. TaskTypes' /\ PermitsAdd' /\ Futures'
  BY TasksUnchanged, FuturesUnchanged
<1>5. Sizes'
  <2>1. \A c \in Generations : goal[c] > 0
    BY PoolAssumption DEF PlainTypes
  <2>2. \A c \in Generations : IsFiniteSet(batch'[c]) /\ Cardinality(batch'[c]) < goal[c]
    BY <1>1, <2>1, FS_EmptySet DEF Sizes
  <2>3. QED BY <2>2 DEF Sizes
<1>6. Lifecycle'
  BY <1>1 DEF Lifecycle, CancelCoordinator, PlainTypes
<1>7. ItemsInOnePlace'
  <2>1. InQueue' = InQueue /\ InTasks' = InTasks
    BY DEF InQueue, InTasks
  <2>2. InBatches' \cup taken = InBatches
    BY <1>1 DEF InBatches
  <2>3. InBatches' \cap taken = {}
    BY <1>1 DEF InBatches, ItemsInOnePlace
  <2>4. \A c, d \in Generations : c # d => batch'[c] \cap batch'[d] = {}
    BY <1>1 DEF ItemsInOnePlace
  <2>5. \A t, u \in tasks' : t # u => t.batch \cap u.batch = {}
    BY DEF ItemsInOnePlace
  <2>6. QED BY <1>2, <2>1, <2>2, <2>3, <2>4, <2>5 DEF ItemsInOnePlace
<1>8. QED BY <1>3, <1>4, <1>5, <1>6, <1>7

-----------------------------------------------------------------------------
(***************************************************************************)
(* A coordinator.                                                          *)
(***************************************************************************)
LEMMA RoundFacts ==
  ASSUME PoolInv, NEW c \in Generations, coordinator[c] # "none",
         NEW depth \in Nat, NextRound(c, depth), UNCHANGED starts
  PROVE  /\ coordinator' \in [Generations -> {"none", "loop", "collect", "done"}]
         /\ batch' \in [Generations -> SUBSET Items]
         /\ goal' \in [Generations -> MinBatch .. MaxBatch]
         /\ \A d \in Generations : batch'[d] = IF d = c THEN {} ELSE batch[d]
         /\ \A d \in Generations :
              IsFiniteSet(batch'[d]) /\ Cardinality(batch'[d]) < goal'[d]
         /\ starts > 0
         /\ \A d \in Generations : coordinator'[d] # "collect" => batch'[d] = {}
         /\ \A d \in Generations : d > starts => coordinator'[d] = "none"
<1> USE DEF PoolInv, PlainTypes, NextRound
<1>1. Target(depth) \in MinBatch .. MaxBatch /\ Target(depth) > 0
  BY TargetInBounds, PoolAssumption
<1>2. coordinator' \in [Generations -> {"none", "loop", "collect", "done"}]
  OBVIOUS
<1>3. batch' \in [Generations -> SUBSET Items]
  OBVIOUS
<1>4. goal' \in [Generations -> MinBatch .. MaxBatch]
  BY <1>1
<1>5. \A d \in Generations : batch'[d] = IF d = c THEN {} ELSE batch[d]
  OBVIOUS
<1>6. \A d \in Generations : goal'[d] = IF d = c THEN Target(depth) ELSE goal[d]
  OBVIOUS
<1>7. \A d \in Generations : IsFiniteSet(batch'[d]) /\ Cardinality(batch'[d]) < goal'[d]
  BY <1>1, <1>5, <1>6, FS_EmptySet DEF Sizes
<1>8. c <= starts /\ starts > 0
  BY PoolAssumption DEF Lifecycle, Generations
<1>9. \A d \in Generations : coordinator'[d] # "collect" => batch'[d] = {}
  BY <1>5 DEF Lifecycle
<1>10. \A d \in Generations : d > starts => d # c
  BY <1>8, PoolAssumption DEF Generations
<1>11. \A d \in Generations : d > starts => coordinator'[d] = "none"
  BY <1>10 DEF Lifecycle
<1>12. QED BY <1>2, <1>3, <1>4, <1>5, <1>7, <1>8, <1>9, <1>11

LEMMA LoopStep ==
  ASSUME PoolInv, NEW c \in Generations, Loop(c)
  PROVE  PoolInv'
<1> USE DEF PoolInv
<1>1. Len(queue) \in Nat /\ coordinator[c] # "none" /\ batch[c] = {}
  <2>1. queue \in Seq(Items)
    BY DEF PlainTypes
  <2>2. coordinator[c] = "loop"
    BY DEF Loop
  <2>3. batch[c] = {}
    BY <2>2 DEF Lifecycle
  <2>4. QED BY <2>1, <2>2, <2>3
<1>2. NextRound(c, Len(queue))
  BY DEF Loop
<1>3. UNCHANGED <<running, starts, queue, unfinished, future, tasks, permits, stopper,
                  abandoned, overlapped>>
  BY DEF Loop, history
<1>4. PlainTypes'
  <2>1. /\ coordinator' \in [Generations -> {"none", "loop", "collect", "done"}]
        /\ batch' \in [Generations -> SUBSET Items]
        /\ goal' \in [Generations -> MinBatch .. MaxBatch]
    BY <1>1, <1>2, <1>3, RoundFacts
  <2>2. QED BY <1>3, <2>1 DEF PlainTypes
<1>5. batch' = batch
  BY <1>1, <1>2 DEF NextRound, PlainTypes
<1>6. TaskTypes' /\ PermitsAdd' /\ Futures' /\ ItemsInOnePlace'
  BY <1>3, <1>5, TasksUnchanged, FuturesUnchanged, PlacesUnchanged
<1>7. Sizes'
  <2>1. \A d \in Generations : IsFiniteSet(batch'[d]) /\ Cardinality(batch'[d]) < goal'[d]
    BY <1>1, <1>2, <1>3, RoundFacts
  <2>2. QED BY <1>3, <2>1 DEF Sizes
<1>8. Lifecycle'
  <2>1. /\ starts > 0
        /\ \A d \in Generations : coordinator'[d] # "collect" => batch'[d] = {}
        /\ \A d \in Generations : d > starts => coordinator'[d] = "none"
    BY <1>1, <1>2, <1>3, RoundFacts
  <2>2. QED BY <1>3, <2>1 DEF Lifecycle
<1>9. QED BY <1>4, <1>6, <1>7, <1>8

\* A batch is dispatched with `more`, nothing or the head of the queue, added to it.
LEMMA DispatchStep ==
  ASSUME PoolInv, NEW c \in Generations, coordinator[c] = "collect",
         NEW more \in SUBSET InQueue, NEW depth \in Nat,
         DispatchFull(c, batch[c] \cup more, depth),
         IsFiniteSet(batch[c] \cup more),
         Cardinality(batch[c] \cup more) \in 1 .. MaxBatch,
         queue' \in Seq(Items), IsInjective(queue'), ToSet(queue') = ToSet(queue) \ more,
         UNCHANGED <<running, starts, unfinished, future, permits, stopper, history>>
  PROVE  PoolInv'
<1> USE DEF PoolInv
<1> DEFINE items == batch[c] \cup more
           new == Task(items, 0, "created")
<1>1. NextRound(c, depth) /\ tasks' = tasks \cup {new}
  BY DEF DispatchFull
<1>2. new.batch = items /\ new.sem = 0 /\ new.phase = "created"
  BY DEF Task
<1>3. items \subseteq Items
  BY DEF PlainTypes, InQueue, ToSet
<1>4. UNCHANGED <<abandoned, overlapped>>
  BY DEF history
<1>5. PlainTypes'
  <2>1. /\ coordinator' \in [Generations -> {"none", "loop", "collect", "done"}]
        /\ batch' \in [Generations -> SUBSET Items]
        /\ goal' \in [Generations -> MinBatch .. MaxBatch]
    BY <1>1, RoundFacts
  <2>2. QED BY <1>4, <2>1 DEF PlainTypes
<1>6. TaskTypes'
  BY <1>1, <1>2, <1>3 DEF TaskTypes
<1>7. PermitsAdd'
  <2>1. \A g \in Generations : Holders(g)' = Holders(g)
    BY <1>1, <1>2 DEF Holders
  <2>2. QED BY <2>1 DEF PermitsAdd
<1>8. Sizes'
  <2>1. \A d \in Generations : IsFiniteSet(batch'[d]) /\ Cardinality(batch'[d]) < goal'[d]
    BY <1>1, RoundFacts
  <2>2. IsFiniteSet(tasks')
    BY <1>1, FS_AddElement DEF Sizes
  <2>3. QED BY <1>1, <1>2, <2>1, <2>2 DEF Sizes
<1>9. Lifecycle'
  <2>1. /\ starts > 0
        /\ \A d \in Generations : coordinator'[d] # "collect" => batch'[d] = {}
        /\ \A d \in Generations : d > starts => coordinator'[d] = "none"
    BY <1>1, RoundFacts
  <2>2. QED BY <2>1 DEF Lifecycle
<1>10. Futures'
  BY FuturesUnchanged
<1>11. ItemsInOnePlace'
  <2>1. \A d \in Generations : batch'[d] = IF d = c THEN {} ELSE batch[d]
    BY <1>1, RoundFacts
  <2>2. items \subseteq InBatches \cup InQueue
    BY DEF InBatches
  <2>3. InBatches' = InBatches \ batch[c]
    BY <2>1 DEF InBatches, ItemsInOnePlace
  <2>4. InTasks' = InTasks \cup items
    BY <1>1, <1>2 DEF InTasks
  <2>5. InQueue' = InQueue \ more
    BY DEF InQueue
  <2>6. \A c1, c2 \in Generations : c1 # c2 => batch'[c1] \cap batch'[c2] = {}
    BY <2>1 DEF ItemsInOnePlace
  <2>7. \A t \in tasks : t.batch \cap items = {}
    BY <2>2 DEF ItemsInOnePlace, InTasks
  <2>8. \A t, u \in tasks' : t # u => t.batch \cap u.batch = {}
    BY <1>1, <1>2, <2>7 DEF ItemsInOnePlace
  <2>9. more \cap InBatches = {} /\ batch[c] \subseteq InBatches
    BY DEF ItemsInOnePlace, InBatches
  <2>10. QED BY <1>4, <2>3, <2>4, <2>5, <2>6, <2>8, <2>9 DEF ItemsInOnePlace
<1>12. QED BY <1>5, <1>6, <1>7, <1>8, <1>9, <1>10, <1>11

LEMMA GetStep ==
  ASSUME PoolInv, NEW c \in Generations, Get(c)
  PROVE  PoolInv'
<1> USE DEF PoolInv
<1> DEFINE x == Head(queue)
           items == batch[c] \cup {x}
<1>1. /\ queue' = Tail(queue) /\ queue # <<>> /\ queue \in Seq(Items) /\ IsInjective(queue)
  BY DEF Get, PlainTypes, ItemsInOnePlace
<1>2. /\ queue' \in Seq(Items) /\ IsInjective(queue')
      /\ ToSet(queue') = ToSet(queue) \ {x}
      /\ x \in InQueue /\ x \in Items
  BY <1>1, TailOfQueue DEF InQueue
<1>3. /\ coordinator[c] = "collect"
      /\ UNCHANGED <<running, starts, unfinished, future, permits, stopper, history>>
  BY DEF Get
<1>4. x \notin batch[c]
  BY <1>2 DEF ItemsInOnePlace, InBatches
<1>5. IsFiniteSet(items) /\ Cardinality(items) = Cardinality(batch[c]) + 1
  BY <1>4, FS_AddElement DEF Sizes
<1>6. /\ Cardinality(batch[c]) \in Nat /\ goal[c] \in MinBatch .. MaxBatch
      /\ Cardinality(batch[c]) < goal[c]
  BY FS_CardinalityType DEF Sizes, PlainTypes
<1>7. CASE /\ Cardinality(items) < goal[c]
           /\ batch' = [batch EXCEPT ![c] = items]
           /\ UNCHANGED <<coordinator, goal, tasks>>
  <2>1. \A d \in Generations : batch'[d] = IF d = c THEN items ELSE batch[d]
    BY <1>7 DEF PlainTypes
  <2>2. UNCHANGED <<abandoned, overlapped>>
    BY <1>3 DEF history
  <2>3. PlainTypes'
    BY <1>2, <1>3, <1>7, <2>2 DEF PlainTypes
  <2>4. TaskTypes' /\ PermitsAdd' /\ Futures'
    BY <1>3, <1>7, TasksUnchanged, FuturesUnchanged
  <2>5. Sizes'
    BY <1>5, <1>7, <2>1 DEF Sizes
  <2>6. Lifecycle'
    BY <1>3, <1>7, <2>1 DEF Lifecycle
  <2>7. ItemsInOnePlace'
    <3>1. InQueue' = InQueue \ {x} /\ InTasks' = InTasks
      BY <1>2, <1>7 DEF InQueue, InTasks
    <3>2. InBatches' = InBatches \cup {x}
      BY <2>1 DEF InBatches
    <3>3. \A d \in Generations : x \notin batch[d]
      BY <1>2 DEF ItemsInOnePlace, InBatches
    <3>4. \A d, e \in Generations : d # e => batch'[d] \cap batch'[e] = {}
      BY <2>1, <3>3 DEF ItemsInOnePlace
    <3>5. \A t, u \in tasks' : t # u => t.batch \cap u.batch = {}
      BY <1>7 DEF ItemsInOnePlace
    <3>6. QED BY <1>2, <1>3, <2>2, <3>1, <3>2, <3>4, <3>5 DEF ItemsInOnePlace
  <2>8. QED BY <2>3, <2>4, <2>5, <2>6, <2>7
<1>8. CASE Cardinality(items) >= goal[c] /\ DispatchFull(c, items, Len(queue) - 1)
  <2>1. Len(queue) - 1 \in Nat
    BY <1>1
  <2>2. Cardinality(items) \in 1 .. MaxBatch
    BY <1>5, <1>6, PoolAssumption
  <2>3. {x} \in SUBSET InQueue
    BY <1>2
  <2>4. QED BY <1>2, <1>3, <1>5, <1>8, <2>1, <2>2, <2>3, DispatchStep
<1>9. QED BY <1>7, <1>8 DEF Get

LEMMA DeadlineStep ==
  ASSUME PoolInv, NEW c \in Generations, Deadline(c)
  PROVE  PoolInv'
<1> USE DEF PoolInv
<1>1. /\ coordinator[c] = "collect" /\ batch[c] # {}
      /\ DispatchFull(c, batch[c] \cup {}, Len(queue))
      /\ UNCHANGED <<running, starts, queue, unfinished, future, permits, stopper, history>>
  BY DEF Deadline
<1>2. IsFiniteSet(batch[c]) /\ Cardinality(batch[c]) < goal[c] /\ goal[c] \in MinBatch .. MaxBatch
  BY DEF Sizes, PlainTypes
<1>3. Cardinality(batch[c] \cup {}) \in 1 .. MaxBatch
  <2>1. Cardinality(batch[c]) \in Nat /\ Cardinality(batch[c]) # 0
    BY <1>1, <1>2, FS_CardinalityType, FS_EmptySet
  <2>2. Cardinality(batch[c]) \in 1 .. MaxBatch
    BY <1>2, <2>1, PoolAssumption
  <2>3. QED BY <2>2
<1>4. IsFiniteSet(batch[c] \cup {})
  BY <1>2
<1>5. /\ Len(queue) \in Nat /\ queue' \in Seq(Items) /\ IsInjective(queue')
      /\ ToSet(queue') = ToSet(queue) \ {}
  BY <1>1 DEF PlainTypes, ItemsInOnePlace
<1>6. {} \in SUBSET InQueue
  OBVIOUS
<1>7. QED BY <1>1, <1>3, <1>4, <1>5, <1>6, DispatchStep

LEMMA GetTimeoutStep ==
  ASSUME PoolInv, NEW c \in Generations, GetTimeout(c)
  PROVE  PoolInv'
<1> USE DEF PoolInv
<1>1. UNCHANGED <<running, starts, queue, unfinished, future, batch, goal, tasks, permits,
                  stopper, abandoned, overlapped>>
  BY DEF GetTimeout, history
<1>2. PlainTypes'
  BY <1>1 DEF PlainTypes, GetTimeout
<1>3. TaskTypes' /\ PermitsAdd' /\ Sizes' /\ Futures' /\ ItemsInOnePlace'
  BY <1>1, TasksUnchanged, SizesUnchanged, FuturesUnchanged, PlacesUnchanged
<1>4. Lifecycle'
  BY <1>1 DEF Lifecycle, GetTimeout, PlainTypes
<1>5. QED BY <1>2, <1>3, <1>4

-----------------------------------------------------------------------------
(***************************************************************************)
(* A dispatch task.                                                        *)
(***************************************************************************)
\* A task goes on to another phase with the same batch.
LEMMA ReplaceTask ==
  ASSUME PoolInv, NEW t \in tasks, NEW n, n.batch = t.batch,
         n.phase \in {"created", "waiting", "running"},
         n.sem \in Generations, tasks' = (tasks \ {t}) \cup {n},
         UNCHANGED <<starts, queue, unfinished, coordinator, batch, goal, abandoned>>
  PROVE  TaskTypes' /\ Sizes' /\ Lifecycle' /\ ItemsInOnePlace'
<1> USE DEF PoolInv
<1>1. TaskTypes'
  BY DEF TaskTypes
<1>2. Sizes'
  <2>1. IsFiniteSet(tasks')
    BY FS_AddElement, FS_RemoveElement DEF Sizes
  <2>2. QED BY <2>1 DEF Sizes
<1>3. Lifecycle'
  BY DEF Lifecycle
<1>4. ItemsInOnePlace'
  <2>1. InTasks' = InTasks
    BY DEF InTasks
  <2>2. InQueue' = InQueue /\ InBatches' = InBatches
    BY DEF InQueue, InBatches
  <2>3. \A u, w \in tasks' : u # w => u.batch \cap w.batch = {}
    BY DEF ItemsInOnePlace
  <2>4. QED BY <2>1, <2>2, <2>3 DEF ItemsInOnePlace
<1>5. QED BY <1>1, <1>2, <1>3, <1>4

\* No other task has the batch of a task.
LEMMA TaskOfBatch ==
  ASSUME PoolInv, NEW t \in tasks, NEW u \in tasks, u.batch = t.batch
  PROVE  u = t
<1>1. t.batch # {}
  BY FS_EmptySet DEF PoolInv, TaskTypes
<1>2. QED BY <1>1 DEF PoolInv, ItemsInOnePlace

LEMMA HoldersFinite ==
  ASSUME PoolInv, NEW g
  PROVE  IsFiniteSet(Holders(g)) /\ Cardinality(Holders(g)) \in Nat
  BY FS_Subset, FS_CardinalityType DEF PoolInv, Sizes, Holders

LEMMA ReachSemaphoreStep ==
  ASSUME PoolInv, NEW t \in tasks, ReachSemaphore(t)
  PROVE  PoolInv'
<1> USE DEF PoolInv
<1> DEFINE n == Task(t.batch, starts, "waiting")
<1>1. UNCHANGED <<running, starts, queue, unfinished, future, coordinator, batch, goal,
                  permits, stopper, abandoned, overlapped>>
  BY DEF ReachSemaphore, collecting, history
<1>2. n.batch = t.batch /\ n.sem = starts /\ n.phase = "waiting"
  BY DEF Task
<1>3. tasks' = (tasks \ {t}) \cup {n} /\ t.phase = "created"
  BY DEF ReachSemaphore
<1>4. n.sem \in Generations
  BY <1>2 DEF Lifecycle, PlainTypes, Generations
<1>5. TaskTypes' /\ Sizes' /\ Lifecycle' /\ ItemsInOnePlace'
  BY <1>1, <1>2, <1>3, <1>4, ReplaceTask
<1>6. PlainTypes'
  BY <1>1 DEF PlainTypes
<1>7. PermitsAdd'
  <2>1. \A g \in Generations : Holders(g)' = Holders(g)
    BY <1>2, <1>3 DEF Holders
  <2>2. QED BY <1>1, <2>1 DEF PermitsAdd
<1>8. Futures'
  BY <1>1, FuturesUnchanged
<1>9. QED BY <1>5, <1>6, <1>7, <1>8

LEMMA AcquireStep ==
  ASSUME PoolInv, NEW t \in tasks, Acquire(t)
  PROVE  PoolInv'
<1> USE DEF PoolInv
<1> DEFINE n == Task(t.batch, t.sem, "running")
<1>1. UNCHANGED <<running, starts, queue, unfinished, future, coordinator, batch, goal,
                  stopper, abandoned, overlapped>>
  BY DEF Acquire, collecting, history
<1>2. n.batch = t.batch /\ n.sem = t.sem /\ n.phase = "running"
  BY DEF Task
<1>3. /\ tasks' = (tasks \ {t}) \cup {n} /\ t.phase = "waiting"
      /\ permits[t.sem] > 0 /\ permits' = [permits EXCEPT ![t.sem] = @ - 1]
  BY DEF Acquire
<1>4. n.sem \in Generations
  BY <1>2, <1>3 DEF TaskTypes
<1>5. TaskTypes' /\ Sizes' /\ Lifecycle' /\ ItemsInOnePlace'
  BY <1>1, <1>2, <1>3, <1>4, ReplaceTask
<1>6. permits' \in [Generations -> 0 .. MaxWorkers]
  BY <1>2, <1>3, <1>4, PoolAssumption DEF PlainTypes
<1>7. PlainTypes'
  BY <1>1, <1>6 DEF PlainTypes
<1>8. PermitsAdd'
  <2>1. n \notin tasks
    BY <1>2, <1>3, TaskOfBatch
  <2>2. Holders(t.sem)' = Holders(t.sem) \cup {n} /\ n \notin Holders(t.sem)
    BY <1>2, <1>3, <2>1 DEF Holders
  <2>3. Cardinality(Holders(t.sem)') = Cardinality(Holders(t.sem)) + 1
    BY <2>2, HoldersFinite, FS_AddElement
  <2>4. \A g \in Generations : g # t.sem => Holders(g)' = Holders(g)
    BY <1>2, <1>3 DEF Holders
  <2>5. \A g \in Generations : permits'[g] = IF g = t.sem THEN permits[g] - 1 ELSE permits[g]
    BY <1>3 DEF PlainTypes
  <2>6. \A g \in Generations : permits[g] \in Nat /\ Cardinality(Holders(g)) \in Nat
    BY HoldersFinite, PoolAssumption DEF PlainTypes
  <2>7. ASSUME NEW g \in Generations
        PROVE  permits'[g] + Cardinality(Holders(g)') = MaxWorkers
    <3>1. permits[g] + Cardinality(Holders(g)) = MaxWorkers
      BY DEF PermitsAdd
    <3>2. CASE g = t.sem
      BY <2>3, <2>5, <2>6, <3>1, <3>2
    <3>3. CASE g # t.sem
      BY <2>4, <2>5, <3>1, <3>3
    <3>4. QED BY <3>2, <3>3
  <2>8. QED BY <2>7 DEF PermitsAdd
<1>9. Futures'
  BY <1>1, FuturesUnchanged
<1>10. QED BY <1>5, <1>7, <1>8, <1>9

LEMMA ReturnStep ==
  ASSUME PoolInv, NEW t \in tasks, NEW outcome \in {"done", "failed"},
         HandlerReturns(t, outcome)
  PROVE  PoolInv'
<1> USE DEF PoolInv
<1>1. UNCHANGED <<running, starts, queue, coordinator, batch, goal, abandoned, overlapped>>
  BY DEF HandlerReturns, collecting, history
<1>2. /\ t.phase = "running" /\ tasks' = tasks \ {t}
      /\ unfinished' = unfinished \ t.batch
      /\ permits' = [permits EXCEPT ![t.sem] = @ + 1]
  BY DEF HandlerReturns
<1>3. t.sem \in Generations
  BY <1>2 DEF TaskTypes
<1>4. /\ future' \in [Items -> {"none", "pending", "done", "failed", "cancelled"}]
      /\ \A i \in Items :
           future'[i] = IF i \in t.batch /\ future[i] = "pending" THEN outcome ELSE future[i]
  BY DEF HandlerReturns, PlainTypes
<1>5. t \in Holders(t.sem) /\ Holders(t.sem)' = Holders(t.sem) \ {t}
  BY <1>2 DEF Holders
<1>6. /\ Cardinality(Holders(t.sem)) \in Nat
      /\ Cardinality(Holders(t.sem)') = Cardinality(Holders(t.sem)) - 1
      /\ Cardinality(Holders(t.sem)') \in Nat
  <2>1. IsFiniteSet(Holders(t.sem)) /\ Cardinality(Holders(t.sem)) \in Nat
    BY HoldersFinite
  <2>2. QED BY <1>5, <2>1, FS_RemoveElement, FS_CardinalityType
<1>7. permits[t.sem] \in Nat /\ permits[t.sem] + Cardinality(Holders(t.sem)) = MaxWorkers
  BY <1>3, PoolAssumption DEF PermitsAdd, PlainTypes
<1>8. permits[t.sem] + 1 \in 0 .. MaxWorkers
  BY <1>6, <1>7, PoolAssumption
<1>9. PlainTypes'
  <2>1. permits' \in [Generations -> 0 .. MaxWorkers]
    BY <1>2, <1>3, <1>8 DEF PlainTypes
  <2>2. stopper' \in {"none", "join", "joined"}
    BY DEF PlainTypes, HandlerReturns
  <2>3. unfinished' \subseteq Items
    BY <1>2 DEF PlainTypes
  <2>4. QED BY <1>1, <1>4, <2>1, <2>2, <2>3 DEF PlainTypes
<1>10. TaskTypes'
  BY <1>2 DEF TaskTypes
<1>11. PermitsAdd'
  <2>1. \A g \in Generations : g # t.sem => Holders(g)' = Holders(g)
    BY <1>2 DEF Holders
  <2>2. \A g \in Generations : permits'[g] = IF g = t.sem THEN permits[g] + 1 ELSE permits[g]
    BY <1>2 DEF PlainTypes
  <2>3. ASSUME NEW g \in Generations
        PROVE  permits'[g] + Cardinality(Holders(g)') = MaxWorkers
    <3>1. CASE g = t.sem
      BY <1>6, <1>7, <2>2, <3>1, PoolAssumption
    <3>2. CASE g # t.sem
      BY <2>1, <2>2, <3>2 DEF PermitsAdd
    <3>3. QED BY <3>1, <3>2
  <2>4. QED BY <2>3 DEF PermitsAdd
<1>12. Sizes'
  BY <1>1, <1>2, FS_RemoveElement DEF Sizes
<1>13. Lifecycle'
  BY <1>1, <1>2 DEF Lifecycle
<1>14. Futures'
  BY <1>2, <1>4 DEF Futures, PlainTypes
<1>15. ItemsInOnePlace'
  <2>1. InQueue' = InQueue /\ InBatches' = InBatches
    BY <1>1 DEF InQueue, InBatches
  <2>2. t.batch \subseteq InTasks /\ InTasks' = InTasks \ t.batch
    BY <1>2 DEF InTasks, ItemsInOnePlace
  <2>3. \A u, w \in tasks' : u # w => u.batch \cap w.batch = {}
    BY <1>2 DEF ItemsInOnePlace
  <2>4. QED BY <1>1, <1>2, <2>1, <2>2, <2>3 DEF ItemsInOnePlace
<1>16. QED BY <1>9, <1>10, <1>11, <1>12, <1>13, <1>14, <1>15

-----------------------------------------------------------------------------
(***************************************************************************)
(* The theorems.                                                           *)
(***************************************************************************)
LEMMA PoolStutter == PoolInv /\ UNCHANGED vars => PoolInv'
<1> SUFFICES ASSUME PoolInv, UNCHANGED vars
             PROVE  PoolInv'
  OBVIOUS
<1> USE DEF PoolInv, vars, collecting, history
<1>1. PlainTypes'
  BY DEF PlainTypes
<1>2. TaskTypes' /\ PermitsAdd' /\ Sizes' /\ Futures' /\ ItemsInOnePlace'
  BY TasksUnchanged, SizesUnchanged, FuturesUnchanged, PlacesUnchanged
<1>3. Lifecycle'
  BY DEF Lifecycle
<1>4. QED BY <1>1, <1>2, <1>3

\* Whatever the callers, the handler and the clock do, the invariant holds.
THEOREM PoolInvariant == Spec => []PoolInv
<1>1. Init => PoolInv
  BY PoolInit
<1>2. PoolInv /\ [Next]_vars => PoolInv'
  <2> SUFFICES ASSUME PoolInv, [Next]_vars
               PROVE  PoolInv'
    OBVIOUS
  <2>1. CASE Start
    BY <2>1, StartStep
  <2>2. CASE StopNow
    BY <2>2, CancelStep DEF StopNow
  <2>3. CASE StopDrain
    BY <2>3, StopDrainStep
  <2>4. CASE StopEnd
    <3>1. running' \in BOOLEAN
      BY <2>4 DEF StopEnd, PoolInv, PlainTypes
    <3>2. QED BY <2>4, <3>1, CancelStep DEF StopEnd
  <2>5. ASSUME NEW i \in Items, Put(i) \/ CancelFuture(i)
        PROVE  PoolInv'
    BY <2>5, PutStep, CancelFutureStep
  <2>6. ASSUME NEW c \in Generations, Coordinate(c)
        PROVE  PoolInv'
    BY <2>6, LoopStep, GetStep, DeadlineStep, GetTimeoutStep DEF Coordinate
  <2>7. ASSUME NEW t \in tasks, ReachSemaphore(t) \/ Acquire(t) \/ Return(t)
        PROVE  PoolInv'
    BY <2>7, ReachSemaphoreStep, AcquireStep, ReturnStep DEF Return
  <2>8. CASE UNCHANGED vars
    BY <2>8, PoolStutter
  <2>9. QED BY <2>1, <2>2, <2>3, <2>4, <2>5, <2>6, <2>7, <2>8 DEF Next
<1>3. QED BY <1>1, <1>2, PTL DEF Spec

\* Types, the largest batch, and that a semaphore's permits are free or held: no more
\* than max_workers handlers run under one semaphore.
THEOREM PoolTypeCorrect == Spec => []TypeOK
<1>1. PoolInv => TypeOK
  BY TypeOKParts DEF PoolInv
<1>2. QED BY <1>1, PoolInvariant, PTL

\* No step of any coordinator, old or new, hands a request to two batches or drops it.
THEOREM RequestsInOnePlace == Spec => []ItemsInOnePlace
<1>1. PoolInv => ItemsInOnePlace
  BY DEF PoolInv
<1>2. QED BY <1>1, PoolInvariant, PTL

\* join() returns only when no caller waits for an answer.
THEOREM JoinSound == Spec => []JoinMeansAnswered
<1>1. PoolInv => JoinMeansAnswered
  BY DEF PoolInv, Futures, JoinMeansAnswered
<1>2. QED BY <1>1, PoolInvariant, PTL

-----------------------------------------------------------------------------
(***************************************************************************)
(* QueryScheduler.                                                         *)
(***************************************************************************)
\* Queries inside schedule(), in the pool's queue and in its threads.
Called == {query[c].num : c \in {d \in Callers : callPc[d] # "idle"}}
Queued == {backlog[i] : i \in 1 .. Len(backlog)}
Executing == {workerRuns[w] : w \in Workers} \ {0}

\* Every query is in one place: with its caller, in the queue of the pool, in one thread,
\* answered or refused, so that its future is set once and no query is run twice
\* (schedule and _run_task).
QueryInOnePlace ==
  /\ \A c, d \in Callers : c # d /\ callPc[c] # "idle" /\ callPc[d] # "idle" => query[c].num # query[d].num
  /\ \A i, j \in 1 .. Len(backlog) : i # j => backlog[i] # backlog[j]
  /\ \A v, w \in Workers : v # w /\ workerRuns[v] # 0 => workerRuns[v] # workerRuns[w]
  /\ Called \cap (Queued \cup Executing \cup answered \cup refused) = {}
  /\ Queued \cap (Executing \cup answered \cup refused) = {}
  /\ Executing \cap (answered \cup refused) = {}
  /\ answered \cap refused = {}
  /\ Called \cup Queued \cup Executing \cup answered \cup refused = 1 .. queries

\* No tenant is ever in debt or has more than its burst, and who waits for its own lock
\* has it (schedule and _refill_loop).
CreditsInBounds ==
  /\ \A t \in DOMAIN credits : credits[t] \in 0 .. Burst
  /\ lockedBy = {c \in Callers : callPc[c] = "self"}

SchedTypes ==
  /\ queries \in Nat
  /\ credits \in [DOMAIN credits -> 0 .. Burst]
  /\ callPc \in [Callers -> {"idle", "self", "pay", "submit"}]
  /\ DOMAIN query = Callers
  /\ \A c \in Callers : callPc[c] # "idle" =>
       query[c].num \in 1 .. queries /\ query[c].tenant \in Tenants /\ query[c].cost \in Costs
  /\ \A c \in Callers : callPc[c] \in {"pay", "submit"} => query[c].tenant \in DOMAIN credits
  /\ backlog \in Seq(1 .. queries)
  /\ workerRuns \in [Workers -> 0 .. queries]

SchedInv == SchedTypes /\ QueryInOnePlace /\ CreditsInBounds

LEMMA SchedInvInit == SchedInit => SchedInv
<1> SUFFICES ASSUME SchedInit PROVE SchedInv
  OBVIOUS
<1>1. SchedTypes
  BY DEF SchedInit, SchedTypes
<1>2. Called = {} /\ Queued = {} /\ Executing = {}
  BY DEF SchedInit, Called, Queued, Executing
<1>3. QueryInOnePlace
  BY <1>2 DEF SchedInit, QueryInOnePlace
<1>4. CreditsInBounds
  BY DEF SchedInit, CreditsInBounds
<1> QED
  BY <1>1, <1>3, <1>4 DEF SchedInv

\* What a step leaves alone of a query's place.
LEMMA QueryPlacesStay ==
  /\ UNCHANGED <<callPc, query>> => Called' = Called
  /\ UNCHANGED backlog => Queued' = Queued
  /\ UNCHANGED workerRuns => Executing' = Executing
  BY DEF Called, Queued, Executing

LEMMA RegisterKeeps ==
  ASSUME SchedInv, NEW c \in Callers, NEW t \in Tenants, RegisterTenant(c, t)
  PROVE  SchedInv'
<1>1. UNCHANGED <<schedulerOn, lockedBy, callPc, query, backlog, workerRuns, queries, answered, refused>>
      /\ credits' = [u \in DOMAIN credits \cup {t} |-> IF u = t THEN Burst ELSE credits[u]]
  BY DEF RegisterTenant
<1>2. QueryInOnePlace'
  BY <1>1, QueryPlacesStay DEF SchedInv, QueryInOnePlace
<1>3. Burst \in 0 .. Burst
  BY SchedulerAssumption
<1>4. credits' \in [DOMAIN credits' -> 0 .. Burst] /\ DOMAIN credits \subseteq DOMAIN credits'
  BY <1>1, <1>3 DEF SchedInv, SchedTypes
<1>5. SchedTypes'
  BY <1>1, <1>4 DEF SchedInv, SchedTypes
<1>6. CreditsInBounds'
  BY <1>1, <1>4 DEF SchedInv, CreditsInBounds
<1> QED
  BY <1>2, <1>5, <1>6 DEF SchedInv

LEMMA ScheduleKeeps ==
  ASSUME SchedInv, NEW c \in Callers, NEW t \in Tenants, NEW cost \in Costs, Schedule(c, t, cost)
  PROVE  SchedInv'
<1>1. PICK n : n = queries + 1
  OBVIOUS
<1>2. /\ callPc[c] = "idle" /\ lockedBy = {} /\ queries' = n
      /\ query' = [query EXCEPT ![c] = [num |-> n, tenant |-> t, cost |-> cost]]
      /\ \/ t \in DOMAIN credits /\ callPc' = [callPc EXCEPT ![c] = "pay"] /\ lockedBy' = lockedBy
         \/ callPc' = [callPc EXCEPT ![c] = "self"] /\ lockedBy' = {c}
      /\ UNCHANGED <<credits, backlog, workerRuns, answered, refused>>
  BY <1>1 DEF Schedule
<1>3. queries \in Nat /\ n \in Nat /\ n \in 1 .. n /\ 1 .. n = (1 .. queries) \cup {n}
      /\ n \notin 1 .. queries /\ 1 .. queries \subseteq 1 .. n /\ 0 .. queries \subseteq 0 .. n
  BY <1>1 DEF SchedInv, SchedTypes
<1>4. query'[c].num = n /\ query'[c].tenant = t /\ query'[c].cost = cost /\ callPc'[c] # "idle"
      /\ \A d \in Callers : d # c => query'[d] = query[d] /\ callPc'[d] = callPc[d]
  BY <1>2 DEF SchedInv, SchedTypes
<1>5. Called' = Called \cup {n}
  BY <1>2, <1>4 DEF Called
<1>6. Queued' = Queued /\ Executing' = Executing
  BY <1>2, QueryPlacesStay
<1>7. QueryInOnePlace'
  <2>1. \A b, d \in Callers : b # d /\ callPc'[b] # "idle" /\ callPc'[d] # "idle" =>
          query'[b].num # query'[d].num
    BY <1>3, <1>4 DEF SchedInv, SchedTypes, QueryInOnePlace
  <2>2. n \notin Queued \cup Executing \cup answered \cup refused
    BY <1>3 DEF SchedInv, QueryInOnePlace
  <2> QED
    BY <1>2, <1>3, <1>5, <1>6, <2>1, <2>2 DEF SchedInv, QueryInOnePlace
<1>8. SchedTypes'
  <2>1. callPc' \in [Callers -> {"idle", "self", "pay", "submit"}] /\ DOMAIN query' = Callers
    BY <1>2 DEF SchedInv, SchedTypes
  <2>2. backlog' \in Seq(1 .. n) /\ workerRuns' \in [Workers -> 0 .. n]
    BY <1>2, <1>3 DEF SchedInv, SchedTypes
  <2>3. ASSUME NEW d \in Callers, callPc'[d] # "idle"
        PROVE  query'[d].num \in 1 .. n /\ query'[d].tenant \in Tenants /\ query'[d].cost \in Costs
    BY <1>3, <1>4, <2>3 DEF SchedInv, SchedTypes
  <2>4. ASSUME NEW d \in Callers, callPc'[d] \in {"pay", "submit"}
        PROVE  query'[d].tenant \in DOMAIN credits
    BY <1>2, <1>4, <2>4 DEF SchedInv, SchedTypes
  <2> QED
    BY <1>2, <1>3, <2>1, <2>2, <2>3, <2>4 DEF SchedInv, SchedTypes
<1>9. CreditsInBounds'
  <2>1. \A d \in Callers : callPc[d] # "self"
    BY <1>2 DEF SchedInv, CreditsInBounds
  <2>2. lockedBy' = {d \in Callers : callPc'[d] = "self"}
    BY <1>2, <1>4, <2>1 DEF SchedInv, SchedTypes
  <2> QED
    BY <1>2, <2>2 DEF SchedInv, CreditsInBounds
<1> QED
  BY <1>7, <1>8, <1>9 DEF SchedInv

\* A caller is done with its query, which goes to one other place.
LEMMA CallerLeaves ==
  ASSUME SchedInv, NEW c \in Callers, callPc[c] \in {"pay", "submit"},
         callPc' = [callPc EXCEPT ![c] = "idle"], UNCHANGED <<lockedBy, credits, query, workerRuns, queries>>,
         NEW n, n = query[c].num,
         \/ answered' = answered \cup {n} /\ UNCHANGED <<backlog, refused>>
         \/ refused' = refused \cup {n} /\ UNCHANGED <<backlog, answered>>
         \/ backlog' = Append(backlog, n) /\ UNCHANGED <<answered, refused>>
  PROVE  SchedInv'
<1>1. callPc'[c] = "idle" /\ \A d \in Callers : d # c => callPc'[d] = callPc[d]
  BY DEF SchedInv, SchedTypes
<1>2. n \in 1 .. queries /\ n \in Called
  BY DEF SchedInv, SchedTypes, Called
<1>3. Called' = Called \ {n}
  <2>1. \A d \in Callers : d # c /\ callPc[d] # "idle" => query[d].num # n
    BY DEF SchedInv, QueryInOnePlace
  <2> QED
    BY <1>1, <2>1 DEF Called
<1>4. Executing' = Executing
  BY QueryPlacesStay
<1>5. n \notin Queued \cup Executing \cup answered \cup refused
  BY <1>2 DEF SchedInv, QueryInOnePlace
<1>6. \A b, d \in Callers : b # d /\ callPc'[b] # "idle" /\ callPc'[d] # "idle" =>
        query'[b].num # query'[d].num
  BY <1>1 DEF SchedInv, QueryInOnePlace
<1>7. /\ backlog' \in Seq(1 .. queries)
      /\ \A i, j \in 1 .. Len(backlog') : i # j => backlog'[i] # backlog'[j]
      /\ Queued' = Queued \/ (Queued' = Queued \cup {n} /\ UNCHANGED <<answered, refused>>)
      /\ Queued' = Queued => answered' \cup refused' = answered \cup refused \cup {n}
  <2>1. CASE UNCHANGED backlog /\ answered' \cup refused' = answered \cup refused \cup {n}
    <3>1. Queued' = Queued
      BY <2>1, QueryPlacesStay
    <3>2. backlog \in Seq(1 .. queries) /\ \A k, l \in 1 .. Len(backlog) : k # l => backlog[k] # backlog[l]
      BY DEF SchedInv, SchedTypes, QueryInOnePlace
    <3> QED
      BY <2>1, <3>1, <3>2
  <2>2. CASE backlog' = Append(backlog, n) /\ UNCHANGED <<answered, refused>>
    <3>1. PICK m : m = Len(backlog)
      OBVIOUS
    <3>2. /\ m \in Nat /\ backlog' \in Seq(1 .. queries) /\ Len(backlog') = m + 1 /\ backlog'[m + 1] = n
          /\ \A i \in 1 .. m : backlog'[i] = backlog[i]
      BY <1>2, <2>2, <3>1 DEF SchedInv, SchedTypes
    <3>3. \A i \in 1 .. m : backlog[i] # n
      BY <1>5, <3>1 DEF Queued
    <3>4. \A i, j \in 1 .. m + 1 : i # j => backlog'[i] # backlog'[j]
      BY <3>1, <3>2, <3>3 DEF SchedInv, QueryInOnePlace
    <3>5. Queued' = Queued \cup {n}
      <4>1. Queued' = {backlog'[i] : i \in 1 .. m + 1}
        BY <3>2 DEF Queued
      <4>2. ASSUME NEW x \in Queued' PROVE x \in Queued \cup {n}
        <5>1. PICK i \in 1 .. m + 1 : x = backlog'[i]
          BY <4>1
        <5> QED
          BY <3>1, <3>2, <5>1 DEF Queued
      <4>3. ASSUME NEW x \in Queued \cup {n} PROVE x \in Queued'
        <5>1. CASE x = n
          BY <3>2, <4>1, <5>1
        <5>2. CASE x \in Queued
          <6>1. PICK i \in 1 .. m : x = backlog[i]
            BY <3>1, <5>2 DEF Queued
          <6>2. i \in 1 .. m + 1 /\ x = backlog'[i]
            BY <3>2, <6>1
          <6> QED
            BY <4>1, <6>2
        <5> QED
          BY <4>3, <5>1, <5>2
      <4> QED
        BY <4>2, <4>3
    <3>6. Queued' # Queued
      BY <1>5, <3>5
    <3> QED
      BY <2>2, <3>2, <3>4, <3>5, <3>6
  <2> QED
    BY <2>1, <2>2
<1>8. SchedTypes'
  BY <1>1, <1>7 DEF SchedInv, SchedTypes
<1>9. CreditsInBounds'
  BY <1>1 DEF SchedInv, CreditsInBounds
<1>10. QueryInOnePlace'
  <2>1. CASE Queued' = Queued
    <3>1. answered' \cap refused' = {}
      BY <1>5 DEF SchedInv, QueryInOnePlace
    <3>2. answered' \cup refused' = answered \cup refused \cup {n}
      BY <1>7, <2>1
    <3>3. /\ Called' \cap (Queued' \cup Executing' \cup answered' \cup refused') = {}
          /\ Queued' \cap (Executing' \cup answered' \cup refused') = {}
          /\ Executing' \cap (answered' \cup refused') = {}
          /\ Called' \cup Queued' \cup Executing' \cup answered' \cup refused' = 1 .. queries
      BY <1>2, <1>3, <1>4, <1>5, <2>1, <3>2 DEF SchedInv, QueryInOnePlace
    <3> QED
      BY <1>6, <1>7, <3>1, <3>3 DEF SchedInv, QueryInOnePlace
  <2>2. CASE Queued' = Queued \cup {n} /\ UNCHANGED <<answered, refused>>
    <3>1. /\ Called' \cap (Queued' \cup Executing' \cup answered' \cup refused') = {}
          /\ Queued' \cap (Executing' \cup answered' \cup refused') = {}
          /\ Executing' \cap (answered' \cup refused') = {} /\ answered' \cap refused' = {}
          /\ Called' \cup Queued' \cup Executing' \cup answered' \cup refused' = 1 .. queries
      BY <1>2, <1>3, <1>4, <1>5, <2>2 DEF SchedInv, QueryInOnePlace
    <3> QED
      BY <1>6, <1>7, <3>1 DEF SchedInv, QueryInOnePlace
  <2> QED
    BY <1>7, <2>1, <2>2
<1> QED
  BY <1>8, <1>9, <1>10 DEF SchedInv

LEMMA ConsumeKeeps ==
  ASSUME SchedInv, NEW c \in Callers, Consume(c)
  PROVE  SchedInv'
<1>1. PICK q : q = query[c]
  OBVIOUS
<1>2. callPc[c] = "pay" /\ UNCHANGED <<lockedBy, query, backlog, workerRuns, queries, refused>>
  BY DEF Consume
<1>3. CASE credits[q.tenant] < q.cost
  <2>1. q.tenant \in DOMAIN credits /\ q.cost \in Nat /\ credits[q.tenant] \in Nat
    BY <1>1, <1>2, SchedulerAssumption DEF SchedInv, SchedTypes
  <2>2. ~ credits[q.tenant] >= q.cost
    BY <1>3, <2>1
  <2>3. answered' = answered \cup {q.num} /\ callPc' = [callPc EXCEPT ![c] = "idle"] /\ UNCHANGED credits
    BY <1>1, <2>2 DEF Consume
  <2> QED
    BY <1>1, <1>2, <2>3, CallerLeaves
<1>4. CASE credits[q.tenant] >= q.cost
  <2>1. /\ credits' = [credits EXCEPT ![q.tenant] = @ - q.cost]
        /\ callPc' = [callPc EXCEPT ![c] = "submit"] /\ UNCHANGED answered
    BY <1>1, <1>4 DEF Consume
  <2>2. callPc'[c] = "submit" /\ \A d \in Callers : d # c => callPc'[d] = callPc[d]
    BY <2>1 DEF SchedInv, SchedTypes
  <2>3. Called' = Called
    BY <1>2, <2>2 DEF Called
  <2>4. Queued' = Queued /\ Executing' = Executing
    BY <1>2, QueryPlacesStay
  <2>5. QueryInOnePlace'
    BY <1>2, <2>1, <2>2, <2>3, <2>4 DEF SchedInv, QueryInOnePlace
  <2>6. q.tenant \in DOMAIN credits /\ q.cost \in Nat /\ credits[q.tenant] \in 0 .. Burst
    BY <1>1, <1>2, SchedulerAssumption DEF SchedInv, SchedTypes
  <2>7. credits[q.tenant] - q.cost \in 0 .. Burst
    BY <1>4, <2>6, SchedulerAssumption
  <2>8. credits' \in [DOMAIN credits -> 0 .. Burst]
    BY <2>1, <2>7 DEF SchedInv, SchedTypes
  <2>9. SchedTypes'
    BY <1>2, <2>2, <2>8, <2>1 DEF SchedInv, SchedTypes
  <2>10. CreditsInBounds'
    BY <1>2, <2>2, <2>8 DEF SchedInv, CreditsInBounds
  <2> QED
    BY <2>5, <2>9, <2>10 DEF SchedInv
<1>5. credits[q.tenant] \in Int /\ q.cost \in Int
  BY <1>1, <1>2, SchedulerAssumption DEF SchedInv, SchedTypes
<1> QED
  BY <1>3, <1>4, <1>5

LEMMA SubmitKeeps ==
  ASSUME SchedInv, NEW c \in Callers, Submit(c)
  PROVE  SchedInv'
  BY CallerLeaves DEF Submit

LEMMA TakeQueryKeeps ==
  ASSUME SchedInv, NEW w \in Workers, TakeQuery(w)
  PROVE  SchedInv'
<1>1. /\ workerRuns[w] = 0 /\ backlog # <<>> /\ backlog' = Tail(backlog)
      /\ workerRuns' = [workerRuns EXCEPT ![w] = Head(backlog)]
      /\ UNCHANGED <<schedulerOn, lockedBy, credits, callPc, query, queries, answered, refused>>
  BY DEF TakeQuery
<1>2. PICK m \in Nat : Len(backlog) = m + 1
  <2>1. Len(backlog) \in Nat /\ Len(backlog) # 0
    BY <1>1 DEF SchedInv, SchedTypes
  <2> QED
    BY <2>1
<1>3. PICK n : n = Head(backlog)
  OBVIOUS
<1>4. /\ backlog' \in Seq(1 .. queries) /\ Len(backlog') = m /\ n = backlog[1]
      /\ \A i \in 1 .. m : backlog'[i] = backlog[i + 1]
  BY <1>1, <1>2, <1>3 DEF SchedInv, SchedTypes
<1>5. n \in Queued /\ n \in 1 .. queries /\ n # 0
  <2>1. 1 \in 1 .. Len(backlog) /\ backlog \in Seq(1 .. queries)
    BY <1>2 DEF SchedInv, SchedTypes
  <2>2. PICK S : S = 1 .. queries
    OBVIOUS
  <2>3. backlog \in Seq(S)
    BY <2>1, <2>2
  <2>4. backlog[1] \in S
    BY <2>1, <2>3
  <2> QED
    BY <1>4, <2>1, <2>2, <2>4 DEF Queued
<1>6. ASSUME NEW i \in 1 .. m, NEW j \in 1 .. m, i # j PROVE backlog'[i] # backlog'[j]
  <2>1. i + 1 \in 1 .. Len(backlog) /\ j + 1 \in 1 .. Len(backlog) /\ i + 1 # j + 1
    BY <1>2, <1>6
  <2> QED
    BY <1>4, <2>1 DEF SchedInv, QueryInOnePlace
<1>7. Queued' = Queued \ {n}
  <2>1. ASSUME NEW x \in Queued' PROVE x \in Queued \ {n}
    <3>1. PICK i \in 1 .. m : x = backlog'[i]
      BY <1>4 DEF Queued
    <3>2. i + 1 \in 1 .. Len(backlog) /\ 1 \in 1 .. Len(backlog) /\ i + 1 # 1 /\ x = backlog[i + 1]
      BY <1>2, <1>4, <3>1
    <3>3. backlog[i + 1] # backlog[1]
      BY <3>2 DEF SchedInv, QueryInOnePlace
    <3> QED
      BY <1>4, <3>2, <3>3 DEF Queued
  <2>2. ASSUME NEW x \in Queued \ {n} PROVE x \in Queued'
    <3>1. PICK k \in 1 .. Len(backlog) : x = backlog[k]
      BY <2>2 DEF Queued
    <3>2. k # 1
      BY <1>4, <2>2, <3>1
    <3>3. PICK i \in 1 .. m : k = i + 1
      BY <1>2, <3>1, <3>2
    <3> QED
      BY <1>4, <3>1, <3>3 DEF Queued
  <2> QED
    BY <2>1, <2>2
<1>8. workerRuns'[w] = n /\ \A v \in Workers : v # w => workerRuns'[v] = workerRuns[v]
  BY <1>1, <1>3 DEF SchedInv, SchedTypes
<1>9. Executing' = Executing \cup {n}
  BY <1>1, <1>5, <1>8 DEF Executing
<1>10. Called' = Called
  BY <1>1, QueryPlacesStay
<1>11. n \notin Executing /\ n \notin Called /\ n \notin answered /\ n \notin refused
  BY <1>5 DEF SchedInv, QueryInOnePlace
<1>12. ASSUME NEW u \in Workers, NEW v \in Workers, u # v, workerRuns'[u] # 0
       PROVE  workerRuns'[u] # workerRuns'[v]
  <2>1. \A x \in Workers : workerRuns[x] # n
    BY <1>5, <1>11 DEF Executing
  <2> QED
    BY <1>8, <1>12, <2>1 DEF SchedInv, QueryInOnePlace
<1>13. QueryInOnePlace'
  <2>1. /\ Called' \cap (Queued' \cup Executing' \cup answered' \cup refused') = {}
        /\ Queued' \cap (Executing' \cup answered' \cup refused') = {}
        /\ Executing' \cap (answered' \cup refused') = {} /\ answered' \cap refused' = {}
        /\ Called' \cup Queued' \cup Executing' \cup answered' \cup refused' = 1 .. queries'
    BY <1>1, <1>5, <1>7, <1>9, <1>10, <1>11 DEF SchedInv, QueryInOnePlace
  <2> QED
    BY <1>1, <1>4, <1>6, <1>12, <2>1 DEF SchedInv, QueryInOnePlace
<1>14. SchedTypes'
  <2>1. workerRuns' \in [Workers -> 0 .. queries]
    BY <1>1, <1>3, <1>5 DEF SchedInv, SchedTypes
  <2> QED
    BY <1>1, <1>4, <2>1 DEF SchedInv, SchedTypes
<1>15. CreditsInBounds'
  BY <1>1 DEF SchedInv, CreditsInBounds
<1> QED
  BY <1>13, <1>14, <1>15 DEF SchedInv

LEMMA EndQueryKeeps ==
  ASSUME SchedInv, NEW w \in Workers, EndQuery(w)
  PROVE  SchedInv'
<1>1. PICK n : n = workerRuns[w]
  OBVIOUS
<1>2. /\ n # 0 /\ answered' = answered \cup {n} /\ workerRuns' = [workerRuns EXCEPT ![w] = 0]
      /\ UNCHANGED <<schedulerOn, lockedBy, credits, callPc, query, backlog, queries, refused>>
  BY <1>1 DEF EndQuery
<1>3. workerRuns'[w] = 0 /\ \A v \in Workers : v # w => workerRuns'[v] = workerRuns[v]
  BY <1>2 DEF SchedInv, SchedTypes
<1>4. n \in Executing /\ \A v \in Workers : v # w => workerRuns[v] # n
  BY <1>1, <1>2 DEF Executing, SchedInv, QueryInOnePlace
<1>5. Executing' = Executing \ {n}
  BY <1>1, <1>3, <1>4 DEF Executing
<1>6. Called' = Called /\ Queued' = Queued
  BY <1>2, QueryPlacesStay
<1>7. QueryInOnePlace'
  <2>1. /\ Called' \cap (Queued' \cup Executing' \cup answered' \cup refused') = {}
        /\ Queued' \cap (Executing' \cup answered' \cup refused') = {}
        /\ Executing' \cap (answered' \cup refused') = {} /\ answered' \cap refused' = {}
        /\ Called' \cup Queued' \cup Executing' \cup answered' \cup refused' = 1 .. queries'
    BY <1>2, <1>4, <1>5, <1>6 DEF SchedInv, QueryInOnePlace
  <2>2. \A u, v \in Workers : u # v /\ workerRuns'[u] # 0 => workerRuns'[u] # workerRuns'[v]
    BY <1>3 DEF SchedInv, QueryInOnePlace
  <2> QED
    BY <1>2, <2>1, <2>2 DEF SchedInv, QueryInOnePlace
<1>8. SchedTypes'
  <2>1. workerRuns' \in [Workers -> 0 .. queries]
    BY <1>2 DEF SchedInv, SchedTypes
  <2> QED
    BY <1>2, <2>1 DEF SchedInv, SchedTypes
<1>9. CreditsInBounds'
  BY <1>2 DEF SchedInv, CreditsInBounds
<1> QED
  BY <1>7, <1>8, <1>9 DEF SchedInv

LEMMA RefillKeeps == SchedInv /\ Refill => SchedInv'
<1> SUFFICES ASSUME SchedInv, Refill PROVE SchedInv'
  OBVIOUS
<1>1. /\ credits' = [t \in DOMAIN credits |-> IF credits[t] < Burst THEN credits[t] + 1 ELSE Burst]
      /\ UNCHANGED <<schedulerOn, lockedBy, callPc, query, backlog, workerRuns, queries, answered, refused>>
  BY DEF Refill
<1>2. QueryInOnePlace'
  BY <1>1, QueryPlacesStay DEF SchedInv, QueryInOnePlace
<1>3. ASSUME NEW t \in DOMAIN credits
      PROVE  (IF credits[t] < Burst THEN credits[t] + 1 ELSE Burst) \in 0 .. Burst
  <2>1. credits[t] \in 0 .. Burst
    BY DEF SchedInv, SchedTypes
  <2> QED
    BY <2>1, SchedulerAssumption
<1>4. credits' \in [DOMAIN credits -> 0 .. Burst] /\ DOMAIN credits' = DOMAIN credits
  BY <1>1, <1>3
<1>5. SchedTypes'
  BY <1>1, <1>4 DEF SchedInv, SchedTypes
<1>6. CreditsInBounds'
  BY <1>1, <1>4 DEF SchedInv, CreditsInBounds
<1> QED
  BY <1>2, <1>5, <1>6 DEF SchedInv

LEMMA SchedInvStep == SchedInv /\ [SchedNext]_schedVars => SchedInv'
<1> SUFFICES ASSUME SchedInv, [SchedNext]_schedVars PROVE SchedInv'
  OBVIOUS
<1>1. CASE UNCHANGED schedVars \/ Shutdown
  <2>1. UNCHANGED <<lockedBy, credits, callPc, query, backlog, workerRuns, queries, answered, refused>>
    BY <1>1 DEF schedVars, Shutdown
  <2> QED
    BY <2>1, QueryPlacesStay DEF SchedInv, SchedTypes, QueryInOnePlace, CreditsInBounds
<1> QED
  BY <1>1, RegisterKeeps, ScheduleKeeps, ConsumeKeeps, SubmitKeeps, TakeQueryKeeps, EndQueryKeeps,
     RefillKeeps DEF SchedNext

\* However callers, workers, refills and a shutdown interleave, no query of the scheduler is
\* lost, run twice or both answered and refused (QueryInOnePlace), and no tenant overdraws
\* its credits (CreditsInBounds).
THEOREM QueriesHaveOnePlace == SchedSpec => [](QueryInOnePlace /\ CreditsInBounds)
<1>1. SchedInv => QueryInOnePlace /\ CreditsInBounds
  BY DEF SchedInv
<1> QED
  BY <1>1, SchedInvInit, SchedInvStep, PTL DEF SchedSpec

-----------------------------------------------------------------------------
(***************************************************************************)
(* BulkIngestion.                                                          *)
(***************************************************************************)
Elems(s) == {s[i] : i \in 1 .. Len(s)}
Line(q) == Elems(waiting[q])
Others(q) == UNION {Line(r) : r \in Queues \ {q}}
Waiting == UNION {Line(q) : q \in Queues}
Makers == {c \in Clients : clientPc[c] = "make"}
Ascending(s) == \A i, j \in 1 .. Len(s) : i < j => s[i] < s[j]

\* Every vector enqueued is in one queue, behind those that came to it before, or stored, or
\* given up, also while two first requests each make a queue (_flush, get_queue).
VectorInOnePlace ==
  /\ \A q \in Queues : Ascending(waiting[q])
  /\ \A q, r \in Queues : q # r => Line(q) \cap Line(r) = {}
  /\ Waiting \cap (rows \cup givenUp) = {}
  /\ rows \cap givenUp = {}
  /\ Waiting \cup rows \cup givenUp = 1 .. vectors

\* A handler has a queue that was made.
HandlersHaveQueue == \A c \in Clients : clientPc[c] = "handle" => clientQueue[c] \in 1 .. made

IngestTypes ==
  /\ vectors \in Nat /\ made \in Nat /\ queueRef \in 0 .. made
  /\ queueRef = 0 => made = 0
  /\ clientPc \in [Clients -> {"idle", "make", "return", "handle"}]
  /\ clientQueue \in [Clients -> 0 .. made]
  /\ \A c \in Clients : clientPc[c] = "return" => queueRef # 0
  /\ made + Cardinality(Makers) <= Cardinality(Clients)
  /\ waiting \in [Queues -> Seq(1 .. vectors)]

IngestInv == IngestTypes /\ HandlersHaveQueue /\ VectorInOnePlace

LEMMA ClientsFinite == IsFiniteSet(Clients) /\ Cardinality(Clients) \in Nat
  BY IngestAssumption, FS_CardinalityType

LEMMA IngestInvInit == IngestInit => IngestInv
<1> SUFFICES ASSUME IngestInit PROVE IngestInv
  OBVIOUS
<1>1. Makers = {}
  BY DEF IngestInit, Makers
<1>2. IngestTypes
  BY <1>1, ClientsFinite, FS_EmptySet DEF IngestInit, IngestTypes
<1>3. HandlersHaveQueue
  BY DEF IngestInit, HandlersHaveQueue
<1>4. \A q \in Queues : Line(q) = {} /\ Ascending(waiting[q])
  BY DEF IngestInit, Line, Elems, Ascending
<1>5. Waiting = {}
  BY <1>4 DEF Waiting
<1>6. VectorInOnePlace
  BY <1>4, <1>5 DEF IngestInit, VectorInOnePlace
<1> QED
  BY <1>2, <1>3, <1>6 DEF IngestInv

\* The places of the vectors depend on the queues and on what became of the others only.
LEMMA VectorsStay ==
  ASSUME VectorInOnePlace, UNCHANGED <<waiting, rows, givenUp, vectors>>
  PROVE  VectorInOnePlace'
<1>1. \A q \in Queues : Line(q)' = Line(q)
  BY DEF Line
<1>2. Waiting' = Waiting
  BY DEF Waiting, Line
<1> QED
  BY <1>1, <1>2 DEF VectorInOnePlace, Ascending

LEMMA FindQueueKeeps ==
  ASSUME IngestInv, NEW c \in Clients, FindQueue(c)
  PROVE  IngestInv'
<1>1. /\ clientPc[c] = "idle"
      /\ clientPc' = [clientPc EXCEPT ![c] = IF queueRef = 0 THEN "make" ELSE "return"]
      /\ UNCHANGED <<queueRef, made, clientQueue, waiting, rows, givenUp, vectors>>
  BY DEF FindQueue, dataVars
<1>2. clientPc'[c] = (IF queueRef = 0 THEN "make" ELSE "return")
      /\ \A d \in Clients : d # c => clientPc'[d] = clientPc[d]
  BY <1>1 DEF IngestInv, IngestTypes
<1>3. made + Cardinality(Makers') <= Cardinality(Clients)
  <2>1. CASE queueRef = 0
    <3>1. made = 0 /\ Makers' \subseteq Clients
      BY <2>1 DEF IngestInv, IngestTypes, Makers
    <3>2. Cardinality(Makers') <= Cardinality(Clients) /\ Cardinality(Makers') \in Nat
      BY <3>1, ClientsFinite, FS_Subset, FS_CardinalityType
    <3> QED
      BY <3>1, <3>2
  <2>2. CASE queueRef # 0
    <3>1. Makers' = Makers
      BY <1>1, <1>2, <2>2 DEF Makers
    <3> QED
      BY <3>1 DEF IngestInv, IngestTypes
  <2> QED
    BY <2>1, <2>2
<1>4. \A d \in Clients : clientPc'[d] = "return" => queueRef # 0
  BY <1>2 DEF IngestInv, IngestTypes
<1>5. IngestTypes'
  BY <1>1, <1>3, <1>4 DEF IngestInv, IngestTypes
<1>6. HandlersHaveQueue'
  BY <1>1, <1>2 DEF IngestInv, HandlersHaveQueue
<1> QED
  BY <1>1, <1>5, <1>6, VectorsStay DEF IngestInv

LEMMA MakeQueueKeeps ==
  ASSUME IngestInv, NEW c \in Clients, MakeQueue(c)
  PROVE  IngestInv'
<1>1. /\ clientPc[c] = "make" /\ made' = made + 1 /\ queueRef' = made + 1
      /\ clientPc' = [clientPc EXCEPT ![c] = "return"]
      /\ UNCHANGED <<clientQueue, waiting, rows, givenUp, vectors>>
  BY DEF MakeQueue, dataVars
<1>2. clientPc'[c] = "return" /\ \A d \in Clients : d # c => clientPc'[d] = clientPc[d]
  BY <1>1 DEF IngestInv, IngestTypes
<1>3. made \in Nat /\ 0 .. made \subseteq 0 .. made' /\ 1 .. made \subseteq 1 .. made'
  BY <1>1 DEF IngestInv, IngestTypes
<1>4. made' + Cardinality(Makers') <= Cardinality(Clients)
  <2>1. Makers' = Makers \ {c} /\ c \in Makers /\ Makers \subseteq Clients
    BY <1>1, <1>2 DEF Makers
  <2>2. IsFiniteSet(Makers)
    BY <2>1, ClientsFinite, FS_Subset
  <2>3. Cardinality(Makers') = Cardinality(Makers) - 1 /\ Cardinality(Makers) \in Nat
    BY <2>1, <2>2, FS_RemoveElement, FS_CardinalityType
  <2> QED
    BY <1>1, <1>3, <2>3, ClientsFinite DEF IngestInv, IngestTypes
<1>5. IngestTypes'
  <2>1. clientQueue' \in [Clients -> 0 .. made']
    BY <1>1, <1>3 DEF IngestInv, IngestTypes
  <2> QED
    BY <1>1, <1>3, <1>4, <2>1 DEF IngestInv, IngestTypes
<1>6. HandlersHaveQueue'
  BY <1>1, <1>2, <1>3 DEF IngestInv, HandlersHaveQueue
<1> QED
  BY <1>1, <1>5, <1>6, VectorsStay DEF IngestInv

LEMMA ReturnQueueKeeps ==
  ASSUME IngestInv, NEW c \in Clients, ReturnQueue(c)
  PROVE  IngestInv'
<1>1. /\ clientPc[c] = "return" /\ clientQueue' = [clientQueue EXCEPT ![c] = queueRef]
      /\ clientPc' = [clientPc EXCEPT ![c] = "handle"]
      /\ UNCHANGED <<queueRef, made, waiting, rows, givenUp, vectors>>
  BY DEF ReturnQueue, dataVars
<1>2. clientPc'[c] = "handle" /\ clientQueue'[c] = queueRef
      /\ \A d \in Clients : d # c => clientPc'[d] = clientPc[d] /\ clientQueue'[d] = clientQueue[d]
  BY <1>1 DEF IngestInv, IngestTypes
<1>3. queueRef \in 1 .. made
  BY <1>1 DEF IngestInv, IngestTypes
<1>4. Makers' = Makers
  BY <1>1, <1>2 DEF Makers
<1>5. IngestTypes'
  BY <1>1, <1>2, <1>4 DEF IngestInv, IngestTypes
<1>6. HandlersHaveQueue'
  BY <1>1, <1>2, <1>3 DEF IngestInv, HandlersHaveQueue
<1> QED
  BY <1>1, <1>5, <1>6, VectorsStay DEF IngestInv

\* The two parts of a line that was cut.
Parted(s, a, b) == ToSet(a) \cup Elems(b) = Elems(s) /\ ToSet(a) \cap Elems(b) = {}

LEMMA LineCut ==
  ASSUME NEW T \in SUBSET Int, NEW s \in Seq(T), Ascending(s), NEW n \in 0 .. Len(s),
         NEW a, a = SubSeq(s, 1, n), NEW b, b = SubSeq(s, n + 1, Len(s))
  PROVE  b \in Seq(T) /\ Ascending(b) /\ Parted(s, a, b)
<1> DEFINE Y == Elems(b)
<1>1. PICK L \in Nat : L = Len(s)
  OBVIOUS
<1>2. PICK m \in Nat : m = L - n
  <2>1. n \in Nat /\ n <= L /\ L - n \in Nat
    BY <1>1
  <2> QED
    BY <2>1
<1>3. a \in Seq(T) /\ Len(a) = n /\ \A i \in 1 .. n : a[i] = s[i]
  BY <1>1
<1>4. b \in Seq(T) /\ Len(b) = m /\ \A i \in 1 .. m : b[i] = s[n + i]
  BY <1>1, <1>2
<1>5. ToSet(a) = {s[i] : i \in 1 .. n}
  <2>1. DOMAIN a = 1 .. n
    BY <1>3
  <2> QED
    BY <1>3, <2>1 DEF ToSet
<1>6. Y = {s[i] : i \in n + 1 .. L}
  <2>1. ASSUME NEW i \in 1 .. m PROVE n + i \in n + 1 .. L
    BY <1>1, <1>2
  <2>2. ASSUME NEW k \in n + 1 .. L PROVE \E i \in 1 .. m : k = n + i
    <3>1. k - n \in 1 .. m /\ k = n + (k - n)
      BY <1>1, <1>2
    <3> QED
      BY <3>1
  <2>3. Y = {b[i] : i \in 1 .. m}
    BY <1>4 DEF Elems
  <2>4. ASSUME NEW y \in Y PROVE y \in {s[i] : i \in n + 1 .. L}
    <3>1. PICK i \in 1 .. m : y = b[i]
      BY <2>3
    <3> QED
      BY <1>4, <2>1, <3>1
  <2>5. ASSUME NEW k \in n + 1 .. L PROVE s[k] \in Y
    <3>1. PICK i \in 1 .. m : k = n + i
      BY <2>2
    <3> QED
      BY <1>4, <2>3, <3>1
  <2> QED
    BY <2>4, <2>5
<1>7. Ascending(b)
  <2>1. ASSUME NEW i \in 1 .. m, NEW j \in 1 .. m, i < j PROVE b[i] < b[j]
    <3>1. n + i \in 1 .. L /\ n + j \in 1 .. L /\ n + i < n + j
      BY <1>1, <1>2, <2>1
    <3> QED
      BY <1>1, <1>4, <3>1 DEF Ascending
  <2> QED
    BY <1>4, <2>1 DEF Ascending
<1>8. \A i, j \in 1 .. L : i # j => s[i] # s[j]
  <2>1. ASSUME NEW i \in 1 .. L PROVE s[i] \in Int
    <3>1. s[i] \in T
      BY <1>1
    <3> QED
      BY <3>1
  <2> QED
    BY <1>1, <2>1 DEF Ascending
<1>9. 1 .. L = (1 .. n) \cup (n + 1 .. L) /\ (1 .. n) \cap (n + 1 .. L) = {}
  BY <1>1
<1>10. Elems(s) = {s[i] : i \in 1 .. L}
  BY <1>1 DEF Elems
<1>11. ToSet(a) \cup Y = Elems(s)
  BY <1>5, <1>6, <1>9, <1>10
<1>12. ToSet(a) \cap Y = {}
  <2>1. ASSUME NEW i \in 1 .. n, NEW j \in n + 1 .. L PROVE s[i] # s[j]
    <3>1. i \in 1 .. L /\ j \in 1 .. L /\ i # j
      BY <1>1
    <3> QED
      BY <1>8, <3>1
  <2> QED
    BY <1>5, <1>6, <2>1
<1> QED
  BY <1>4, <1>7, <1>11, <1>12 DEF Parted

\* What there is to say of a queue's new line while the other queues keep theirs.
LEMMA LineChanges ==
  ASSUME IngestInv, NEW q \in Queues, NEW line \in Seq(1 .. vectors'), Ascending(line),
         waiting' = [waiting EXCEPT ![q] = line]
  PROVE  /\ Line(q)' = Elems(line) /\ \A r \in Queues : r # q => Line(r)' = Line(r)
         /\ \A r \in Queues : Ascending(waiting'[r])
         /\ Waiting = Line(q) \cup Others(q) /\ Waiting' = Elems(line) \cup Others(q)
<1>1. waiting'[q] = line /\ \A r \in Queues : r # q => waiting'[r] = waiting[r]
  BY DEF IngestInv, IngestTypes
<1>2. Line(q)' = Elems(line) /\ \A r \in Queues : r # q => Line(r)' = Line(r)
  BY <1>1 DEF Line
<1>3. \A r \in Queues : Ascending(waiting'[r])
  BY <1>1 DEF IngestInv, VectorInOnePlace
<1>4. Waiting = Line(q) \cup Others(q)
  BY DEF Waiting, Others
<1>5. Waiting' = UNION {Line(r)' : r \in Queues}
  BY DEF Waiting, Queues
<1>6. Waiting' = Elems(line) \cup Others(q)
  BY <1>2, <1>5 DEF Others
<1> QED
  BY <1>2, <1>3, <1>4, <1>6

\* A batch leaves a line of old and perhaps new vectors.
LEMMA ProcessKeeps ==
  ASSUME IngestInv, NEW q \in Queues, NEW line \in Seq(1 .. vectors'), Ascending(line),
         vectors' \in Nat, vectors <= vectors',
         Elems(line) = Line(q) \cup (vectors + 1 .. vectors'),
         NEW n \in 0 .. Len(line), Process(q, line, n),
         NEW pc, clientPc' = pc, pc \in [Clients -> {"idle", "make", "return", "handle"}],
         \A c \in Clients : pc[c] # clientPc[c] => clientPc[c] = "handle" /\ pc[c] = "idle",
         UNCHANGED <<queueRef, made, clientQueue>>
  PROVE  IngestInv'
<1>1. PICK a, b : a = SubSeq(line, 1, n) /\ b = SubSeq(line, n + 1, Len(line))
  OBVIOUS
<1>2. PICK kept \in SUBSET ToSet(a) :
        /\ waiting' = [waiting EXCEPT ![q] = b]
        /\ rows' = rows \cup kept /\ givenUp' = givenUp \cup (ToSet(a) \ kept)
  BY <1>1 DEF Process
<1>3. PICK Y, X : Y = Elems(b) /\ X = Elems(line)
  OBVIOUS
<1>4. /\ b \in Seq(1 .. vectors') /\ Ascending(b)
      /\ ToSet(a) \cup Y = X /\ ToSet(a) \cap Y = {}
  <2>1. PICK T : T = 1 .. vectors'
    OBVIOUS
  <2>2. T \in SUBSET Int /\ line \in Seq(T)
    BY <2>1
  <2>4. Ascending(line) /\ n \in 0 .. Len(line)
    OBVIOUS
  <2>3. b \in Seq(T) /\ Ascending(b) /\ Parted(line, a, b)
    BY <1>1, <2>2, <2>4, LineCut
  <2> QED
    BY <1>3, <2>1, <2>3 DEF Parted
<1>5. PICK R : R = Others(q)
  OBVIOUS
<1>6. /\ Line(q)' = Y /\ \A r \in Queues : r # q => Line(r)' = Line(r)
      /\ \A r \in Queues : Ascending(waiting'[r])
      /\ Waiting = Line(q) \cup R /\ Waiting' = Y \cup R
  BY <1>2, <1>3, <1>4, <1>5, LineChanges
<1>7. PICK new : new = vectors + 1 .. vectors'
  OBVIOUS
<1>8. new \cap (1 .. vectors) = {} /\ 1 .. vectors' = (1 .. vectors) \cup new
  BY <1>7 DEF IngestInv, IngestTypes
<1>9. Waiting \cup rows \cup givenUp = 1 .. vectors /\ Waiting \cap (rows \cup givenUp) = {}
      /\ rows \cap givenUp = {} /\ Line(q) \cap R = {}
  BY <1>5 DEF IngestInv, VectorInOnePlace, Others
<1>10. X = Line(q) \cup new
  BY <1>3, <1>7
<1>11. VectorInOnePlace'
  <2>1. \A r, s \in Queues : r # s => Line(r)' \cap Line(s)' = {}
    <3>1. \A r \in Queues : r # q => Line(r) \subseteq R
      BY <1>5 DEF Others
    <3>2. Y \cap R = {}
      BY <1>4, <1>6, <1>8, <1>9, <1>10
    <3>3. \A r, s \in Queues : r # s => Line(r) \cap Line(s) = {}
      BY DEF IngestInv, VectorInOnePlace
    <3> QED
      BY <1>6, <3>1, <3>2, <3>3
  <2>2. Waiting' \cup rows' \cup givenUp' = 1 .. vectors'
    BY <1>2, <1>4, <1>6, <1>8, <1>9, <1>10
  <2>3. Waiting' \cap (rows' \cup givenUp') = {} /\ rows' \cap givenUp' = {}
    BY <1>2, <1>4, <1>6, <1>8, <1>9, <1>10
  <2>4. Queues' = Queues
    BY DEF Queues
  <2> QED
    BY <1>6, <2>1, <2>2, <2>3, <2>4 DEF VectorInOnePlace
<1>12. IngestTypes'
  <2>1. waiting' \in [Queues -> Seq(1 .. vectors')]
    <3>1. PICK S, T : S = 1 .. vectors /\ T = 1 .. vectors'
      OBVIOUS
    <3>2. S \subseteq T
      BY <1>8, <3>1
    <3>3. waiting \in [Queues -> Seq(S)]
      BY <3>1 DEF IngestInv, IngestTypes
    <3>4. waiting \in [Queues -> Seq(T)]
      BY <3>2, <3>3
    <3> QED
      BY <1>2, <1>4, <3>1, <3>4
  <2>2. Makers' = Makers
    BY DEF Makers
  <2>3. \A c \in Clients : clientPc'[c] = "return" => queueRef # 0
    BY DEF IngestInv, IngestTypes
  <2> QED
    BY <2>1, <2>2, <2>3 DEF IngestInv, IngestTypes, Queues
<1>13. HandlersHaveQueue'
  BY DEF IngestInv, HandlersHaveQueue
<1> QED
  BY <1>11, <1>12, <1>13 DEF IngestInv

\* A line with vectors that come to its end.
Grown(old, line, v, n) == Elems(line) = Elems(old) \cup (v + 1 .. v + n)
Enqueued(v, n) == [i \in 1 .. n |-> v + i]

LEMMA LineGrows ==
  ASSUME NEW v \in Nat, NEW old \in Seq(1 .. v), Ascending(old), NEW n \in Nat,
         NEW line, line = old \o Enqueued(v, n)
  PROVE  line \in Seq(1 .. v + n) /\ Ascending(line) /\ Grown(old, line, v, n)
<1>1. PICK S, T, more : S = 1 .. v /\ T = 1 .. v + n /\ more = [i \in 1 .. n |-> v + i]
                       /\ line = old \o more
  BY DEF Enqueued
<1>2. S \subseteq T /\ old \in Seq(S) /\ \A i \in 1 .. n : v + i \in T
  BY <1>1
<1>3. more \in Seq(T) /\ Len(more) = n /\ \A i \in 1 .. n : more[i] = v + i
  BY <1>1, <1>2
<1>4. old \in Seq(T)
  BY <1>2
<1>5. PICK m \in Nat : m = Len(old)
  BY <1>4
<1>6. line \in Seq(T)
  BY <1>1, <1>3, <1>4
<1>7. Len(line) = m + n
  BY <1>1, <1>3, <1>4, <1>5
<1>8. \A i \in 1 .. m : line[i] = old[i] /\ old[i] \in S
  BY <1>1, <1>2, <1>3, <1>4, <1>5
<1>9. ASSUME NEW i \in m + 1 .. m + n PROVE \E k \in 1 .. n : i = m + k /\ line[i] = v + k
  <2>1. i - m \in 1 .. n /\ i \in 1 .. m + n /\ i > m /\ i = m + (i - m)
    BY <1>5
  <2>2. PICK k \in 1 .. n : k = i - m
    BY <2>1
  <2>3. line[i] = more[k]
    BY <1>1, <1>3, <1>4, <1>5, <2>1, <2>2
  <2> QED
    BY <1>3, <2>1, <2>2, <2>3
<1>10. ASSUME NEW i \in 1 .. m + n, NEW j \in 1 .. m + n, i < j PROVE line[i] < line[j]
  <2>1. CASE j \in 1 .. m
    <3>1. i \in 1 .. m
      BY <1>5, <1>10, <2>1
    <3> QED
      BY <1>5, <1>8, <1>10, <2>1, <3>1 DEF Ascending
  <2>2. CASE j \in m + 1 .. m + n /\ i \in 1 .. m
    <3>1. PICK x \in 1 .. v : line[i] = x
      BY <1>1, <1>8, <2>2
    <3>2. PICK k \in 1 .. n : line[j] = v + k
      BY <1>9, <2>2
    <3>3. v \in Nat /\ n \in Nat /\ x \in 1 .. v /\ k \in 1 .. n
      OBVIOUS
    <3>4. x < v + k
      BY ONLY <3>3
    <3> QED
      BY <3>1, <3>2, <3>4
  <2>3. CASE j \in m + 1 .. m + n /\ i \in m + 1 .. m + n
    <3>1. PICK k \in 1 .. n, l \in 1 .. n : i = m + k /\ line[i] = v + k /\ j = m + l /\ line[j] = v + l
      BY <1>9, <2>3
    <3> QED
      BY <1>5, <1>10, <3>1
  <2>4. m \in Nat /\ n \in Nat /\ i \in 1 .. m + n /\ j \in 1 .. m + n /\ i < j
    BY <1>10
  <2>5. j \in 1 .. m \/ (j \in m + 1 .. m + n /\ i \in 1 .. m)
        \/ (j \in m + 1 .. m + n /\ i \in m + 1 .. m + n)
    BY ONLY <2>4
  <2> QED
    BY <2>1, <2>2, <2>3, <2>5
<1>11. Ascending(line)
  BY <1>7, <1>10 DEF Ascending
<1>12. Elems(line) = Elems(old) \cup (v + 1 .. v + n)
  <2>1. Elems(line) = {line[i] : i \in 1 .. m + n} /\ Elems(old) = {old[i] : i \in 1 .. m}
    BY <1>5, <1>7 DEF Elems
  <2>2. ASSUME NEW i \in 1 .. m + n PROVE line[i] \in Elems(old) \cup (v + 1 .. v + n)
    <3>1. CASE i \in 1 .. m
      BY <1>8, <2>1, <3>1
    <3>2. CASE i \in m + 1 .. m + n
      <4>1. PICK k \in 1 .. n : line[i] = v + k
        BY <1>9, <3>2
      <4>2. v \in Nat /\ n \in Nat /\ k \in 1 .. n
        OBVIOUS
      <4>3. v + k \in v + 1 .. v + n
        BY ONLY <4>2
      <4> QED
        BY <4>1, <4>3
    <3>3. m \in Nat /\ n \in Nat /\ i \in 1 .. m + n
      OBVIOUS
    <3>4. i \in 1 .. m \/ i \in m + 1 .. m + n
      BY ONLY <3>3
    <3> QED
      BY <3>1, <3>2, <3>4
  <2>3. ASSUME NEW i \in 1 .. m PROVE old[i] \in Elems(line)
    <3>1. i \in 1 .. m + n /\ line[i] = old[i]
      BY <1>5, <1>8
    <3> QED
      BY <2>1, <3>1
  <2>4. ASSUME NEW x \in v + 1 .. v + n PROVE x \in Elems(line)
    <3>1. PICK k \in 1 .. n : x = v + k
      <4>1. x - v \in 1 .. n /\ x = v + (x - v)
        OBVIOUS
      <4> QED
        BY <4>1
    <3>2. m \in Nat /\ n \in Nat /\ k \in 1 .. n
      OBVIOUS
    <3>3. PICK i \in m + 1 .. m + n : i = m + k
      <4>1. m + k \in m + 1 .. m + n
        BY ONLY <3>2
      <4> QED
        BY <4>1
    <3>4. i \in 1 .. m + n
      BY ONLY <3>2, <3>3
    <3>5. PICK l \in 1 .. n : i = m + l /\ line[i] = v + l
      BY <1>9
    <3>6. l = k
      BY ONLY <3>2, <3>3, <3>5
    <3> QED
      BY <2>1, <3>1, <3>4, <3>5, <3>6
  <2> QED
    BY <2>1, <2>2, <2>3, <2>4
<1> QED
  BY <1>1, <1>6, <1>11, <1>12 DEF Grown

LEMMA LeastOf ==
  ASSUME NEW a \in Nat, NEW b \in Nat
  PROVE  Min({a, b}) \in 0 .. b
<1>1. PICK m \in {a, b} : m <= a /\ m <= b
  OBVIOUS
<1>2. \A x \in {a, b} : (\A y \in {a, b} : x <= y) => x = m
  BY <1>1
<1>3. Min({a, b}) = m
  BY <1>1, <1>2 DEF Min
<1> QED
  BY <1>1, <1>3

LEMMA EnqueueKeeps ==
  ASSUME IngestInv, NEW c \in Clients, NEW n \in 1 .. 2, EnqueueVectors(c, n)
  PROVE  IngestInv'
<1>1. PICK q, line : q = clientQueue[c] /\ line = waiting[q] \o [i \in 1 .. n |-> vectors + i]
  OBVIOUS
<1>2. /\ clientPc[c] = "handle" /\ vectors' = vectors + n
      /\ clientPc' = [clientPc EXCEPT ![c] = "idle"]
      /\ \/ waiting' = [waiting EXCEPT ![q] = line] /\ UNCHANGED <<rows, givenUp, recent>>
         \/ Process(q, line, BatchOf(line))
      /\ UNCHANGED <<queueRef, made, clientQueue, timer>>
  BY <1>1 DEF EnqueueVectors
<1>3. q \in Queues
  <2>1. q \in 1 .. made /\ made \in Nat /\ made + Cardinality(Makers) <= Cardinality(Clients)
    BY <1>1, <1>2 DEF IngestInv, IngestTypes, HandlersHaveQueue
  <2>2. Cardinality(Makers) \in Nat
    <3>1. Makers \subseteq Clients
      BY DEF Makers
    <3> QED
      BY <3>1, ClientsFinite, FS_Subset, FS_CardinalityType
  <2> QED
    BY <2>1, <2>2, ClientsFinite DEF Queues
<1>4. vectors \in Nat /\ vectors' \in Nat /\ vectors <= vectors' /\ n \in Nat
  BY <1>2 DEF IngestInv, IngestTypes
<1>5. waiting[q] \in Seq(1 .. vectors) /\ Ascending(waiting[q])
  BY <1>3 DEF IngestInv, IngestTypes, VectorInOnePlace
<1>6. /\ line \in Seq(1 .. vectors') /\ Ascending(line)
      /\ Elems(line) = Line(q) \cup (vectors + 1 .. vectors')
  <2>1. PICK old : old = waiting[q]
    OBVIOUS
  <2>2. line \in Seq(1 .. vectors + n) /\ Ascending(line) /\ Grown(old, line, vectors, n)
    <3>1. old \in Seq(1 .. vectors) /\ Ascending(old) /\ line = old \o Enqueued(vectors, n)
      BY <1>1, <1>5, <2>1 DEF Enqueued
    <3> QED
      BY ONLY <1>4, <3>1, LineGrows
  <2> QED
    BY <1>2, <2>1, <2>2 DEF Line, Grown
<1>7. PICK pc : pc = clientPc'
  OBVIOUS
<1>8. /\ pc \in [Clients -> {"idle", "make", "return", "handle"}]
      /\ \A d \in Clients : pc[d] # clientPc[d] => clientPc[d] = "handle" /\ pc[d] = "idle"
  BY <1>2, <1>7 DEF IngestInv, IngestTypes
<1>9. CASE Process(q, line, BatchOf(line))
  <2>1. BatchOf(line) \in 0 .. Len(line)
    <3>1. Len(line) \in Nat
      BY <1>6
    <3> QED
      BY <3>1, LeastOf, IngestAssumption DEF BatchOf
  <2> QED
    BY <1>2, <1>3, <1>4, <1>6, <1>7, <1>8, <1>9, <2>1, ProcessKeeps
<1>10. CASE waiting' = [waiting EXCEPT ![q] = line] /\ UNCHANGED <<rows, givenUp, recent>>
  <2>1. PICK new : new = vectors + 1 .. vectors'
    OBVIOUS
  <2>2. new \cap (1 .. vectors) = {} /\ 1 .. vectors' = (1 .. vectors) \cup new
    BY <1>4, <2>1
  <2>3. PICK X, R : X = Elems(line) /\ R = Others(q)
    OBVIOUS
  <2>4. /\ Line(q)' = X /\ \A r \in Queues : r # q => Line(r)' = Line(r)
        /\ \A r \in Queues : Ascending(waiting'[r])
        /\ Waiting = Line(q) \cup R /\ Waiting' = X \cup R
    BY <1>3, <1>6, <1>10, <2>3, LineChanges
  <2>5. X = Line(q) \cup new
    BY <1>6, <2>1, <2>3
  <2>6. Waiting \cup rows \cup givenUp = 1 .. vectors /\ Waiting \cap (rows \cup givenUp) = {}
        /\ rows \cap givenUp = {}
    BY DEF IngestInv, VectorInOnePlace
  <2>7. \A r, s \in Queues : r # s => Line(r)' \cap Line(s)' = {}
    <3>1. \A r \in Queues : Line(r) \subseteq 1 .. vectors
      BY <2>6 DEF Waiting
    <3>2. \A r, s \in Queues : r # s => Line(r) \cap Line(s) = {}
      BY DEF IngestInv, VectorInOnePlace
    <3> QED
      BY <2>2, <2>4, <2>5, <3>1, <3>2
  <2>8. VectorInOnePlace'
    <3>1. Waiting' \cup rows' \cup givenUp' = 1 .. vectors'
      BY <1>10, <2>2, <2>4, <2>5, <2>6
    <3>2. Waiting' \cap (rows' \cup givenUp') = {} /\ rows' \cap givenUp' = {}
      BY <1>10, <2>2, <2>4, <2>5, <2>6
    <3>3. Queues' = Queues
      BY DEF Queues
    <3> QED
      BY <2>4, <2>7, <3>1, <3>2, <3>3 DEF VectorInOnePlace
  <2>9. waiting' \in [Queues -> Seq(1 .. vectors')]
    <3>1. PICK S, T : S = 1 .. vectors /\ T = 1 .. vectors'
      OBVIOUS
    <3>2. waiting \in [Queues -> Seq(S)] /\ S \subseteq T /\ line \in Seq(T)
      BY <1>6, <2>2, <3>1 DEF IngestInv, IngestTypes
    <3>3. waiting \in [Queues -> Seq(T)]
      BY <3>2
    <3> QED
      BY <1>10, <3>1, <3>2, <3>3
  <2>10. Makers' = Makers /\ \A d \in Clients : clientPc'[d] = "return" => queueRef # 0
    BY <1>7, <1>8 DEF Makers, IngestInv, IngestTypes
  <2>11. IngestTypes'
    BY <1>2, <1>4, <1>7, <1>8, <2>9, <2>10 DEF IngestInv, IngestTypes, Queues
  <2>12. HandlersHaveQueue'
    BY <1>2, <1>7, <1>8 DEF IngestInv, HandlersHaveQueue
  <2> QED
    BY <2>8, <2>11, <2>12 DEF IngestInv
<1> QED
  BY <1>2, <1>9, <1>10

\* A flush without new vectors.
LEMMA FlushKeeps ==
  ASSUME IngestInv, NEW q \in Queues, NEW n \in 0 .. Len(waiting[q]), Process(q, waiting[q], n),
         NEW pc, clientPc' = pc, pc \in [Clients -> {"idle", "make", "return", "handle"}],
         \A c \in Clients : pc[c] # clientPc[c] => clientPc[c] = "handle" /\ pc[c] = "idle",
         UNCHANGED <<queueRef, made, clientQueue, vectors>>
  PROVE  IngestInv'
<1>1. PICK line : line = waiting[q]
  OBVIOUS
<1>2. line \in Seq(1 .. vectors') /\ Ascending(line) /\ vectors' \in Nat /\ vectors <= vectors'
  BY <1>1 DEF IngestInv, IngestTypes, VectorInOnePlace
<1>3. Elems(line) = Line(q) \cup (vectors + 1 .. vectors')
  BY <1>1, <1>2 DEF Line
<1> QED
  BY <1>1, <1>2, <1>3, ProcessKeeps

LEMMA FlushAllKeeps ==
  ASSUME IngestInv, NEW c \in Clients, FlushAll(c)
  PROVE  IngestInv'
<1>1. PICK q, line : q = clientQueue[c] /\ line = waiting[q]
  OBVIOUS
<1>2. clientPc[c] = "handle" /\ clientPc' = [clientPc EXCEPT ![c] = "idle"]
      /\ UNCHANGED <<queueRef, made, clientQueue, vectors>>
  BY DEF FlushAll
<1>3. q \in Queues
  <2>1. q \in 1 .. made /\ made \in Nat /\ made + Cardinality(Makers) <= Cardinality(Clients)
    BY <1>1, <1>2 DEF IngestInv, IngestTypes, HandlersHaveQueue
  <2>2. Cardinality(Makers) \in Nat
    <3>1. Makers \subseteq Clients
      BY DEF Makers
    <3> QED
      BY <3>1, ClientsFinite, FS_Subset, FS_CardinalityType
  <2> QED
    BY <2>1, <2>2, ClientsFinite DEF Queues
<1>4. PICK pc : pc = clientPc'
  OBVIOUS
<1>5. /\ pc \in [Clients -> {"idle", "make", "return", "handle"}]
      /\ \A d \in Clients : pc[d] # clientPc[d] => clientPc[d] = "handle" /\ pc[d] = "idle"
  BY <1>2, <1>4 DEF IngestInv, IngestTypes
<1>6. CASE UNCHANGED <<dataVars, recent>>
  <2>1. Makers' = Makers /\ \A d \in Clients : clientPc'[d] = "return" => queueRef # 0
    BY <1>4, <1>5 DEF Makers, IngestInv, IngestTypes
  <2>2. IngestTypes'
    BY <1>2, <1>4, <1>5, <1>6, <2>1 DEF IngestInv, IngestTypes, Queues, dataVars
  <2>3. HandlersHaveQueue'
    BY <1>2, <1>4, <1>5 DEF IngestInv, HandlersHaveQueue
  <2> QED
    BY <1>2, <1>6, <2>2, <2>3, VectorsStay DEF IngestInv, dataVars
<1>7. CASE \E n \in {Min({k * IngestBatch, Len(line)}) : k \in 1 .. Len(line)} : Process(q, line, n)
  <2>1. PICK k \in 1 .. Len(line) : Process(q, line, Min({k * IngestBatch, Len(line)}))
    BY <1>7
  <2>2. Len(line) \in Nat
    BY <1>1, <1>3 DEF IngestInv, IngestTypes
  <2>3. k * IngestBatch \in Nat
    BY <2>2, IngestAssumption
  <2>4. Min({k * IngestBatch, Len(line)}) \in 0 .. Len(line)
    BY <2>2, <2>3, LeastOf
  <2> QED
    BY <1>1, <1>2, <1>3, <1>4, <1>5, <2>1, <2>4, FlushKeeps
<1> QED
  BY <1>1, <1>6, <1>7 DEF FlushAll

LEMMA WakeKeeps ==
  ASSUME IngestInv, NEW q \in Queues, Wake(q)
  PROVE  IngestInv'
<1>1. UNCHANGED <<queueRef, made, clientPc, clientQueue, vectors>>
  BY DEF Wake, routerVars
<1>2. CASE UNCHANGED dataVars
  BY <1>1, <1>2, VectorsStay DEF dataVars, IngestInv, IngestTypes, HandlersHaveQueue, Makers
<1>3. CASE Process(q, waiting[q], BatchOf(waiting[q]))
  <2>1. Len(waiting[q]) \in Nat
    BY DEF IngestInv, IngestTypes
  <2>2. BatchOf(waiting[q]) \in 0 .. Len(waiting[q])
    BY <2>1, LeastOf, IngestAssumption DEF BatchOf
  <2>3. clientPc' = clientPc /\ clientPc \in [Clients -> {"idle", "make", "return", "handle"}]
    BY <1>1 DEF IngestInv, IngestTypes
  <2> QED
    BY <1>1, <1>3, <2>2, <2>3, FlushKeeps
<1> QED
  BY <1>2, <1>3 DEF Wake

LEMMA IngestInvStep == IngestInv /\ [IngestNext]_ingestVars => IngestInv'
<1> SUFFICES ASSUME IngestInv, [IngestNext]_ingestVars PROVE IngestInv'
  OBVIOUS
<1>1. CASE UNCHANGED ingestVars \/ \E q \in Queues : StartTimer(q) \/ StopTimer(q)
  <2>1. UNCHANGED <<queueRef, made, clientPc, clientQueue, waiting, rows, givenUp, vectors>>
    BY <1>1 DEF ingestVars, StartTimer, StopTimer, routerVars, dataVars
  <2> QED
    BY <2>1, VectorsStay DEF IngestInv, IngestTypes, HandlersHaveQueue, Makers
<1> QED
  BY <1>1, FindQueueKeeps, MakeQueueKeeps, ReturnQueueKeeps, EnqueueKeeps, FlushAllKeeps, WakeKeeps
     DEF IngestNext

\* However first requests, flushes and the periodic tasks interleave, a handler has a queue,
\* and no vector is lost, stored twice or overtakes another in its queue (VectorInOnePlace).
THEOREM VectorsHaveOnePlace == IngestSpec => [](HandlersHaveQueue /\ VectorInOnePlace)
<1>1. IngestInv => HandlersHaveQueue /\ VectorInOnePlace
  BY DEF IngestInv
<1> QED
  BY <1>1, IngestInvInit, IngestInvStep, PTL DEF IngestSpec
=============================================================================
