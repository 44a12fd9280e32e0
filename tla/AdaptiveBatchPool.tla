------------------------- MODULE AdaptiveBatchPool -------------------------
(***************************************************************************)
(* The asyncio worker pool of services/adaptive_batch_pool.py: callers put *)
(* requests into a queue, a coordinator task collects them into batches    *)
(* and makes a dispatch task of each, which waits for a semaphore and runs *)
(* the handler.                                                            *)
(*                                                                         *)
(* An action is what one task does between two awaits.  The handler, the   *)
(* clock and the callers, who may cancel a future they wait for, are the   *)
(* environment.  Every start() makes a semaphore and a coordinator; they   *)
(* are numbered, for an older one can outlive the stop() that precedes.    *)
(***************************************************************************)
EXTENDS Integers, FiniteSets, SequencesExt

CONSTANTS
  Items,         \* the requests that callers make
  MinBatch, MaxBatch, TargetDepth, MaxWorkers, MaxQueueSize,
  MaxStarts      \* bound: calls of start() that start something

ASSUME PoolAssumption ==
  /\ MinBatch \in Nat \ {0}
  /\ MaxBatch \in Nat
  /\ MinBatch <= MaxBatch
  /\ TargetDepth \in Nat \ {0}
  /\ MaxWorkers \in Nat \ {0}
  /\ MaxQueueSize \in Nat
  /\ MaxStarts \in Nat

VARIABLES
  running,      \* self._running
  starts,       \* calls of start() so far: the number of the latest coordinator
  queue,        \* self._queue
  unfinished,   \* items put and not marked task_done()
  future,       \* the state of each item's future
  coordinator,  \* what each coordinator task is doing
  batch,        \* the items each coordinator has collected
  goal,         \* the batch size each coordinator collects for
  tasks,        \* the dispatch tasks
  permits,      \* the free permits of each semaphore
  stopper,      \* what the stop() in progress waits for
  abandoned,    \* history: items collected by a coordinator that was cancelled
  overlapped    \* history: a start() ran while a stop() waited

collecting == <<coordinator, batch, goal>>
history == <<abandoned, overlapped>>
vars == <<running, starts, queue, unfinished, future, collecting, tasks, permits, stopper,
          history>>

Generations == 1 .. MaxStarts

\* sem is 0 until the task has run up to its semaphore.
Task(items, sem, phase) == [batch |-> items, sem |-> sem, phase |-> phase]

Init ==
  /\ running = FALSE
  /\ starts = 0
  /\ queue = <<>>
  /\ unfinished = {}
  /\ future = [i \in Items |-> "none"]
  /\ coordinator = [c \in Generations |-> "none"]
  /\ batch = [c \in Generations |-> {}]
  /\ goal = [c \in Generations |-> MinBatch]
  /\ tasks = {}
  /\ permits = [c \in Generations |-> MaxWorkers]
  /\ stopper = "none"
  /\ abandoned = {}
  /\ overlapped = FALSE

-----------------------------------------------------------------------------
(***************************************************************************)
(* Callers.                                                                *)
(***************************************************************************)
Start ==
  /\ ~running
  /\ starts < MaxStarts
  /\ running' = TRUE
  /\ starts' = starts + 1
  /\ coordinator' = [coordinator EXCEPT ![starts + 1] = "loop"]
  /\ overlapped' = (overlapped \/ stopper # "none")
  /\ UNCHANGED <<queue, unfinished, future, batch, goal, tasks, permits, stopper, abandoned>>

\* A put at capacity raises QueueFullError and changes nothing.
Put(i) ==
  /\ future[i] = "none"
  /\ Len(queue) < MaxQueueSize
  /\ queue' = Append(queue, i)
  /\ unfinished' = unfinished \cup {i}
  /\ future' = [future EXCEPT ![i] = "pending"]
  /\ UNCHANGED <<running, starts, collecting, tasks, permits, stopper, history>>

\* The caller of submit() is cancelled, or cancels what put() returned.
CancelFuture(i) ==
  /\ future[i] = "pending"
  /\ future' = [future EXCEPT ![i] = "cancelled"]
  /\ UNCHANGED <<running, starts, queue, unfinished, collecting, tasks, permits, stopper,
                 history>>

\* Only the latest coordinator is cancelled; a batch in its hands goes with it.
CancelCoordinator ==
  /\ coordinator' =
       [c \in Generations |-> IF c = starts THEN "done" ELSE coordinator[c]]
  /\ batch' = [c \in Generations |-> IF c = starts THEN {} ELSE batch[c]]
  /\ abandoned' = abandoned \cup UNION {batch[c] : c \in Generations \cap {starts}}
  /\ stopper' = "none"
  /\ UNCHANGED overlapped

StopNow ==
  /\ stopper = "none"
  /\ running' = FALSE
  /\ CancelCoordinator
  /\ UNCHANGED <<starts, queue, unfinished, future, goal, tasks, permits>>

\* stop(drain=True) waits for join(), which returns at once if nothing is unfinished.
StopDrain ==
  /\ stopper = "none"
  /\ running' = FALSE
  /\ stopper' = IF unfinished = {} THEN "joined" ELSE "join"
  /\ UNCHANGED <<starts, queue, unfinished, future, collecting, tasks, permits, history>>

\* After join(), or after ten seconds without it.
StopEnd ==
  /\ stopper \in {"join", "joined"}
  /\ CancelCoordinator
  /\ UNCHANGED <<running, starts, queue, unfinished, future, goal, tasks, permits>>

-----------------------------------------------------------------------------
(***************************************************************************)
(* A coordinator.                                                          *)
(***************************************************************************)
\* The size a batch is collected for at a queue depth: linear from the smallest to the
\* largest, rounded down.
Target(depth) ==
  IF depth >= TargetDepth THEN MaxBatch
  ELSE MinBatch + (depth * (MaxBatch - MinBatch)) \div TargetDepth

\* Buggy variant: the next round goes on with the list of the last one.
NextRoundSameList(c, depth) ==
  /\ coordinator' = [coordinator EXCEPT ![c] = IF running THEN "collect" ELSE "done"]
  /\ goal' = [goal EXCEPT ![c] = Target(depth)]
  /\ UNCHANGED batch

\* The head of the loop: go on with an empty batch, or end.
NextRound(c, depth) ==
  /\ coordinator' = [coordinator EXCEPT ![c] = IF running THEN "collect" ELSE "done"]
  /\ batch' = [batch EXCEPT ![c] = {}]
  /\ goal' = [goal EXCEPT ![c] = Target(depth)]

\* The task runs for the first time, or wakes from its sleep.
Loop(c) ==
  /\ coordinator[c] = "loop"
  /\ NextRound(c, Len(queue))
  /\ UNCHANGED <<running, starts, queue, unfinished, future, tasks, permits, stopper, history>>

DispatchFull(c, items, depth) ==
  /\ tasks' = tasks \cup {Task(items, 0, "created")}
  /\ NextRound(c, depth)

Get(c) ==
  /\ coordinator[c] = "collect"
  /\ queue # <<>>
  /\ queue' = Tail(queue)
  /\ LET items == batch[c] \cup {Head(queue)}
     IN \/ /\ Cardinality(items) < goal[c]
           /\ batch' = [batch EXCEPT ![c] = items]
           /\ UNCHANGED <<coordinator, goal, tasks>>
        \/ /\ Cardinality(items) >= goal[c]
           /\ DispatchFull(c, items, Len(queue) - 1)
  /\ UNCHANGED <<running, starts, unfinished, future, permits, stopper, history>>

\* The deadline passes with a part of the batch collected.
Deadline(c) ==
  /\ coordinator[c] = "collect"
  /\ batch[c] # {}
  /\ DispatchFull(c, batch[c], Len(queue))
  /\ UNCHANGED <<running, starts, queue, unfinished, future, permits, stopper, history>>

GetTimeoutEnds(c) ==
  /\ coordinator[c] = "collect"
  /\ batch[c] = {}
  /\ queue = <<>>
  /\ coordinator' = [coordinator EXCEPT ![c] = "done"]
  /\ UNCHANGED <<running, starts, queue, unfinished, future, batch, goal, tasks, permits,
                 stopper, history>>

\* It passes with nothing collected: the coordinator sleeps for a moment.
GetTimeout(c) ==
  /\ coordinator[c] = "collect"
  /\ batch[c] = {}
  /\ queue = <<>>
  /\ coordinator' = [coordinator EXCEPT ![c] = "loop"]
  /\ UNCHANGED <<running, starts, queue, unfinished, future, batch, goal, tasks, permits,
                 stopper, history>>

Coordinate(c) == Loop(c) \/ Get(c) \/ Deadline(c) \/ GetTimeout(c)

-----------------------------------------------------------------------------
(***************************************************************************)
(* A dispatch task.                                                        *)
(***************************************************************************)
\* It reads self._semaphore when it first runs, not when it is created.
ReachSemaphore(t) ==
  /\ t.phase = "created"
  /\ tasks' = (tasks \ {t}) \cup {Task(t.batch, starts, "waiting")}
  /\ UNCHANGED <<running, starts, queue, unfinished, future, collecting, permits, stopper,
                 history>>

AcquireMarksDone(t) ==
  /\ t.phase = "waiting"
  /\ permits[t.sem] > 0
  /\ permits' = [permits EXCEPT ![t.sem] = @ - 1]
  /\ tasks' = (tasks \ {t}) \cup {Task(t.batch, t.sem, "running")}
  /\ unfinished' = unfinished \ t.batch
  /\ UNCHANGED <<running, starts, queue, future, collecting, stopper, history>>

Acquire(t) ==
  /\ t.phase = "waiting"
  /\ permits[t.sem] > 0
  /\ permits' = [permits EXCEPT ![t.sem] = @ - 1]
  /\ tasks' = (tasks \ {t}) \cup {Task(t.batch, t.sem, "running")}
  /\ UNCHANGED <<running, starts, queue, unfinished, future, collecting, stopper, history>>

\* The handler returns a result per item, or it raises or returns the wrong number of
\* them.  Futures already done are left; every item is marked task_done().
HandlerReturns(t, outcome) ==
  /\ t.phase = "running"
  /\ future' = [i \in Items |->
                  IF i \in t.batch /\ future[i] = "pending" THEN outcome ELSE future[i]]
  /\ unfinished' = unfinished \ t.batch
  /\ stopper' = IF stopper = "join" /\ unfinished' = {} THEN "joined" ELSE stopper
  /\ permits' = [permits EXCEPT ![t.sem] = @ + 1]
  /\ tasks' = tasks \ {t}
  /\ UNCHANGED <<running, starts, queue, collecting, history>>

Return(t) == \E outcome \in {"done", "failed"} : HandlerReturns(t, outcome)

Next ==
  \/ Start
  \/ StopNow
  \/ StopDrain
  \/ StopEnd
  \/ \E i \in Items : Put(i) \/ CancelFuture(i)
  \/ \E c \in Generations : Coordinate(c)
  \/ \E t \in tasks : ReachSemaphore(t) \/ Acquire(t) \/ Return(t)

Spec == Init /\ [][Next]_vars

\* The event loop runs every task that can run; a handler returns in the end.  A
\* semaphore serves its waiters in turn: of finitely many, all get a permit.
Fairness ==
  /\ \A c \in Generations : WF_vars(Coordinate(c))
  /\ WF_vars(\E t \in tasks : ReachSemaphore(t))
  /\ WF_vars(\E t \in tasks : Acquire(t))
  /\ WF_vars(\E t \in tasks : Return(t))

FairSpec == Spec /\ Fairness

-----------------------------------------------------------------------------
(***************************************************************************)
(* Properties.                                                             *)
(***************************************************************************)
Holders(g) == {t \in tasks : t.sem = g /\ t.phase = "running"}

\* Every variable has its type, a batch is never larger than max_batch, and a
\* semaphore's permits are free or held by a task in the handler.
TypeOK ==
  /\ running \in BOOLEAN
  /\ starts \in 0 .. MaxStarts
  /\ queue \in Seq(Items)
  /\ unfinished \subseteq Items
  /\ abandoned \subseteq Items
  /\ overlapped \in BOOLEAN
  /\ future \in [Items -> {"none", "pending", "done", "failed", "cancelled"}]
  /\ coordinator \in [Generations -> {"none", "loop", "collect", "done"}]
  /\ batch \in [Generations -> SUBSET Items]
  /\ goal \in [Generations -> MinBatch .. MaxBatch]
  /\ permits \in [Generations -> 0 .. MaxWorkers]
  /\ stopper \in {"none", "join", "joined"}
  /\ \A t \in tasks :
       /\ t.batch \subseteq Items
       /\ Cardinality(t.batch) \in 1 .. MaxBatch
       /\ t.phase \in {"created", "waiting", "running"}
       /\ t.sem \in Generations \/ (t.sem = 0 /\ t.phase = "created")
  /\ \A g \in Generations : permits[g] + Cardinality(Holders(g)) = MaxWorkers

InQueue == ToSet(queue)
InBatches == UNION {batch[c] : c \in Generations}
InTasks == UNION {t.batch : t \in tasks}

\* An unfinished item is in exactly one place: the queue, the batch of one coordinator,
\* one dispatch task, or lost with a cancelled coordinator.  Two coordinators and a
\* restart never hand an item to two batches, so that task_done() is called once for it.
ItemsInOnePlace ==
  /\ IsInjective(queue)
  /\ \A c, d \in Generations : c # d => batch[c] \cap batch[d] = {}
  /\ \A t, u \in tasks : t # u => t.batch \cap u.batch = {}
  /\ InQueue \cap InBatches = {}
  /\ InQueue \cap InTasks = {}
  /\ InBatches \cap InTasks = {}
  /\ (InQueue \cup InBatches \cup InTasks) \cap abandoned = {}
  /\ unfinished = InQueue \cup InBatches \cup InTasks \cup abandoned

\* When nothing is unfinished, and join() returns, no caller is left waiting.
JoinMeansAnswered == unfinished = {} => \A i \in Items : future[i] # "pending"

\* While the pool runs, a request is answered (adaptive_batch_pool.py:14), unless a stop()
\* took it away, or took away the coordinator of a start() made while it waited.
RequestsAnswered ==
  \A i \in Items :
    (future[i] = "pending" /\ running)
      ~> (future[i] # "pending" \/ ~running \/ i \in abandoned \/ overlapped)

\* stop(drain=True) waits for the queue to empty (adaptive_batch_pool.py:125): while it
\* waits, no coordinator ends and leaves queued requests behind.
DrainKeepsCoordinator ==
  [][\A c \in Generations :
       stopper = "join" /\ stopper' = "join" /\ coordinator'[c] = "done" =>
         coordinator[c] = "done" \/ queue' = <<>>]_vars
=============================================================================
