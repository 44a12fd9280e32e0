--------------------------- MODULE QueryScheduler ---------------------------
(***************************************************************************)
(* The query scheduler with credits per tenant, services/query_scheduler.py.*)
(* One lock, which the thread that holds it cannot take again, guards the  *)
(* table of tenants; a pool of workers runs the queries that were paid     *)
(* for.  A query may raise.                                                *)
(***************************************************************************)
EXTENDS Integers, Sequences, FiniteSets

CONSTANTS
  Tenants,
  Callers,     \* threads that call schedule, register_tenant or shutdown
  Workers,     \* threads of the pool
  Burst,       \* max_burst, in what a tick refills
  Costs,       \* cost estimates, likewise
  MaxQueries   \* bound: calls of schedule

ASSUME SchedulerAssumption ==
  Burst \in Nat /\ Costs \subseteq Nat /\ MaxQueries \in Nat

VARIABLES
  schedulerOn, \* _running
  lockedBy,    \* the callers inside _lock when no step is in progress
  credits,     \* credits[t] of the tenants that are registered
  callPc,      \* callPc[c]: "idle", "self" (waits for its own lock), "pay" or "submit"
  query,       \* query[c]: the number, tenant and cost of its query
  backlog,     \* queries the pool has not begun
  workerRuns,  \* workerRuns[w]: the query worker w runs, 0 for none
  queries,     \* calls of schedule
  answered,    \* queries whose future is done
  refused      \* queries that schedule() raised for

schedVars == <<schedulerOn, lockedBy, credits, callPc, query, backlog, workerRuns, queries,
               answered, refused>>

NoQuery == [num |-> 0]

SchedInit ==
  /\ schedulerOn = TRUE /\ lockedBy = {} /\ credits = [t \in {} |-> 0]
  /\ callPc = [c \in Callers |-> "idle"] /\ query = [c \in Callers |-> NoQuery]
  /\ backlog = <<>> /\ workerRuns = [w \in Workers |-> 0]
  /\ queries = 0 /\ answered = {} /\ refused = {}

-----------------------------------------------------------------------------
(* register_tenant, schedule, shutdown *)

RegisterTenant(c, t) ==
  /\ callPc[c] = "idle" /\ lockedBy = {} /\ t \notin DOMAIN credits
  /\ credits' = [u \in DOMAIN credits \cup {t} |-> IF u = t THEN Burst ELSE credits[u]]
  /\ UNCHANGED <<schedulerOn, lockedBy, callPc, query, backlog, workerRuns, queries, answered, refused>>

\* For a tenant it does not know schedule() calls register_tenant, which takes the lock
\* that schedule() holds.
Schedule(c, t, cost) ==
  /\ callPc[c] = "idle" /\ lockedBy = {} /\ queries < MaxQueries
  /\ queries' = queries + 1
  /\ query' = [query EXCEPT ![c] = [num |-> queries + 1, tenant |-> t, cost |-> cost]]
  /\ IF t \in DOMAIN credits
     THEN callPc' = [callPc EXCEPT ![c] = "pay"] /\ UNCHANGED lockedBy
     ELSE callPc' = [callPc EXCEPT ![c] = "self"] /\ lockedBy' = {c}
  /\ UNCHANGED <<schedulerOn, credits, backlog, workerRuns, answered, refused>>

Consume(c) ==
  /\ callPc[c] = "pay"
  /\ LET q == query[c]
     IN IF credits[q.tenant] >= q.cost
        THEN /\ credits' = [credits EXCEPT ![q.tenant] = @ - q.cost]
             /\ callPc' = [callPc EXCEPT ![c] = "submit"]
             /\ UNCHANGED answered
        ELSE /\ answered' = answered \cup {q.num}
             /\ callPc' = [callPc EXCEPT ![c] = "idle"]
             /\ UNCHANGED credits
  /\ UNCHANGED <<schedulerOn, lockedBy, query, backlog, workerRuns, queries, refused>>

\* A pool that was shut down raises; the credits are gone.
Submit(c) ==
  /\ callPc[c] = "submit"
  /\ callPc' = [callPc EXCEPT ![c] = "idle"]
  /\ IF schedulerOn
     THEN backlog' = Append(backlog, query[c].num) /\ UNCHANGED refused
     ELSE refused' = refused \cup {query[c].num} /\ UNCHANGED backlog
  /\ UNCHANGED <<schedulerOn, lockedBy, credits, query, workerRuns, queries, answered>>

\* Without the lock; queries that were submitted still run.
Shutdown ==
  /\ schedulerOn /\ schedulerOn' = FALSE
  /\ UNCHANGED <<lockedBy, credits, callPc, query, backlog, workerRuns, queries, answered, refused>>

-----------------------------------------------------------------------------
(* _refill_loop, _run_task *)

Refill ==
  /\ schedulerOn /\ lockedBy = {}
  /\ \E t \in DOMAIN credits : credits[t] < Burst
  /\ credits' = [t \in DOMAIN credits |-> IF credits[t] < Burst THEN credits[t] + 1 ELSE Burst]
  /\ UNCHANGED <<schedulerOn, lockedBy, callPc, query, backlog, workerRuns, queries, answered, refused>>

TakeQuery(w) ==
  /\ workerRuns[w] = 0 /\ backlog # <<>>
  /\ workerRuns' = [workerRuns EXCEPT ![w] = Head(backlog)]
  /\ backlog' = Tail(backlog)
  /\ UNCHANGED <<schedulerOn, lockedBy, credits, callPc, query, queries, answered, refused>>

\* Buggy variant: a query that raises leaves its future alone.
EndReturned(w) ==
  /\ workerRuns[w] # 0
  /\ \E raises \in BOOLEAN :
       answered' = IF raises THEN answered ELSE answered \cup {workerRuns[w]}
  /\ workerRuns' = [workerRuns EXCEPT ![w] = 0]
  /\ UNCHANGED <<schedulerOn, lockedBy, credits, callPc, query, backlog, queries, refused>>

\* The result, or the exception, is set.
EndQuery(w) ==
  /\ workerRuns[w] # 0
  /\ answered' = answered \cup {workerRuns[w]}
  /\ workerRuns' = [workerRuns EXCEPT ![w] = 0]
  /\ UNCHANGED <<schedulerOn, lockedBy, credits, callPc, query, backlog, queries, refused>>

SchedNext ==
  \/ \E c \in Callers, t \in Tenants :
       RegisterTenant(c, t) \/ \E cost \in Costs : Schedule(c, t, cost)
  \/ \E c \in Callers : Consume(c) \/ Submit(c)
  \/ \E w \in Workers : TakeQuery(w) \/ EndQuery(w)
  \/ Refill \/ Shutdown

\* Threads are scheduled, queries end; nobody has to call.
SchedFairness ==
  /\ \A c \in Callers : WF_schedVars(Consume(c) \/ Submit(c))
  /\ \A w \in Workers : WF_schedVars(TakeQuery(w) \/ EndQuery(w))

SchedSpec == SchedInit /\ [][SchedNext]_schedVars /\ SchedFairness

-----------------------------------------------------------------------------
(* Properties *)

\* Every query gets an answer, or schedule() raises for it, except one whose caller waits
\* for its own lock; what other callers had past the lock by then is answered all the same.
QueriesAnswered ==
  \A n \in 1 .. MaxQueries :
    queries >= n ~>
      (n \in answered \cup refused \/ \E c \in Callers : callPc[c] = "self" /\ query[c].num = n)
=============================================================================
