----------------------------- MODULE DurableLog -----------------------------
(***************************************************************************)
(* What a write-ahead log promises its writers: each writer's entries wait *)
(* in a queue in the order it logged them; a prefix of a queue moves to    *)
(* the end of the durable log in one step; a checkpoint raises the floor   *)
(* at or below which entries count for nothing, and only a log of such     *)
(* entries is emptied; a crash empties the queues and never the log.       *)
(***************************************************************************)
EXTENDS Integers, Sequences, SequencesExt

CONSTANTS Writers, Entries

VARIABLES
  queue,  \* what each writer has logged and is not durable yet
  log,    \* the durable entries in order; a replay applies those above the floor
  floor   \* entries stamped at or below this are obsolete

logVars == <<queue, log, floor>>

LogInit ==
  /\ queue = [w \in Writers |-> <<>>]
  /\ log = <<>>
  /\ floor = 0

Accept(w, e) ==
  /\ \A q \in ToSet(queue[w]) : q.ts < e.ts
  /\ queue' = [queue EXCEPT ![w] = Append(@, e)]
  /\ UNCHANGED <<log, floor>>

\* The log after the first n entries of w's queue became durable.
WithPrefix(w, n) == log \o SubSeq(queue[w], 1, n)

Persist(w, n) ==
  /\ log' = WithPrefix(w, n)
  /\ queue' = [queue EXCEPT ![w] = SubSeq(@, n + 1, Len(@))]
  /\ UNCHANGED floor

\* A checkpoint leaves the queues alone.
RaiseFloor ==
  /\ floor' >= floor
  /\ UNCHANGED <<queue, log>>

Forget ==
  /\ floor' >= floor
  /\ \A e \in ToSet(log) : e.ts <= floor'
  /\ log' = <<>>
  /\ UNCHANGED queue

LoseQueues ==
  /\ queue' = [w \in Writers |-> <<>>]
  /\ \/ log' = log
     \/ \E w \in Writers : \E n \in 1 .. Len(queue[w]) : log' = WithPrefix(w, n)
  /\ UNCHANGED floor

LogNext ==
  \/ \E w \in Writers : \/ \E e \in Entries : Accept(w, e)
                        \/ \E n \in 1 .. Len(queue[w]) : Persist(w, n)
  \/ RaiseFloor \/ Forget
  \/ LoseQueues

LogSpec == LogInit /\ [][LogNext]_logVars
=============================================================================
