---------------------------- MODULE CdcConnector ----------------------------
(***************************************************************************)
(* Change data capture, services/cdc_connector.py.  Events of an upstream  *)
(* table wait in a list that enqueue_event, the consumer thread and stop() *)
(* all flush; nothing guards it, so another thread may run between any two *)
(* statements.  The callbacks that embed, ingest and delete are given by   *)
(* the user: an ingest replaces the vector with the row's id, and each of  *)
(* them may raise.  Events are numbered as they are enqueued, so a batch,  *)
(* which holds none twice, is the set of its events.                       *)
(***************************************************************************)
EXTENDS Integers, Sequences, SequencesExt, FiniteSets

CONSTANTS
  Rows,       \* rows of the upstream table
  Changes,    \* kinds of events: "upsert", "blank" (an upsert without text), "delete"
  Feeders,    \* threads that call enqueue_event
  Stopper,    \* the thread that calls start and stop
  BatchSize,
  MaxEvents,  \* bound: events in a behaviour
  MaxStarts   \* bound: calls of start; each makes a consumer thread

ASSUME CdcAssumption ==
  /\ BatchSize \in Nat \ {0} /\ MaxEvents \in Nat /\ MaxStarts \in Nat
  /\ Changes \subseteq {"upsert", "blank", "delete"}

VARIABLES
  cdcRunning, \* _running
  cdcBuffer,  \* _buffer
  cdcPc,      \* cdcPc[t]: where thread t is
  cdcBatch,   \* cdcBatch[t]: the events of its local batch that are left to do
  starts,     \* consumer threads made so far
  mirror,     \* mirror[row]: number of the event whose vector is stored, 0 for none
  latest,     \* history: latest[row], the last event enqueued for the row
  emitted,    \* history: number of events enqueued
  handled,    \* history: handled[n], how often event n was applied or given up
  raced,      \* history: two threads met while one replaced the buffer
  spoiled     \* history: rows for which an event failed or was applied out of order

cdcVars == <<cdcRunning, cdcBuffer, cdcPc, cdcBatch, starts, mirror, latest,
             emitted, handled, raced, spoiled>>

Consumers == 1 .. MaxStarts
Threads == Consumers \cup Feeders \cup {Stopper}
Event == [num : 1 .. MaxEvents, row : Rows, op : Changes]
RowsOf(S) == {e.row : e \in S}

CdcInit ==
  /\ cdcRunning = FALSE /\ cdcBuffer = <<>>
  /\ cdcPc = [t \in Threads |-> IF t \in Consumers THEN "off" ELSE "idle"]
  /\ cdcBatch = [t \in Threads |-> {}]
  /\ starts = 0 /\ mirror = [r \in Rows |-> 0]
  /\ latest = [r \in Rows |-> [num |-> 0, row |-> r, op |-> "delete"]]
  /\ emitted = 0 /\ handled = [n \in 1 .. MaxEvents |-> 0]
  /\ raced = FALSE /\ spoiled = {}

Goto(t, pc) == cdcPc' = [cdcPc EXCEPT ![t] = pc]

\* Where a flush returns to: the consumer sleeps and looks at _running again.
After(t) == IF t \in Consumers THEN "loop" ELSE "idle"

-----------------------------------------------------------------------------
(* _flush_buffer *)

CheckBuffer(t) ==
  /\ cdcPc[t] = "check"
  /\ Goto(t, IF cdcBuffer = <<>> THEN After(t) ELSE "take")
  /\ UNCHANGED <<cdcRunning, cdcBuffer, cdcBatch, starts, mirror, latest, emitted,
                 handled, raced, spoiled>>

First(s, n) == IF Len(s) <= n THEN s ELSE SubSeq(s, 1, n)

\* Two threads race when both take before one has stored the rest.
TakeBatch(t) ==
  /\ cdcPc[t] = "take"
  /\ cdcBatch' = [cdcBatch EXCEPT ![t] = ToSet(First(cdcBuffer, BatchSize))]
  /\ raced' = (raced \/ \E u \in Threads \ {t} : cdcPc[u] = "store")
  /\ Goto(t, "store")
  /\ UNCHANGED <<cdcRunning, cdcBuffer, starts, mirror, latest, emitted, handled, spoiled>>

\* Buggy variant: the buffer is cut only when it holds more than a batch.
StoreRestLong(t) ==
  /\ cdcPc[t] = "store"
  /\ cdcBuffer' = IF Len(cdcBuffer) <= BatchSize THEN cdcBuffer
                  ELSE SubSeq(cdcBuffer, BatchSize + 1, Len(cdcBuffer))
  /\ raced' = (raced \/ ToSet(First(cdcBuffer, BatchSize)) # cdcBatch[t])
  /\ Goto(t, "embed")
  /\ UNCHANGED <<cdcRunning, cdcBatch, starts, mirror, latest, emitted, handled, spoiled>>

\* What is cut off here is lost when it is not the batch: an event enqueued since a
\* short batch was taken, or what another thread has not taken.
StoreRest(t) ==
  /\ cdcPc[t] = "store"
  /\ cdcBuffer' = SubSeq(cdcBuffer, BatchSize + 1, Len(cdcBuffer))
  /\ raced' = (raced \/ ToSet(First(cdcBuffer, BatchSize)) # cdcBatch[t])
  /\ Goto(t, "embed")
  /\ UNCHANGED <<cdcRunning, cdcBatch, starts, mirror, latest, emitted, handled, spoiled>>

-----------------------------------------------------------------------------
(* _process_batch *)

Of(S, op) == {e \in S : e.op = op}
Counted(S) ==
  [n \in DOMAIN handled |-> handled[n] + (IF \E e \in S : e.num = n THEN 1 ELSE 0)]

\* Buggy variant: deletions come first.
DeletesBefore(e, f) ==
  IF e.op = f.op THEN e.num < f.num ELSE e.op = "delete"

\* All vectors are ingested before the first delete.
DoneBefore(e, f) ==
  IF e.op = f.op THEN e.num < f.num ELSE f.op = "delete"

\* Rows whose events this batch applies in another order than they came, or that
\* another thread is working on.
Disordered(t) ==
  {e.row : e \in {d \in Of(cdcBatch[t], "delete") :
                    \E f \in Of(cdcBatch[t], "upsert") : f.row = d.row /\ f.num > d.num}}
  \cup (RowsOf(cdcBatch[t]) \cap UNION {RowsOf(cdcBatch[u]) : u \in Threads \ {t}})

\* A failed embedding gives up the whole batch, its deletes too.
EmbedFails(t) ==
  /\ cdcPc[t] = "embed" /\ Of(cdcBatch[t], "upsert") # {}
  /\ handled' = Counted(cdcBatch[t])
  /\ spoiled' = spoiled \cup RowsOf(cdcBatch[t])
  /\ cdcBatch' = [cdcBatch EXCEPT ![t] = {}]
  /\ Goto(t, After(t))
  /\ UNCHANGED <<cdcRunning, cdcBuffer, starts, mirror, latest, emitted, raced>>

\* Text-less events are dropped.
Embed(t) ==
  LET blanks == Of(cdcBatch[t], "blank")
  IN /\ cdcPc[t] = "embed"
     /\ handled' = Counted(blanks)
     /\ spoiled' = spoiled \cup Disordered(t) \cup RowsOf(blanks)
     /\ cdcBatch' = [cdcBatch EXCEPT ![t] = @ \ blanks]
     /\ Goto(t, IF cdcBatch[t] = blanks THEN After(t) ELSE "apply")
     /\ UNCHANGED <<cdcRunning, cdcBuffer, starts, mirror, latest, emitted, raced>>

\* One call of the ingest or delete callback; an exception is logged.  The flush is over
\* with the last one.
ApplyEvent(t) ==
  /\ cdcPc[t] = "apply"
  /\ \E e \in cdcBatch[t] :
       /\ \A f \in cdcBatch[t] \ {e} : DoneBefore(e, f)
       /\ \/ /\ mirror' = [mirror EXCEPT ![e.row] = IF e.op = "delete" THEN 0 ELSE e.num]
             /\ UNCHANGED spoiled
          \/ /\ spoiled' = spoiled \cup {e.row}
             /\ UNCHANGED mirror
       /\ handled' = Counted({e})
       /\ cdcBatch' = [cdcBatch EXCEPT ![t] = @ \ {e}]
       /\ Goto(t, IF cdcBatch[t] = {e} THEN After(t) ELSE "apply")
  /\ UNCHANGED <<cdcRunning, cdcBuffer, starts, latest, emitted, raced>>

-----------------------------------------------------------------------------
(* enqueue_event, start, _consume_loop, stop *)

Enqueue(t, row, op) ==
  LET e == [num |-> emitted + 1, row |-> row, op |-> op]
  IN /\ cdcPc[t] = "idle" /\ t \in Feeders /\ emitted < MaxEvents
     /\ cdcBuffer' = Append(cdcBuffer, e)
     /\ emitted' = emitted + 1
     /\ latest' = [latest EXCEPT ![row] = e]
     /\ Goto(t, "size")
     /\ UNCHANGED <<cdcRunning, cdcBatch, starts, mirror, handled, raced, spoiled>>

FullBuffer(t) ==
  /\ cdcPc[t] = "size"
  /\ Goto(t, IF Len(cdcBuffer) >= BatchSize THEN "check" ELSE "idle")
  /\ UNCHANGED <<cdcRunning, cdcBuffer, cdcBatch, starts, mirror, latest, emitted,
                 handled, raced, spoiled>>

StartConnector ==
  /\ cdcPc[Stopper] = "idle" /\ ~cdcRunning /\ starts < MaxStarts
  /\ cdcRunning' = TRUE /\ starts' = starts + 1
  /\ Goto(starts + 1, "loop")
  /\ UNCHANGED <<cdcBuffer, cdcBatch, mirror, latest, emitted, handled, raced, spoiled>>

\* Buggy variant: the consumer flushes only when a batch is full.
ConsumerLoopFull(t) ==
  /\ cdcPc[t] = "loop"
  /\ Goto(t, IF ~cdcRunning THEN "off" ELSE IF Len(cdcBuffer) < BatchSize THEN "loop" ELSE "check")
  /\ UNCHANGED <<cdcRunning, cdcBuffer, cdcBatch, starts, mirror, latest, emitted,
                 handled, raced, spoiled>>

\* The thread of an earlier start goes on when it wakes after a later one.
ConsumerLoop(t) ==
  /\ cdcPc[t] = "loop"
  /\ Goto(t, IF cdcRunning THEN "check" ELSE "off")
  /\ UNCHANGED <<cdcRunning, cdcBuffer, cdcBatch, starts, mirror, latest, emitted,
                 handled, raced, spoiled>>

\* join() returns when the thread has ended or ten seconds are over; one batch is
\* flushed either way.
StopConnector ==
  /\ cdcPc[Stopper] = "idle"
  /\ cdcRunning' = FALSE
  /\ Goto(Stopper, "check")
  /\ UNCHANGED <<cdcBuffer, cdcBatch, starts, mirror, latest, emitted, handled,
                 raced, spoiled>>

Flush(t) ==
  CheckBuffer(t) \/ TakeBatch(t) \/ StoreRest(t) \/ EmbedFails(t) \/ Embed(t) \/ ApplyEvent(t)

CdcThread(t) == Flush(t) \/ FullBuffer(t) \/ ConsumerLoop(t)

CdcNext ==
  \/ \E t \in Threads : CdcThread(t)
  \/ \E t \in Feeders, row \in Rows, op \in Changes : Enqueue(t, row, op)
  \/ StartConnector \/ StopConnector

\* Threads are scheduled, callbacks return; nobody has to enqueue, start or stop.
CdcFairness == \A t \in Threads : WF_cdcVars(CdcThread(t))

CdcSpec == CdcInit /\ [][CdcNext]_cdcVars /\ CdcFairness

-----------------------------------------------------------------------------
(* Properties *)

\* How often an event waits, and who has it.
Waits(n) == Cardinality({i \in DOMAIN cdcBuffer : cdcBuffer[i].num = n})
Holders(n) ==
  {t \in Threads : cdcPc[t] \in {"embed", "apply"} /\ \E e \in cdcBatch[t] : e.num = n}

\* Unless two threads met in the middle of a flush, an event is in exactly one place:
\* waiting, in the hands of one thread, or applied or given up once.
CdcEventsInOnePlace ==
  ~raced =>
    \A n \in 1 .. emitted :
      Waits(n) + Cardinality(Holders(n)) + handled[n] = 1

\* When nothing waits and no thread has work, a row's vector is that of the last event
\* enqueued for it, unless an event for it failed or the batches applied it out of order.
CdcMirrorsSource ==
  ~raced /\ cdcBuffer = <<>> /\ (\A t \in Threads : cdcBatch[t] = {}) =>
    \A r \in Rows \ spoiled :
      mirror[r] = IF latest[r].op = "delete" THEN 0 ELSE latest[r].num

\* While the connector runs, waiting events are taken from the buffer until none is left.
CdcBufferDrains == cdcBuffer # <<>> ~> (cdcBuffer = <<>> \/ ~cdcRunning)
=============================================================================
