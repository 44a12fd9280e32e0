--------------------------- MODULE BulkIngestion ---------------------------
(***************************************************************************)
(* The bulk ingestion queue: services/ingestion_service.py behind          *)
(* api/routers/ingestion.py.  Requests fetch the router's only queue on    *)
(* threads, where two first ones may each make one.  What follows runs on  *)
(* the event loop: no flush ever gives it up, so a call is one step.       *)
(* Vectors are numbered as they are enqueued.                              *)
(***************************************************************************)
EXTENDS Integers, Sequences, SequencesExt, FiniteSetsExt

CONSTANTS
  Clients,     \* requests in progress
  IngestBatch, \* batch_size
  MaxVectors   \* bound: vectors enqueued

ASSUME IngestAssumption ==
  IngestBatch \in Nat \ {0} /\ MaxVectors \in Nat /\ IsFiniteSet(Clients)

VARIABLES
  queueRef,    \* _queue of the router: a queue's number, 0 for None
  made,        \* queues made
  clientPc,    \* clientPc[c]: "idle", "make", "return" or "handle"
  clientQueue, \* clientQueue[c]: the queue its handler got
  waiting,     \* waiting[q]: the vectors in queue q
  timer,       \* timer[q]: its periodic task: "none", "asleep" or "ended" by an exception
  recent,      \* recent[q]: whether a batch was flushed while the task sleeps
  vectors,     \* vectors enqueued
  rows,        \* vectors stored
  givenUp      \* history: vectors taken from a queue and not stored

ingestVars == <<queueRef, made, clientPc, clientQueue, waiting, timer, recent, vectors,
                rows, givenUp>>
routerVars == <<queueRef, made, clientPc, clientQueue>>
dataVars == <<waiting, rows, givenUp>>

\* Only a request that found no queue makes one.
Queues == 1 .. Cardinality(Clients)

IngestInit ==
  /\ queueRef = 0 /\ made = 0 /\ vectors = 0 /\ rows = {} /\ givenUp = {}
  /\ clientPc = [c \in Clients |-> "idle"] /\ clientQueue = [c \in Clients |-> 0]
  /\ waiting = [q \in Queues |-> <<>>]
  /\ timer = [q \in Queues |-> "none"] /\ recent = [q \in Queues |-> FALSE]

-----------------------------------------------------------------------------
(* get_queue, on a thread of its own *)

FindQueue(c) ==
  /\ clientPc[c] = "idle"
  /\ clientPc' = [clientPc EXCEPT ![c] = IF queueRef = 0 THEN "make" ELSE "return"]
  /\ UNCHANGED <<queueRef, made, clientQueue, dataVars, timer, recent, vectors>>

\* A queue that is replaced keeps what it holds; nobody will find it again.
MakeQueue(c) ==
  /\ clientPc[c] = "make"
  /\ made' = made + 1 /\ queueRef' = made + 1
  /\ clientPc' = [clientPc EXCEPT ![c] = "return"]
  /\ UNCHANGED <<clientQueue, dataVars, timer, recent, vectors>>

ReturnQueue(c) ==
  /\ clientPc[c] = "return"
  /\ clientQueue' = [clientQueue EXCEPT ![c] = queueRef]
  /\ clientPc' = [clientPc EXCEPT ![c] = "handle"]
  /\ UNCHANGED <<queueRef, made, dataVars, timer, recent, vectors>>

-----------------------------------------------------------------------------
(* _flush, _process_batch *)

\* The first n vectors of line leave queue q.  create_vector commits each row it accepts,
\* so a rollback brings nothing back; a batch without a session stores nothing.
Process(q, line, n) ==
  LET batch == SubSeq(line, 1, n)
  IN \E kept \in SUBSET ToSet(batch) :
       /\ waiting' = [waiting EXCEPT ![q] = SubSeq(line, n + 1, Len(line))]
       /\ rows' = rows \cup kept
       /\ givenUp' = givenUp \cup (ToSet(batch) \ kept)

BatchOf(line) == Min({IngestBatch, Len(line)})

\* enqueue, or enqueue_many with more than one vector.
EnqueueVectors(c, n) ==
  LET q == clientQueue[c]
      line == waiting[q] \o [i \in 1 .. n |-> vectors + i]
  IN /\ clientPc[c] = "handle" /\ vectors + n <= MaxVectors
     /\ vectors' = vectors + n
     /\ clientPc' = [clientPc EXCEPT ![c] = "idle"]
     /\ IF Len(line) < IngestBatch
        THEN waiting' = [waiting EXCEPT ![q] = line] /\ UNCHANGED <<rows, givenUp, recent>>
        ELSE /\ Process(q, line, BatchOf(line))
             /\ \E raises \in BOOLEAN : recent' = [recent EXCEPT ![q] = @ \/ ~raises]
     /\ UNCHANGED <<queueRef, made, clientQueue, timer>>

\* flush_all takes batch after batch and stops at one that raises; the status request
\* and a flush of an empty queue change nothing.
FlushAll(c) ==
  LET q == clientQueue[c]
      line == waiting[q]
  IN /\ clientPc[c] = "handle"
     /\ clientPc' = [clientPc EXCEPT ![c] = "idle"]
     /\ \/ UNCHANGED <<dataVars, recent>>
        \/ \E n \in {Min({k * IngestBatch, Len(line)}) : k \in 1 .. Len(line)}, raises \in BOOLEAN :
             /\ n < Len(line) => raises
             /\ Process(q, line, n)
             /\ recent' = [recent EXCEPT ![q] = @ \/ ~raises \/ n > IngestBatch]
     /\ UNCHANGED <<queueRef, made, clientQueue, timer, vectors>>

-----------------------------------------------------------------------------
(* The periodic task *)

StartTimer(q) ==
  /\ q <= made /\ timer[q] # "asleep"
  /\ timer' = [timer EXCEPT ![q] = "asleep"]
  /\ recent' = [recent EXCEPT ![q] = FALSE]
  /\ UNCHANGED <<routerVars, dataVars, vectors>>

StopTimer(q) ==
  /\ timer[q] = "asleep"
  /\ timer' = [timer EXCEPT ![q] = "none"]
  /\ UNCHANGED <<routerVars, dataVars, recent, vectors>>

\* Buggy variant: the task leaves a short batch to the next request.
WakeForFullBatch(q) ==
  /\ timer[q] = "asleep"
  /\ IF Len(waiting[q]) < IngestBatch
     THEN UNCHANGED <<dataVars, timer>>
     ELSE /\ Process(q, waiting[q], BatchOf(waiting[q]))
          /\ \E raises \in BOOLEAN : timer' = [timer EXCEPT ![q] = IF raises THEN "ended" ELSE @]
  /\ recent' = [recent EXCEPT ![q] = FALSE]
  /\ UNCHANGED <<routerVars, vectors>>

\* After a sleep the interval since the last flush is over unless there was one meanwhile,
\* and perhaps even then.  An exception ends the task for good.
Wake(q) ==
  /\ timer[q] = "asleep"
  /\ \/ /\ waiting[q] = <<>> \/ recent[q]
        /\ UNCHANGED <<dataVars, timer>>
     \/ /\ waiting[q] # <<>>
        /\ Process(q, waiting[q], BatchOf(waiting[q]))
        /\ \E raises \in BOOLEAN : timer' = [timer EXCEPT ![q] = IF raises THEN "ended" ELSE @]
  /\ recent' = [recent EXCEPT ![q] = FALSE]
  /\ UNCHANGED <<routerVars, vectors>>

IngestNext ==
  \/ \E c \in Clients : FindQueue(c) \/ MakeQueue(c) \/ ReturnQueue(c) \/ FlushAll(c)
  \/ \E c \in Clients, n \in 1 .. 2 : EnqueueVectors(c, n)
  \/ \E q \in Queues : StartTimer(q) \/ StopTimer(q) \/ Wake(q)

\* A sleep ends; nobody has to send requests or to start the task.
IngestFairness == \A q \in Queues : WF_ingestVars(Wake(q))

IngestSpec == IngestInit /\ [][IngestNext]_ingestVars /\ IngestFairness

-----------------------------------------------------------------------------
(* Properties *)

\* While a queue's periodic task is alive, every vector in it comes to its batch and is
\* stored or given up, however the requests' own flushes fall in between, even if the queue
\* was replaced and no request will ever find it again.
IngestQueueDrains ==
  \A q \in Queues, v \in 1 .. MaxVectors :
    v \in ToSet(waiting[q]) ~> (v \in rows \cup givenUp \/ timer[q] # "asleep")

=============================================================================
