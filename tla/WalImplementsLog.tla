-------------------------- MODULE WalImplementsLog --------------------------
(***************************************************************************)
(* utils/wal.py implements DurableLog where rotation is off, no write is   *)
(* torn and only the flusher writes a logging instance's entries.          *)
(* Entries still in memory, in the batch the flusher has drained and then  *)
(* in the buffer, are the queue; the file is the log.                      *)
(***************************************************************************)
EXTENDS WriteAheadLog

QueueOf(i) == drained[<<i, "flusher">>] \o buffer[i]

Log == INSTANCE DurableLog WITH
  Writers <- Loggers,
  Entries <- Entry,
  queue <- [i \in Loggers |-> QueueOf(i)],
  log <- file,
  floor <- lastMark

\* Every step of the buffers, flushers, file and checkpoint file is a step of the
\* durable log or invisible in it: entries become durable in the order their writer
\* logged them, leave the log only by a checkpoint, and a crash costs only queues.
ImplementsLog == Log!LogSpec
=============================================================================
