------------------------------ MODULE AuditLog ------------------------------
(***************************************************************************)
(* The audit log, utils/audit_log.py: "an immutable, append-only log of    *)
(* every mutation".  Events wait in a list and are written under a lock by *)
(* whoever finds the list long or old enough.  Events are numbered in the  *)
(* order they enter the list; a line of the file is an event's number.     *)
(***************************************************************************)
EXTENDS Integers, Sequences, SequencesExt, FiniteSetsExt

CONSTANTS
  Loggers,         \* threads
  MaxAuditEvents,  \* bound: events
  MaxAuditFaults   \* bound: failing writes and crashes

ASSUME AuditAssumption == MaxAuditEvents \in Nat /\ MaxAuditFaults \in Nat

VARIABLES
  auditBuffer, \* _audit_buffer
  auditFile,   \* the lines of the file
  auditLock,   \* threads that hold _audit_lock
  auditPc,     \* auditPc[t]
  events,      \* events logged
  faults,      \* writes that failed and crashes
  torn,        \* whether the file ends in half a line
  rewritten,   \* history: a write failed half way
  dropped      \* history: events that a crash took from the list, or that follow half a line

auditVars == <<auditBuffer, auditFile, auditLock, auditPc, events, faults, torn, rewritten,
               dropped>>

AuditInit ==
  /\ auditBuffer = <<>> /\ auditFile = <<>> /\ auditLock = {}
  /\ auditPc = [t \in Loggers |-> "idle"]
  /\ events = 0 /\ faults = 0 /\ torn = FALSE /\ rewritten = FALSE /\ dropped = {}

Step(t, from, to) == auditPc[t] = from /\ auditPc' = [auditPc EXCEPT ![t] = to]

-----------------------------------------------------------------------------
(* log_event, flush *)

LogEvent(t) ==
  /\ Step(t, "idle", "size") /\ auditLock = {} /\ events < MaxAuditEvents
  /\ events' = events + 1
  /\ auditBuffer' = Append(auditBuffer, events + 1)
  /\ UNCHANGED <<auditFile, auditLock, faults, torn, rewritten, dropped>>

\* Fewer than a hundred events, none older than five seconds.
NotDue(t) ==
  /\ Step(t, "size", "idle")
  /\ UNCHANGED <<auditBuffer, auditFile, auditLock, events, faults, torn, rewritten, dropped>>

\* By log_event, or by a call of flush.
FlushAudit(t) ==
  /\ \E from \in {"size", "idle"} : Step(t, from, IF auditBuffer = <<>> THEN "idle" ELSE "lock")
  /\ UNCHANGED <<auditBuffer, auditFile, auditLock, events, faults, torn, rewritten, dropped>>

-----------------------------------------------------------------------------
(* _flush_buffer *)

\* Buggy variant: the list is written without the lock.
EnterUnlocked(t) ==
  /\ Step(t, "lock", "write")
  /\ auditLock' = auditLock \cup {t}
  /\ UNCHANGED <<auditBuffer, auditFile, events, faults, torn, rewritten, dropped>>

\* Another thread may have written the list meanwhile.
EnterLock(t) ==
  /\ auditLock = {}
  /\ IF auditBuffer = <<>>
     THEN Step(t, "lock", "idle") /\ UNCHANGED auditLock
     ELSE Step(t, "lock", "write") /\ auditLock' = {t}
  /\ UNCHANGED <<auditBuffer, auditFile, events, faults, torn, rewritten, dropped>>

\* The first n events of the list reach the file; a first one glued to half a line is
\* not a line that query_logs can read.
AppendLines(n) == auditFile' = auditFile \o SubSeq(auditBuffer, IF torn THEN 2 ELSE 1, n)

\* What a write that is cut off leaves.
WritePart ==
  \E n \in 0 .. Len(auditBuffer), half \in BOOLEAN :
    /\ half => n < Len(auditBuffer)
    /\ AppendLines(n)
    /\ torn' = IF n = 0 THEN torn \/ half ELSE half

WriteAudit(t) ==
  /\ Step(t, "write", "clear")
  /\ AppendLines(Len(auditBuffer))
  /\ torn' = FALSE
  /\ dropped' = IF torn THEN dropped \cup {Head(auditBuffer)} ELSE dropped
  /\ UNCHANGED <<auditBuffer, auditLock, events, faults, rewritten>>

ClearAudit(t) ==
  /\ Step(t, "clear", "idle")
  /\ auditBuffer' = <<>> /\ auditLock' = auditLock \ {t}
  /\ UNCHANGED <<auditFile, events, faults, torn, rewritten, dropped>>

\* Some lines may be in the file; the list keeps them all, to be written again.
WriteRaises(t) ==
  /\ Step(t, "write", "idle") /\ faults < MaxAuditFaults
  /\ faults' = faults + 1 /\ rewritten' = TRUE
  /\ WritePart /\ UNCHANGED dropped
  /\ auditLock' = auditLock \ {t}
  /\ UNCHANGED <<auditBuffer, events>>

\* A new process appends to the same file.
AuditCrash ==
  /\ faults < MaxAuditFaults /\ faults' = faults + 1
  /\ dropped' = dropped \cup ToSet(auditBuffer)
  /\ \/ (\E t \in Loggers : auditPc[t] = "write") /\ WritePart
     \/ UNCHANGED <<auditFile, torn>>
  /\ auditBuffer' = <<>> /\ auditLock' = {} /\ auditPc' = [t \in Loggers |-> "idle"]
  /\ UNCHANGED <<events, rewritten>>

AuditNext ==
  \/ AuditCrash
  \/ \E t \in Loggers :
       LogEvent(t) \/ NotDue(t) \/ FlushAudit(t) \/ EnterLock(t) \/ WriteAudit(t)
         \/ ClearAudit(t) \/ WriteRaises(t)

AuditSpec == AuditInit /\ [][AuditNext]_auditVars

-----------------------------------------------------------------------------
(* Properties *)

\* Whoever flushes when, no event is lost but with the process or behind half a line, and
\* until a write fails half way the file tells every event once, in the order they
\* happened, over restarts too.
AuditEventsKept ==
  /\ 1 .. events = ToSet(auditBuffer) \cup ToSet(auditFile) \cup dropped
  /\ ~rewritten => \A i, j \in DOMAIN auditFile : i < j => auditFile[i] < auditFile[j]
=============================================================================
