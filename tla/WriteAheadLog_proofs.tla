------------------------ MODULE WriteAheadLog_proofs ------------------------
(***************************************************************************)
(* Proofs about WriteAheadLog for every set of instances, every bound and  *)
(* every choice of who logs, flushes, reads and checkpoints.               *)
(***************************************************************************)
EXTENDS WalImplementsLog, SequenceTheorems, TLAPS

-----------------------------------------------------------------------------
(***************************************************************************)
(* Facts about lines.                                                      *)
(***************************************************************************)
LEMMA EntriesAreLines ==
  /\ \A e \in Entry : IsEntry(e) /\ e.ts \in 1 .. MaxClock /\ e # None
  /\ Seq(Entry) \subseteq Seq(Line)
<1>1. \A e \in Entry : e \in [ts : Nat, op : Ops]
  BY WalAssumption DEF Entry
<1>2. \A e \in Entry : IsEntry(e) /\ e.ts \in 1 .. MaxClock /\ e # None
  BY <1>1, WalAssumption DEF Entry, IsEntry
<1> QED
  BY <1>2 DEF Line

LEMMA StampsRange ==
  ASSUME NEW s \in Seq(Line)
  PROVE  Stamps(s) \subseteq 1 .. MaxClock
  BY EntriesAreLines DEF Stamps, ToSet, Line, IsEntry

LEMMA StampsOfEntries ==
  ASSUME NEW s \in Seq(Entry)
  PROVE  Stamps(s) = {s[k].ts : k \in 1 .. Len(s)}
  BY EntriesAreLines DEF Stamps, ToSet

LEMMA ToSetConcat ==
  ASSUME NEW S, NEW s \in Seq(S), NEW r \in Seq(S)
  PROVE  ToSet(s \o r) = ToSet(s) \cup ToSet(r)
<1>1. /\ s \o r \in Seq(S)
      /\ DOMAIN (s \o r) = 1 .. Len(s) + Len(r)
      /\ DOMAIN s = 1 .. Len(s) /\ DOMAIN r = 1 .. Len(r)
      /\ Len(s) \in Nat /\ Len(r) \in Nat
  OBVIOUS
<1>2. \A k \in 1 .. Len(s) + Len(r) :
        (s \o r)[k] = IF k <= Len(s) THEN s[k] ELSE r[k - Len(s)]
  OBVIOUS
<1>3. ASSUME NEW x \in ToSet(s \o r) PROVE x \in ToSet(s) \cup ToSet(r)
  BY <1>1, <1>2 DEF ToSet
<1>4. ASSUME NEW x \in ToSet(s) PROVE x \in ToSet(s \o r)
  BY <1>1, <1>2 DEF ToSet
<1>5. ASSUME NEW x \in ToSet(r) PROVE x \in ToSet(s \o r)
  <2>1. PICK k \in 1 .. Len(r) : x = r[k]
    BY <1>1 DEF ToSet
  <2>2. Len(s) + k \in DOMAIN (s \o r) /\ (s \o r)[Len(s) + k] = x
    BY <1>1, <1>2, <2>1
  <2> QED
    BY <2>2 DEF ToSet
<1> QED
  BY <1>3, <1>4, <1>5

LEMMA StampsConcat ==
  ASSUME NEW s \in Seq(Line), NEW r \in Seq(Line)
  PROVE  Stamps(s \o r) = Stamps(s) \cup Stamps(r)
  BY ToSetConcat DEF Stamps

LEMMA AppendLinesType ==
  ASSUME file \in Seq(Line), NEW s \in Seq(Entry), s # <<>>
  PROVE  AppendLines(s) \in Seq(Line)
<1>1. s \in Seq(Line) /\ Tail(s) \in Seq(Line) /\ <<Garbage>> \in Seq(Line)
  BY EntriesAreLines DEF Line
<1> QED
  BY <1>1 DEF AppendLines

LEMMA PrefixType ==
  ASSUME NEW S, NEW s \in Seq(S), NEW n \in 1 .. Len(s)
  PROVE  SubSeq(s, 1, n) \in Seq(S) /\ SubSeq(s, 1, n) # <<>>
  OBVIOUS

-----------------------------------------------------------------------------
(***************************************************************************)
(* Type correctness.                                                       *)
(***************************************************************************)
WalTypeInv ==
  /\ WalTypeOK
  /\ \A i \in Instances : call[i] = "log" => stamped[i] # None

LEMMA WalTypeInit == WalInit => WalTypeInv
<1>1. <<>> \in Seq(Entry) /\ <<>> \in Seq(Line) /\ <<>> \in Seq(Seq(Line))
  OBVIOUS
<1>2. ASSUME WalInit
      PROVE  /\ buffer \in [Instances -> Seq(Entry)]
             /\ drained \in [Threads -> Seq(Entry)]
             /\ file \in Seq(Line) /\ rotated \in Seq(Seq(Line))
  BY <1>1, <1>2 DEF WalInit
<1>3. ASSUME WalInit
      PROVE  /\ clock \in Nat
             /\ cutoff \in 0 .. clock /\ lastMark \in 0 .. clock
             /\ toRotate \in SUBSET Threads /\ stopped \in SUBSET Instances
             /\ synced \in SUBSET (1 .. MaxClock) /\ lost \in SUBSET (1 .. MaxClock)
             /\ holder \in Instances \cup {None}
  BY <1>3 DEF WalInit
<1>4. ASSUME WalInit
      PROVE  /\ call \in [Instances -> {"none", "log", "flush", "read", "checkpoint",
                                        "mark", "truncate"}]
             /\ stamped \in [Instances -> Entry \cup {None}]
             /\ accepted \in [Instances -> SUBSET (1 .. MaxClock)]
             /\ \A i \in Instances : call[i] = "none"
  BY <1>4 DEF WalInit
<1>5. WalInit => torn \in BOOLEAN
  BY DEF WalInit
<1> QED
  BY <1>2, <1>3, <1>4, <1>5 DEF WalTypeInv, WalTypeOK

LEMMA NewestType ==
  ASSUME NEW S, NEW fs \in Seq(S)
  PROVE  Newest(fs) \in Seq(S)
  BY WalAssumption DEF Newest

LEMMA StampType ==
  ASSUME WalTypeInv, NEW i \in Instances, NEW op \in Ops, Stamp(i, op)
  PROVE  WalTypeInv'
<1>1. [ts |-> clock + 1, op |-> op] \in Entry
  BY WalAssumption DEF Stamp, WalTypeInv, WalTypeOK, Entry
<1>2. [ts |-> clock + 1, op |-> op] # None
  BY <1>1, EntriesAreLines
<1> QED
  BY <1>1, <1>2 DEF Stamp, WalTypeInv, WalTypeOK, walDisk, walHistory

LEMMA AppendType ==
  ASSUME WalTypeInv, NEW i \in Instances, AppendEntry(i)
  PROVE  WalTypeInv'
<1>1. stamped[i] \in Entry
  BY DEF AppendEntry, WalTypeInv, WalTypeOK
<1>2. Append(buffer[i], stamped[i]) \in Seq(Entry) /\ stamped[i].ts \in 1 .. MaxClock
  BY <1>1, EntriesAreLines DEF WalTypeInv, WalTypeOK
<1> QED
  BY <1>2 DEF AppendEntry, WalTypeInv, WalTypeOK, walDisk

\* What a drain does to the buffers, for the flusher and for a caller.
LEMMA DrainType ==
  ASSUME WalTypeInv, NEW t \in Threads,
         \/ Drain(t)
         \/ UNCHANGED <<stamped, buffer, drained, toRotate, holder>>
  PROVE  /\ buffer' \in [Instances -> Seq(Entry)]
         /\ drained' \in [Threads -> Seq(Entry)]
         /\ UNCHANGED <<stamped, toRotate, holder>>
<1>1. t[1] \in Instances /\ <<>> \in Seq(Entry)
  BY DEF Threads
<1>2. CASE Drain(t)
  <2>1. buffer[t[1]] \in Seq(Entry)
    BY <1>1 DEF WalTypeInv, WalTypeOK
  <2>2. buffer' = [buffer EXCEPT ![t[1]] = <<>>] /\ drained' = [drained EXCEPT ![t] = buffer[t[1]]]
    BY <1>2 DEF Drain
  <2>3. buffer \in [Instances -> Seq(Entry)] /\ drained \in [Threads -> Seq(Entry)]
    BY DEF WalTypeInv, WalTypeOK
  <2>4. buffer' \in [Instances -> Seq(Entry)] /\ drained' \in [Threads -> Seq(Entry)]
    BY <1>1, <2>1, <2>2, <2>3
  <2> QED
    BY <1>2, <2>4 DEF Drain
<1> QED
  BY <1>2 DEF WalTypeInv, WalTypeOK

LEMMA FlusherDrainType ==
  ASSUME WalTypeInv, NEW i \in Instances, FlusherDrain(i)
  PROVE  WalTypeInv'
<1>1. <<i, "flusher">> \in Threads
  BY DEF Threads
<1> QED
  BY <1>1, DrainType DEF FlusherDrain, WalTypeInv, WalTypeOK, walDisk, walHistory

LEMMA CallType ==
  ASSUME WalTypeInv, NEW i \in Instances,
         NEW name \in {"flush", "read", "checkpoint"}, CallFlushing(i, name),
         stopped' \in SUBSET Instances
  PROVE  WalTypeInv'
<1>1. <<i, "caller">> \in Threads
  BY DEF Threads
<1>2. \/ Drain(<<i, "caller">>)
      \/ UNCHANGED <<stamped, buffer, drained, toRotate, holder>>
  BY DEF CallFlushing
<1> QED
  BY <1>1, <1>2, DrainType DEF CallFlushing, WalTypeInv, WalTypeOK, walDisk, walHistory

LEMMA WriteType ==
  ASSUME WalTypeInv, NEW t \in Threads, WriteLines(t)
  PROVE  WalTypeInv'
<1>1. drained[t] \in Seq(Entry) /\ drained[t] # <<>> /\ <<>> \in Seq(Entry)
  BY DEF WriteLines, WalTypeInv, WalTypeOK
<1>2. AppendLines(drained[t]) \in Seq(Line)
  BY <1>1, AppendLinesType DEF WalTypeInv, WalTypeOK
<1>3. Stamps(drained[t]) \subseteq 1 .. MaxClock
  BY <1>1, EntriesAreLines, StampsRange
<1>4. toRotate' \in SUBSET Threads
  BY DEF WriteLines, WalTypeInv, WalTypeOK
<1> QED
  BY <1>1, <1>2, <1>3, <1>4 DEF WriteLines, WalTypeInv, WalTypeOK

LEMMA RotateType ==
  ASSUME WalTypeInv, NEW t \in Threads, MaybeRotate(t)
  PROVE  WalTypeInv'
<1>1. <<>> \in Seq(Line) /\ Append(rotated, file) \in Seq(Seq(Line))
  BY DEF WalTypeInv, WalTypeOK
<1>2. Newest(Append(rotated, file)) \in Seq(Seq(Line))
  BY <1>1, NewestType
<1>3. rotated # <<>> => [rotated EXCEPT ![Len(rotated)] = file] \in Seq(Seq(Line))
  BY DEF WalTypeInv, WalTypeOK
<1>4. rotated' \in Seq(Seq(Line)) /\ file' \in Seq(Line) /\ torn' \in BOOLEAN
  BY <1>1, <1>2, <1>3 DEF MaybeRotate, WalTypeInv, WalTypeOK
<1> QED
  BY <1>4 DEF MaybeRotate, WalTypeInv, WalTypeOK, walHistory

LEMMA CrashType ==
  ASSUME WalTypeInv, Crash
  PROVE  WalTypeInv'
<1>1. file' \in Seq(Line) /\ torn' \in BOOLEAN
  <2>1. CASE UNCHANGED <<file, torn>>
    BY <2>1 DEF WalTypeInv, WalTypeOK
  <2>2. CASE \E t \in Threads : drained[t] # <<>> /\ PartialWrite(t)
    <3>1. PICK t \in Threads : PartialWrite(t)
      BY <2>2
    <3>2. PICK n \in 0 .. Len(drained[t]) :
            /\ file' = IF n = 0 THEN file ELSE AppendLines(SubSeq(drained[t], 1, n))
            /\ \/ torn' = (torn /\ n = 0)
               \/ TornWrites /\ n < Len(drained[t]) /\ torn' = TRUE
      BY <3>1 DEF PartialWrite
    <3>3. n # 0 => AppendLines(SubSeq(drained[t], 1, n)) \in Seq(Line)
      <4>1. drained[t] \in Seq(Entry) /\ file \in Seq(Line)
        BY DEF WalTypeInv, WalTypeOK
      <4>2. n # 0 => SubSeq(drained[t], 1, n) \in Seq(Entry) /\ SubSeq(drained[t], 1, n) # <<>>
        BY <4>1, PrefixType
      <4> QED
        BY <4>1, <4>2, AppendLinesType
    <3> QED
      BY <3>2, <3>3 DEF WalTypeInv, WalTypeOK
  <2> QED
    BY <2>1, <2>2 DEF Crash
<1>2. \A i \in Instances : InMemory(i) \subseteq 1 .. MaxClock
  <2>1. ASSUME NEW i \in Instances, NEW t \in Threads
        PROVE  Stamps(buffer[i]) \cup Stamps(drained[t]) \subseteq 1 .. MaxClock
    BY EntriesAreLines, StampsRange DEF WalTypeInv, WalTypeOK
  <2> QED
    BY <2>1 DEF InMemory, Threads
<1>3. <<>> \in Seq(Entry)
  OBVIOUS
<1> QED
  BY <1>1, <1>2, <1>3, ZenonT(40) DEF Crash, WalTypeInv, WalTypeOK

LEMMA WalTypeStep ==
  ASSUME WalTypeInv, [WalNext]_walVars
  PROVE  WalTypeInv'
<1>1. ASSUME NEW i \in Instances, NEW op \in Ops, Stamp(i, op) PROVE WalTypeInv'
  BY <1>1, StampType
<1>2. ASSUME NEW i \in Instances, AppendEntry(i) PROVE WalTypeInv'
  BY <1>2, AppendType
<1>3. ASSUME NEW i \in Instances, FlusherDrain(i) PROVE WalTypeInv'
  BY <1>3, FlusherDrainType
<1>4. ASSUME NEW i \in Instances,
             FlushCall(i) \/ ReadCall(i) \/ CheckpointCall(i) \/ CloseCall(i)
      PROVE  WalTypeInv'
  <2>1. stopped' \in SUBSET Instances
    BY <1>4 DEF FlushCall, ReadCall, CheckpointCall, CloseCall, WalTypeInv, WalTypeOK
  <2>2. \/ CallFlushing(i, "flush")
        \/ CallFlushing(i, "read")
        \/ CallFlushing(i, "checkpoint")
    BY <1>4 DEF FlushCall, ReadCall, CheckpointCall, CloseCall
  <2> QED
    BY <2>1, <2>2, CallType
<1>5. ASSUME NEW i \in Instances, FlushReturn(i) \/ ReadReturn(i) PROVE WalTypeInv'
  BY <1>5 DEF FlushReturn, ReadReturn, WalTypeInv, WalTypeOK, walDisk, walHistory
<1>6. ASSUME NEW i \in Instances, CheckpointOpen(i) PROVE WalTypeInv'
  BY <1>6 DEF CheckpointOpen, WalTypeInv, WalTypeOK, walHistory
<1>7. ASSUME NEW i \in Instances, CheckpointMark(i) PROVE WalTypeInv'
  BY <1>7 DEF CheckpointMark, WalTypeInv, WalTypeOK
<1>8. ASSUME NEW i \in Instances, CheckpointTruncate(i) \/ TruncateLog(i) PROVE WalTypeInv'
  <2>1. <<>> \in Seq(Line)
    OBVIOUS
  <2> QED
    <3>1. CASE CheckpointTruncate(i)
      BY <2>1, <3>1 DEF CheckpointTruncate, WalTypeInv, WalTypeOK, walHistory
    <3>2. CASE TruncateLog(i)
      <4>1. file' \in Seq(Line) /\ torn' \in BOOLEAN
        BY <2>1, <3>2 DEF TruncateLog
      <4>2. /\ lastMark' = clock
            /\ UNCHANGED <<clock, call, stamped, buffer, drained, toRotate, stopped, holder,
                           rotated, cutoff, accepted, synced, lost>>
        BY <3>2 DEF TruncateLog, walVolatile
      <4> QED
        BY <4>1, <4>2 DEF WalTypeInv, WalTypeOK
    <3> QED
      BY <1>8, <3>1, <3>2
<1>9. ASSUME NEW t \in Threads, WriteLines(t) \/ MaybeRotate(t) PROVE WalTypeInv'
  BY <1>9, WriteType, RotateType
<1>10. CASE Crash
  BY <1>10, CrashType
<1>11. CASE UNCHANGED walVars
  BY <1>11 DEF WalTypeInv, WalTypeOK, walVars, walVolatile, walDisk, walHistory
<1> QED
  BY <1>1, <1>2, <1>3, <1>4, <1>5, <1>6, <1>7, <1>8, <1>9, <1>10, <1>11 DEF WalNext, WalStep

\* Every variable keeps its type: stamps stay within MaxClock and no checkpoint is
\* dated after the clock.
THEOREM WalTypeCorrect == WalSpec => []WalTypeOK
<1>1. WalTypeInv => WalTypeOK
  BY DEF WalTypeInv
<1> QED
  BY <1>1, WalTypeInit, WalTypeStep, PTL DEF WalSpec

-----------------------------------------------------------------------------
(***************************************************************************)
(* What was fsynced is replayed.  The step to fear is CheckpointTruncate:  *)
(* it empties the file, and is harmless because every fsynced entry is     *)
(* then older than the mark, the FileLock having kept all writers out      *)
(* since the mark was written.  A rotation leaves a rotated file, and a    *)
(* line appended to a torn one a line that cannot be read.                 *)
(***************************************************************************)
\* Rotated logs are kept: with max_rotated_keep = 0 _cleanup_rotated deletes the log itself.
RotatedKept == MaxSize = 0 \/ MaxRotatedKeep > 0

\* The log is all there is: nothing was rotated away, every line can be read.
Whole == rotated = <<>> /\ Garbage \notin ToSet(file)

MarkedLast == cutoff <= lastMark /\ (MaxSize = 0 => toRotate = {})

LockInv == \A i \in Instances : call[i] \in {"mark", "truncate"} => holder = i

\* No entry is dated after the clock.
PastStamps ==
  /\ \A i \in Instances : Stamps(buffer[i]) \subseteq 1 .. clock
  /\ \A i \in Instances : stamped[i] # None => stamped[i].ts <= clock
  /\ \A t \in Threads : Stamps(drained[t]) \subseteq 1 .. clock
  /\ synced \subseteq 1 .. clock

\* While a checkpoint is between its mark and its truncation, every fsynced entry
\* is behind the mark.
MarkCovers ==
  \A i \in Instances : call[i] = "truncate" => \A t \in synced : t <= lastMark

InFile == Whole => \A t \in synced : t > lastMark => t \in Stamps(file)

SyncInv == MarkedLast /\ LockInv /\ PastStamps /\ MarkCovers /\ InFile

LEMMA StampsEmpty == Stamps(<<>>) = {}
  BY DEF Stamps, ToSet

LEMMA StampsAppend ==
  ASSUME NEW s \in Seq(Entry), NEW e \in Entry
  PROVE  Stamps(Append(s, e)) = Stamps(s) \cup {e.ts}
<1>1. Append(s, e) = s \o <<e>> /\ s \in Seq(Line) /\ <<e>> \in Seq(Line)
  BY EntriesAreLines DEF Line
<1>2. ToSet(<<e>>) = {e}
  BY DEF ToSet
<1>3. Stamps(<<e>>) = {e.ts}
  BY <1>2, EntriesAreLines DEF Stamps
<1> QED
  BY <1>1, <1>3, StampsConcat

LEMMA SyncInit == WalInit => SyncInv
<1>1. ASSUME WalInit
      PROVE  /\ \A i \in Instances : call[i] = "none" /\ stamped[i] = None /\ buffer[i] = <<>>
             /\ \A t \in Threads : drained[t] = <<>>
             /\ toRotate = {} /\ cutoff = 0 /\ lastMark = 0 /\ synced = {}
  BY <1>1 DEF WalInit
<1> QED
  BY <1>1, StampsEmpty DEF SyncInv, MarkedLast, LockInv, PastStamps, MarkCovers, InFile

\* A step that leaves the disk alone and gives no instance the lock.
LEMMA QuietStep ==
  ASSUME WalTypeInv, SyncInv, PastStamps',
         UNCHANGED <<file, rotated, cutoff, lastMark, synced, toRotate, holder>>,
         \A i \in Instances : call'[i] \in {"mark", "truncate"} => call'[i] = call[i]
  PROVE  SyncInv'
  BY DEF SyncInv, MarkedLast, LockInv, MarkCovers, InFile, Whole

LEMMA DrainPast ==
  ASSUME WalTypeInv, SyncInv, NEW t \in Threads, clock' = clock, synced' = synced,
         \/ Drain(t)
         \/ UNCHANGED <<stamped, buffer, drained, toRotate, holder>>
  PROVE  PastStamps' /\ UNCHANGED <<stamped, toRotate, holder>>
<1>1. CASE Drain(t)
  <2>1. /\ t[1] \in Instances
        /\ buffer' = [buffer EXCEPT ![t[1]] = <<>>]
        /\ drained' = [drained EXCEPT ![t] = buffer[t[1]]]
        /\ UNCHANGED <<stamped, toRotate, holder>>
    BY <1>1 DEF Drain, Threads
  <2>2. buffer \in [Instances -> Seq(Entry)] /\ drained \in [Threads -> Seq(Entry)]
    BY DEF WalTypeInv, WalTypeOK
  <2>3. ASSUME NEW i \in Instances
        PROVE  Stamps(buffer'[i]) \subseteq 1 .. clock
    BY <2>1, <2>2, StampsEmpty DEF SyncInv, PastStamps
  <2>4. ASSUME NEW u \in Threads
        PROVE  Stamps(drained'[u]) \subseteq 1 .. clock
    BY <2>1, <2>2 DEF SyncInv, PastStamps
  <2> QED
    BY <2>1, <2>3, <2>4 DEF SyncInv, PastStamps
<1>2. CASE UNCHANGED <<stamped, buffer, drained, toRotate, holder>>
  BY <1>2 DEF SyncInv, PastStamps
<1> QED
  BY <1>1, <1>2

LEMMA StampSync ==
  ASSUME WalTypeInv, SyncInv, NEW i \in Instances, NEW op \in Ops, Stamp(i, op)
  PROVE  SyncInv'
<1>1. /\ clock \in Nat /\ clock' = clock + 1
      /\ stamped' = [stamped EXCEPT ![i] = [ts |-> clock + 1, op |-> op]]
      /\ UNCHANGED <<buffer, drained, toRotate, holder, file, rotated, cutoff, synced, lastMark>>
      /\ call' = [call EXCEPT ![i] = "log"]
  BY DEF Stamp, WalTypeInv, WalTypeOK, walDisk, walHistory
<1>2. \A S \in SUBSET (1 .. clock) : S \subseteq 1 .. clock'
  BY <1>1
<1>3. ASSUME NEW j \in Instances, stamped'[j] # None
      PROVE  stamped'[j].ts <= clock'
  <2>1. CASE j = i
    BY <1>1, <2>1 DEF WalTypeInv, WalTypeOK
  <2>2. CASE j # i
    <3>1. stamped'[j] = stamped[j] /\ stamped[j] \in Entry
      BY <1>1, <1>3, <2>2 DEF WalTypeInv, WalTypeOK
    <3>2. stamped[j].ts <= clock /\ stamped[j].ts \in 1 .. MaxClock
      BY <1>3, <3>1, EntriesAreLines DEF SyncInv, PastStamps
    <3> QED
      BY <1>1, <3>1, <3>2, WalAssumption
  <2> QED
    BY <2>1, <2>2
<1>4. PastStamps'
  BY <1>1, <1>2, <1>3 DEF SyncInv, PastStamps
<1>5. \A j \in Instances : call'[j] \in {"mark", "truncate"} => call'[j] = call[j]
  BY <1>1 DEF WalTypeInv, WalTypeOK
<1> QED
  BY <1>1, <1>4, <1>5, QuietStep

LEMMA AppendSync ==
  ASSUME WalTypeInv, SyncInv, NEW i \in Instances, AppendEntry(i)
  PROVE  SyncInv'
<1>1. /\ stamped[i] \in Entry /\ stamped[i].ts <= clock
      /\ buffer[i] \in Seq(Entry)
  BY DEF AppendEntry, WalTypeInv, WalTypeOK, SyncInv, PastStamps
<1>2. /\ buffer' = [buffer EXCEPT ![i] = Append(@, stamped[i])]
      /\ stamped' = [stamped EXCEPT ![i] = None]
      /\ call' = [call EXCEPT ![i] = "none"]
      /\ UNCHANGED <<clock, drained, toRotate, holder, file, rotated, cutoff, synced, lastMark>>
  BY DEF AppendEntry, walDisk
<1>3. Stamps(Append(buffer[i], stamped[i])) = Stamps(buffer[i]) \cup {stamped[i].ts}
  BY <1>1, StampsAppend
<1>4. stamped[i].ts \in 1 .. clock
  BY <1>1, EntriesAreLines DEF WalTypeInv, WalTypeOK
<1>5. \A j \in Instances : buffer'[j] = IF j = i THEN Append(buffer[i], stamped[i]) ELSE buffer[j]
  BY <1>2 DEF WalTypeInv, WalTypeOK
<1>6. \A j \in Instances : stamped'[j] = IF j = i THEN None ELSE stamped[j]
  BY <1>2 DEF WalTypeInv, WalTypeOK
<1>7. \A j \in Instances : Stamps(buffer'[j]) \subseteq 1 .. clock
  BY <1>3, <1>4, <1>5 DEF SyncInv, PastStamps
<1>8. PastStamps'
  BY <1>2, <1>6, <1>7 DEF SyncInv, PastStamps
<1>9. \A j \in Instances : call'[j] \in {"mark", "truncate"} => call'[j] = call[j]
  BY <1>2 DEF WalTypeInv, WalTypeOK
<1> QED
  BY <1>2, <1>8, <1>9, QuietStep

LEMMA FlusherDrainSync ==
  ASSUME WalTypeInv, SyncInv, NEW i \in Instances, FlusherDrain(i)
  PROVE  SyncInv'
<1>1. /\ <<i, "flusher">> \in Threads /\ Drain(<<i, "flusher">>)
      /\ UNCHANGED <<clock, call, file, rotated, cutoff, synced, lastMark>>
  BY DEF FlusherDrain, Threads, walDisk, walHistory
<1>2. PastStamps' /\ UNCHANGED <<stamped, toRotate, holder>>
  BY <1>1, DrainPast
<1> QED
  BY <1>1, <1>2, QuietStep

LEMMA CallSync ==
  ASSUME WalTypeInv, SyncInv, NEW i \in Instances,
         NEW name \in {"flush", "read", "checkpoint"}, CallFlushing(i, name)
  PROVE  SyncInv'
<1>1. <<i, "caller">> \in Threads
  BY DEF Threads
<1>2. /\ \/ Drain(<<i, "caller">>)
         \/ UNCHANGED <<stamped, buffer, drained, toRotate, holder>>
      /\ UNCHANGED <<clock, file, rotated, cutoff, synced, lastMark>>
      /\ call' = [call EXCEPT ![i] = name]
  BY DEF CallFlushing, walDisk, walHistory
<1>3. PastStamps' /\ UNCHANGED <<stamped, toRotate, holder>>
  BY <1>1, <1>2, DrainPast
<1>4. \A j \in Instances : call'[j] \in {"mark", "truncate"} => call'[j] = call[j]
  BY <1>2 DEF WalTypeInv, WalTypeOK
<1> QED
  BY <1>2, <1>3, <1>4, QuietStep

\* A finished call, a finished return, a stutter.
LEMMA UnchangedPast ==
  ASSUME SyncInv, UNCHANGED <<clock, stamped, buffer, drained, synced>>
  PROVE  PastStamps'
  BY DEF SyncInv, PastStamps

LEMMA ReturnSync ==
  ASSUME WalTypeInv, SyncInv, NEW i \in Instances, FlushReturn(i) \/ ReadReturn(i)
  PROVE  SyncInv'
<1>1. /\ UNCHANGED <<clock, stamped, buffer, drained, toRotate, holder, file, rotated, cutoff,
                     synced, lastMark>>
      /\ call' = [call EXCEPT ![i] = "none"]
  BY DEF FlushReturn, ReadReturn, walDisk, walHistory
<1>2. \A j \in Instances : call'[j] \in {"mark", "truncate"} => call'[j] = call[j]
  BY <1>1 DEF WalTypeInv, WalTypeOK
<1> QED
  BY <1>1, <1>2, UnchangedPast, QuietStep

\* Lines after which every line can be read were appended to such lines, and keep them.
LEMMA WholeAppended ==
  ASSUME WalTypeInv, NEW s \in Seq(Entry), s # <<>>, Garbage \notin ToSet(AppendLines(s))
  PROVE  /\ Garbage \notin ToSet(file)
         /\ Stamps(AppendLines(s)) = Stamps(file) \cup Stamps(s)
<1>1. /\ file \in Seq(Line) /\ s \in Seq(Line) /\ Tail(s) \in Seq(Line)
      /\ <<Garbage>> \in Seq(Line) /\ ToSet(<<Garbage>>) = {Garbage}
  BY EntriesAreLines DEF WalTypeInv, WalTypeOK, Line, ToSet
<1>2. \A r \in Seq(Line) : file \o r \in Seq(Line)
  BY <1>1
<1>3. CASE torn
  <2>0. \A a, b \in Seq(Line) : ToSet(a \o b) = ToSet(a) \cup ToSet(b)
    BY ToSetConcat
  <2>1. ToSet(file \o <<Garbage>>) = ToSet(file) \cup ToSet(<<Garbage>>)
    BY <1>1, <2>0
  <2>2. file \o <<Garbage>> \in Seq(Line)
    BY <1>1, <1>2
  <2>3. ToSet((file \o <<Garbage>>) \o Tail(s)) = ToSet(file \o <<Garbage>>) \cup ToSet(Tail(s))
    BY <1>1, <2>0, <2>2, Zenon
  <2> QED
    BY <1>1, <1>3, <2>1, <2>3 DEF AppendLines
<1>4. CASE ~torn
  <2>1. AppendLines(s) = file \o s
    BY <1>4 DEF AppendLines
  <2>2. ToSet(file \o s) = ToSet(file) \cup ToSet(s) /\ Stamps(file \o s) = Stamps(file) \cup Stamps(s)
    BY <1>1, ToSetConcat, StampsConcat
  <2> QED
    BY <2>1, <2>2
<1> QED
  BY <1>3, <1>4

LEMMA WriteSync ==
  ASSUME WalTypeInv, SyncInv, NEW t \in Threads, WriteLines(t)
  PROVE  SyncInv'
<1>1. /\ drained[t] \in Seq(Entry) /\ drained[t] # <<>> /\ holder = None
      /\ file' = AppendLines(drained[t])
      /\ synced' = synced \cup Stamps(drained[t])
      /\ drained' = [drained EXCEPT ![t] = <<>>]
      /\ MaxSize = 0 => toRotate' = toRotate
      /\ UNCHANGED <<clock, call, stamped, buffer, holder, rotated, cutoff, lastMark>>
  BY DEF WriteLines, WalTypeInv, WalTypeOK
<1>2. Whole' => Whole /\ Stamps(file') = Stamps(file) \cup Stamps(drained[t])
  <2>1. Whole' => Garbage \notin ToSet(file') /\ rotated = <<>>
    BY <1>1 DEF Whole, ToSet
  <2> QED
    BY <1>1, <2>1, WholeAppended DEF Whole
<1>3. \A i \in Instances : call[i] \notin {"mark", "truncate"}
  <2>1. None \notin Instances
    BY WalAssumption
  <2> QED
    BY <1>1, <2>1 DEF SyncInv, LockInv
<1>4. \A u \in Threads : Stamps(drained'[u]) \subseteq 1 .. clock
  BY <1>1, StampsEmpty DEF WalTypeInv, WalTypeOK, SyncInv, PastStamps
<1>5. PastStamps'
  BY <1>1, <1>4 DEF SyncInv, PastStamps
<1>6. InFile'
  BY <1>1, <1>2 DEF SyncInv, InFile
<1>7. MarkedLast' /\ LockInv' /\ MarkCovers'
  BY <1>1, <1>3 DEF SyncInv, MarkedLast, LockInv, MarkCovers
<1> QED
  BY <1>5, <1>6, <1>7 DEF SyncInv

\* A rotation leaves a rotated file.
LEMMA RotateSync ==
  ASSUME RotatedKept, WalTypeInv, SyncInv, NEW t \in Threads, MaybeRotate(t)
  PROVE  SyncInv'
<1>1. /\ rotated \in Seq(Seq(Line)) /\ file \in Seq(Line)
      /\ UNCHANGED <<clock, call, stamped, buffer, drained, holder, cutoff, synced, lastMark>>
  BY DEF MaybeRotate, WalTypeInv, WalTypeOK, walHistory
<1>2. PastStamps'
  BY <1>1, UnchangedPast
<1>3. MarkedLast' /\ LockInv' /\ MarkCovers'
  BY <1>1 DEF MaybeRotate, SyncInv, MarkedLast, LockInv, MarkCovers
<1>4. MaxSize # 0
  BY DEF MaybeRotate, SyncInv, MarkedLast
<1>5. CASE UNCHANGED <<file, rotated>>
  <2>1. InFile'
    BY <1>1, <1>5 DEF SyncInv, InFile, Whole
  <2> QED
    BY <1>2, <1>3, <2>1 DEF SyncInv
<1>6. CASE rotated' = Newest(Append(rotated, file))
  <2> DEFINE fs == Append(rotated, file)
  <2>1. fs \in Seq(Seq(Line)) /\ Len(fs) \in Nat /\ Len(fs) > 0
    BY <1>1
  <2> HIDE DEF fs
  <2>2. MaxRotatedKeep \in Nat /\ MaxRotatedKeep > 0
    BY <1>4, WalAssumption DEF RotatedKept
  <2>3. Newest(fs) # <<>>
    <3>1. CASE Len(fs) > MaxRotatedKeep
      <4>1. Len(SubSeq(fs, Len(fs) - MaxRotatedKeep + 1, Len(fs))) = MaxRotatedKeep
        BY <2>1, <2>2, <3>1
      <4>2. Newest(fs) = SubSeq(fs, Len(fs) - MaxRotatedKeep + 1, Len(fs))
        BY <3>1 DEF Newest
      <4>3. Len(Newest(fs)) = MaxRotatedKeep
        BY <4>1, <4>2, Zenon
      <4> QED
        BY <2>2, <4>3
    <3>2. CASE ~ Len(fs) > MaxRotatedKeep
      BY <2>1, <3>2 DEF Newest
    <3> QED
      BY <3>1, <3>2
  <2>4. rotated' # <<>>
    BY <1>6, <2>3 DEF fs
  <2>5. InFile'
    BY <2>4 DEF InFile, Whole
  <2> QED
    BY <1>2, <1>3, <2>5 DEF SyncInv
<1>7. CASE rotated # <<>> /\ rotated' = [rotated EXCEPT ![Len(rotated)] = file]
  <2>1. rotated' # <<>>
    BY <1>1, <1>7
  <2>2. InFile'
    BY <2>1 DEF InFile, Whole
  <2> QED
    BY <1>2, <1>3, <2>2 DEF SyncInv
<1> QED
  BY <1>5, <1>6, <1>7 DEF MaybeRotate

LEMMA OpenSync ==
  ASSUME WalTypeInv, SyncInv, NEW i \in Instances, CheckpointOpen(i)
  PROVE  SyncInv'
<1>1. /\ holder = None /\ holder' = i /\ cutoff' = 0
      /\ call' = [call EXCEPT ![i] = "mark"]
      /\ UNCHANGED <<clock, stamped, buffer, drained, toRotate, file, rotated, synced, lastMark>>
  BY DEF CheckpointOpen, walHistory
<1>2. None \notin Instances /\ lastMark \in Nat
  BY WalAssumption DEF WalTypeInv, WalTypeOK
<1>3. \A j \in Instances : call[j] \notin {"mark", "truncate"}
  BY <1>1, <1>2 DEF SyncInv, LockInv
<1>4. \A j \in Instances : call'[j] = IF j = i THEN "mark" ELSE call[j]
  BY <1>1 DEF WalTypeInv, WalTypeOK
<1>5. PastStamps'
  BY <1>1, UnchangedPast
<1>6. MarkedLast' /\ InFile'
  BY <1>1, <1>2 DEF SyncInv, MarkedLast, InFile, Whole
<1>7. LockInv' /\ MarkCovers'
  BY <1>1, <1>3, <1>4 DEF LockInv, MarkCovers
<1> QED
  BY <1>5, <1>6, <1>7 DEF SyncInv

LEMMA MarkSync ==
  ASSUME WalTypeInv, SyncInv, NEW i \in Instances, CheckpointMark(i)
  PROVE  SyncInv'
<1>1. /\ clock' = clock + 1 /\ cutoff' = clock + 1 /\ lastMark' = clock + 1
      /\ call[i] = "mark" /\ call' = [call EXCEPT ![i] = "truncate"]
      /\ UNCHANGED <<stamped, buffer, drained, toRotate, holder, file, rotated, synced>>
  BY DEF CheckpointMark
<1>2. clock \in Nat
  BY DEF WalTypeInv, WalTypeOK
<1>3. \A t \in synced : t \in 1 .. clock /\ t <= lastMark'
  BY <1>1, <1>2 DEF SyncInv, PastStamps
<1>4. \A j \in Instances : call'[j] = IF j = i THEN "truncate" ELSE call[j]
  BY <1>1 DEF WalTypeInv, WalTypeOK
<1>5. LockInv'
  BY <1>1, <1>4 DEF SyncInv, LockInv
<1>6. \A S \in SUBSET (1 .. clock) : S \subseteq 1 .. clock'
  BY <1>1, <1>2
<1>7. \A j \in Instances : stamped[j] # None => stamped[j].ts <= clock'
  <2>1. ASSUME NEW j \in Instances, stamped[j] # None
        PROVE  stamped[j].ts <= clock'
    <3>1. stamped[j].ts \in 1 .. MaxClock /\ stamped[j].ts <= clock
      BY <2>1, EntriesAreLines DEF WalTypeInv, WalTypeOK, SyncInv, PastStamps
    <3> QED
      BY <1>1, <1>2, <3>1, WalAssumption
  <2> QED
    BY <2>1
<1>8. PastStamps'
  BY <1>1, <1>6, <1>7 DEF SyncInv, PastStamps
<1>9. MarkCovers'
  BY <1>1, <1>3 DEF MarkCovers
<1>10. InFile'
  <2>1. lastMark' \in Nat
    BY <1>1, <1>2
  <2> QED
    BY <1>1, <1>2, <1>3, <2>1 DEF InFile
<1>11. MarkedLast'
  BY <1>1, <1>2 DEF SyncInv, MarkedLast
<1> QED
  BY <1>5, <1>8, <1>9, <1>10, <1>11 DEF SyncInv

LEMMA TruncateSync ==
  ASSUME WalTypeInv, SyncInv, NEW i \in Instances, CheckpointTruncate(i)
  PROVE  SyncInv'
<1>1. /\ call[i] = "truncate" /\ call' = [call EXCEPT ![i] = "none"] /\ holder' = None
      /\ file' = <<>>
      /\ UNCHANGED <<clock, stamped, buffer, drained, toRotate, cutoff, synced, lastMark>>
  BY DEF CheckpointTruncate, walHistory
<1>2. \A j \in Instances : j # i => call[j] \notin {"mark", "truncate"}
  BY <1>1 DEF SyncInv, LockInv
<1>3. \A j \in Instances : call'[j] \notin {"mark", "truncate"}
  BY <1>1, <1>2 DEF WalTypeInv, WalTypeOK
<1>4. \A t \in synced : t <= lastMark /\ t \in Nat
  BY <1>1 DEF SyncInv, MarkCovers, WalTypeInv, WalTypeOK
<1>5. PastStamps'
  BY <1>1, UnchangedPast
<1>6. MarkedLast' /\ LockInv' /\ MarkCovers'
  BY <1>1, <1>3 DEF SyncInv, MarkedLast, LockInv, MarkCovers
<1>7. InFile'
  <2>1. lastMark \in Nat
    BY DEF WalTypeInv, WalTypeOK
  <2> QED
    BY <1>1, <1>4, <2>1 DEF InFile
<1> QED
  BY <1>5, <1>6, <1>7 DEF SyncInv

LEMMA TruncateLogSync ==
  ASSUME WalTypeInv, SyncInv, NEW i \in Instances, TruncateLog(i)
  PROVE  SyncInv'
<1>1. /\ holder = None /\ file' = <<>> /\ lastMark' = clock
      /\ UNCHANGED <<clock, call, stamped, buffer, drained, toRotate, holder, cutoff, synced>>
  BY DEF TruncateLog, walVolatile
<1>2. None \notin Instances /\ clock \in Nat /\ cutoff \in 0 .. clock
  BY WalAssumption DEF WalTypeInv, WalTypeOK
<1>3. \A j \in Instances : call[j] \notin {"mark", "truncate"}
  BY <1>1, <1>2 DEF SyncInv, LockInv
<1>4. \A t \in synced : t \in 1 .. clock
  BY DEF SyncInv, PastStamps
<1>5. PastStamps'
  BY <1>1, UnchangedPast
<1>6. InFile'
  BY <1>1, <1>2, <1>4 DEF InFile
<1>7. MarkedLast' /\ LockInv' /\ MarkCovers'
  BY <1>1, <1>2, <1>3 DEF SyncInv, MarkedLast, LockInv, MarkCovers
<1> QED
  BY <1>5, <1>6, <1>7 DEF SyncInv

\* A first part of a batch may be in the file that the next process finds.
LEMMA CrashSync ==
  ASSUME WalTypeInv, SyncInv, Crash
  PROVE  SyncInv'
<1>1. /\ \A i \in Instances : call'[i] = "none" /\ stamped'[i] = None /\ buffer'[i] = <<>>
      /\ \A t \in Threads : drained'[t] = <<>>
      /\ toRotate' = {} /\ holder' = None
      /\ UNCHANGED <<clock, rotated, cutoff, synced, lastMark>>
  BY DEF Crash
<1>2. Whole' => Whole /\ Stamps(file) \subseteq Stamps(file')
  <2>1. CASE file' = file
    BY <1>1, <2>1 DEF Whole
  <2>2. CASE file' # file
    <3>1. PICK t \in Threads : PartialWrite(t)
      BY <2>2 DEF Crash
    <3>2. PICK n \in 1 .. Len(drained[t]) : file' = AppendLines(SubSeq(drained[t], 1, n))
      BY <2>2, <3>1 DEF PartialWrite
    <3>3. drained[t] \in Seq(Entry)
      BY DEF WalTypeInv, WalTypeOK
    <3>4. SubSeq(drained[t], 1, n) \in Seq(Entry) /\ SubSeq(drained[t], 1, n) # <<>>
      BY <3>3, PrefixType
    <3>5. Whole' => Garbage \notin ToSet(file') /\ rotated = <<>>
      BY <1>1 DEF Whole, ToSet
    <3> QED
      BY <3>2, <3>4, <3>5, WholeAppended DEF Whole
  <2> QED
    BY <2>1, <2>2
<1>3. PastStamps'
  BY <1>1, StampsEmpty DEF SyncInv, PastStamps
<1>4. MarkedLast' /\ LockInv' /\ MarkCovers' /\ InFile'
  BY <1>1, <1>2 DEF SyncInv, MarkedLast, LockInv, MarkCovers, InFile
<1> QED
  BY <1>3, <1>4 DEF SyncInv

LEMMA SyncStep ==
  ASSUME RotatedKept, WalTypeInv, SyncInv, [WalNext]_walVars
  PROVE  SyncInv'
<1>1. ASSUME NEW i \in Instances, NEW op \in Ops, Stamp(i, op) PROVE SyncInv'
  BY <1>1, StampSync
<1>2. ASSUME NEW i \in Instances, AppendEntry(i) \/ FlusherDrain(i) PROVE SyncInv'
  BY <1>2, AppendSync, FlusherDrainSync
<1>3. ASSUME NEW i \in Instances,
             FlushCall(i) \/ ReadCall(i) \/ CheckpointCall(i) \/ CloseCall(i)
      PROVE  SyncInv'
  BY <1>3, CallSync DEF FlushCall, ReadCall, CheckpointCall, CloseCall
<1>4. ASSUME NEW i \in Instances, FlushReturn(i) \/ ReadReturn(i) PROVE SyncInv'
  BY <1>4, ReturnSync
<1>5. ASSUME NEW i \in Instances,
             CheckpointOpen(i) \/ CheckpointMark(i) \/ CheckpointTruncate(i) \/ TruncateLog(i)
      PROVE  SyncInv'
  BY <1>5, OpenSync, MarkSync, TruncateSync, TruncateLogSync
<1>6. ASSUME NEW t \in Threads, WriteLines(t) PROVE SyncInv'
  BY <1>6, WriteSync
<1>7. ASSUME NEW t \in Threads, MaybeRotate(t) PROVE SyncInv'
  BY <1>7, RotateSync
<1>8. CASE Crash
  BY <1>8, CrashSync
<1>9. CASE UNCHANGED walVars
  BY <1>9, UnchangedPast, QuietStep DEF walVars, walVolatile, walDisk, walHistory
<1> QED
  BY <1>1, <1>2, <1>3, <1>4, <1>5, <1>6, <1>7, <1>8, <1>9 DEF WalNext, WalStep

\* Unless a rotation has moved a log away or a torn line has swallowed an entry, an entry
\* whose fsync returned and that no checkpoint has covered is among the lines the next
\* replay applies.
THEOREM SyncedSurvives ==
  ASSUME RotatedKept
  PROVE  WalSpec => []SyncedIsReplayed
<1>1. WalTypeInv /\ SyncInv => SyncedIsReplayed
  <2>1. ASSUME WalTypeInv, SyncInv, Whole, NEW t \in synced, t > lastMark
        PROVE  \E l \in ToSet(file) : IsPending(l) /\ l.ts = t
    <3>1. PICK l \in ToSet(file) : IsEntry(l) /\ l.ts = t
      BY <2>1 DEF SyncInv, InFile, Stamps
    <3>2. t > cutoff
      BY <2>1 DEF SyncInv, MarkedLast, WalTypeInv, WalTypeOK
    <3> QED
      BY <3>1, <3>2 DEF IsPending
  <2>2. ASSUME WalTypeInv, SyncInv, Whole, NEW t \in synced
        PROVE  t > lastMark => \E l \in ToSet(file) : IsPending(l) /\ l.ts = t
    BY <2>1, <2>2
  <2> QED
    BY <2>2 DEF SyncedIsReplayed, Whole
<1>2. WalInit => WalTypeInv /\ SyncInv
  BY WalTypeInit, SyncInit
<1>3. WalTypeInv /\ SyncInv /\ [WalNext]_walVars => (WalTypeInv /\ SyncInv)'
  BY WalTypeStep, SyncStep
<1> QED
  BY <1>1, <1>2, <1>3, PTL DEF WalSpec

-----------------------------------------------------------------------------
(***************************************************************************)
(* No entry is held twice, whatever rotates, tears, checkpoints or dies.   *)
(* Each stamp is newer than all there were; a step moves an entry from one *)
(* place to the next, or forgets it.                                       *)
(***************************************************************************)
OnDisk == Stamps(file) \cup UNION {Stamps(rotated[k]) : k \in DOMAIN rotated}

MemoryCopies ==
  \A p \in Places :
    /\ NoTwice(LinesAt(p)) /\ Stamps(LinesAt(p)) \subseteq 1 .. clock
    /\ \A q \in Places : p # q => Apart(LinesAt(p), LinesAt(q))

DiskCopies ==
  /\ NoTwice(file) /\ OnDisk \subseteq 1 .. clock
  /\ \A k \in DOMAIN rotated :
       /\ NoTwice(rotated[k]) /\ Apart(rotated[k], file)
       /\ \A l \in DOMAIN rotated : k # l => Apart(rotated[k], rotated[l])

MemoryOrDisk == \A p \in Places : Stamps(LinesAt(p)) \cap OnDisk = {}

CopyInv == MemoryCopies /\ DiskCopies /\ MemoryOrDisk

LEMMA CopyInvMeansOneCopy == CopyInv => OneCopy
  BY DEF CopyInv, MemoryCopies, DiskCopies, MemoryOrDisk, OnDisk, OneCopy, Apart

LEMMA PlacesAre ==
  /\ \A i \in Instances : /\ <<i, "stamped">> \in Places /\ <<i, "buffer">> \in Places
                          /\ LinesAt(<<i, "buffer">>) = buffer[i]
                          /\ LinesAt(<<i, "stamped">>) = IF call[i] = "log" THEN <<stamped[i]>> ELSE <<>>
  /\ \A t \in Threads : t \in Places /\ LinesAt(t) = drained[t]
                        /\ t[1] \in Instances /\ t # <<t[1], "buffer">> /\ t # <<t[1], "stamped">>
  /\ \A p \in Places : p \in Threads \/ \E i \in Instances : p = <<i, "stamped">> \/ p = <<i, "buffer">>
  BY DEF Places, Threads, LinesAt

LEMMA LinesAreEntries ==
  ASSUME WalTypeInv
  PROVE  \A p \in Places : LinesAt(p) \in Seq(Entry) /\ LinesAt(p) \in Seq(Line)
<1> SUFFICES ASSUME NEW p \in Places PROVE LinesAt(p) \in Seq(Entry) /\ LinesAt(p) \in Seq(Line)
  OBVIOUS
<1>1. CASE p \in Threads
  BY <1>1, PlacesAre, EntriesAreLines DEF WalTypeInv, WalTypeOK
<1>2. ASSUME NEW i \in Instances, p = <<i, "buffer">> PROVE LinesAt(p) \in Seq(Entry)
  BY <1>2 DEF LinesAt, WalTypeInv, WalTypeOK
<1>3. ASSUME NEW i \in Instances, p = <<i, "stamped">> PROVE LinesAt(p) \in Seq(Entry)
  <2>1. call[i] = "log" => stamped[i] \in Entry
    BY DEF WalTypeInv, WalTypeOK
  <2>2. call[i] = "log" => <<stamped[i]>> \in Seq(Entry)
    BY <2>1
  <2>3. LinesAt(p) = IF call[i] = "log" THEN <<stamped[i]>> ELSE <<>>
    BY <1>3 DEF LinesAt
  <2> QED
    BY <2>2, <2>3
<1> QED
  BY <1>1, <1>2, <1>3, PlacesAre, EntriesAreLines

\* Lists in which no entry is twice.
LEMMA NoTwiceEmpty == NoTwice(<<>>)
  BY DEF NoTwice

LEMMA NoTwiceConcat ==
  ASSUME NEW s \in Seq(Line), NEW r \in Seq(Line), NoTwice(s), NoTwice(r), Apart(s, r)
  PROVE  NoTwice(s \o r)
<1>1. /\ DOMAIN (s \o r) = 1 .. Len(s) + Len(r) /\ DOMAIN s = 1 .. Len(s) /\ DOMAIN r = 1 .. Len(r)
      /\ Len(s) \in Nat /\ Len(r) \in Nat
  OBVIOUS
<1>2. \A k \in 1 .. Len(s) + Len(r) : (s \o r)[k] = IF k <= Len(s) THEN s[k] ELSE r[k - Len(s)]
  OBVIOUS
<1>3. ASSUME NEW j \in DOMAIN s, NEW k \in DOMAIN r, IsEntry(s[j]), IsEntry(r[k]) PROVE s[j].ts # r[k].ts
  BY <1>3 DEF Apart, Stamps, ToSet
<1> SUFFICES ASSUME NEW j \in DOMAIN (s \o r), NEW k \in DOMAIN (s \o r),
                    IsEntry((s \o r)[j]), IsEntry((s \o r)[k]), (s \o r)[j].ts = (s \o r)[k].ts
             PROVE  j = k
  BY DEF NoTwice
<1>4. CASE j <= Len(s) /\ k <= Len(s)
  BY <1>1, <1>2, <1>4 DEF NoTwice
<1>5. CASE j > Len(s) /\ k > Len(s)
  <2>1. /\ j - Len(s) \in DOMAIN r /\ k - Len(s) \in DOMAIN r
        /\ (s \o r)[j] = r[j - Len(s)] /\ (s \o r)[k] = r[k - Len(s)]
    BY <1>1, <1>2, <1>5
  <2>2. j - Len(s) = k - Len(s)
    BY <2>1 DEF NoTwice
  <2> QED
    BY <1>1, <2>2
<1>6. CASE j <= Len(s) /\ k > Len(s)
  BY <1>1, <1>2, <1>3, <1>6
<1>7. CASE j > Len(s) /\ k <= Len(s)
  BY <1>1, <1>2, <1>3, <1>7
<1> QED
  BY <1>1, <1>4, <1>5, <1>6, <1>7

LEMMA NoTwiceOne ==
  ASSUME NEW e
  PROVE  NoTwice(<<e>>) /\ (IsEntry(e) => Stamps(<<e>>) = {e.ts}) /\ (~IsEntry(e) => Stamps(<<e>>) = {})
  BY DEF NoTwice, Stamps, ToSet

LEMMA NoTwiceTail ==
  ASSUME NEW s \in Seq(Line), s # <<>>, NoTwice(s)
  PROVE  NoTwice(Tail(s)) /\ Tail(s) \in Seq(Line) /\ Stamps(Tail(s)) \subseteq Stamps(s)
<1>1. /\ Tail(s) \in Seq(Line) /\ DOMAIN Tail(s) = 1 .. Len(s) - 1 /\ DOMAIN s = 1 .. Len(s)
      /\ Len(s) \in Nat /\ \A k \in 1 .. Len(s) - 1 : Tail(s)[k] = s[k + 1]
  OBVIOUS
<1>2. ASSUME NEW j \in DOMAIN Tail(s), NEW k \in DOMAIN Tail(s),
             IsEntry(Tail(s)[j]), IsEntry(Tail(s)[k]), Tail(s)[j].ts = Tail(s)[k].ts
      PROVE  j = k
  <2>1. j + 1 \in DOMAIN s /\ k + 1 \in DOMAIN s /\ Tail(s)[j] = s[j + 1] /\ Tail(s)[k] = s[k + 1]
    BY <1>1
  <2>2. j + 1 = k + 1
    BY <1>2, <2>1 DEF NoTwice
  <2> QED
    BY <1>1, <2>2
<1>3. ToSet(Tail(s)) \subseteq ToSet(s)
  BY <1>1 DEF ToSet
<1> QED
  BY <1>1, <1>2, <1>3 DEF NoTwice, Stamps

LEMMA NoTwicePrefix ==
  ASSUME NEW s \in Seq(Line), NEW n \in 1 .. Len(s), NoTwice(s)
  PROVE  /\ NoTwice(SubSeq(s, 1, n)) /\ SubSeq(s, 1, n) \in Seq(Line) /\ SubSeq(s, 1, n) # <<>>
         /\ Stamps(SubSeq(s, 1, n)) \subseteq Stamps(s)
<1> DEFINE r == SubSeq(s, 1, n)
<1>1. /\ r \in Seq(Line) /\ r # <<>> /\ DOMAIN r = 1 .. n /\ DOMAIN s = 1 .. Len(s) /\ Len(s) \in Nat
      /\ \A k \in 1 .. n : r[k] = s[k]
  OBVIOUS
<1> HIDE DEF r
<1>2. NoTwice(r)
  BY <1>1 DEF NoTwice
<1>3. ToSet(r) \subseteq ToSet(s)
  BY <1>1 DEF ToSet
<1> QED
  BY <1>1, <1>2, <1>3 DEF r, Stamps

\* The file after lines that it does not hold are appended.
LEMMA NoTwiceWritten ==
  ASSUME file \in Seq(Line), NoTwice(file), NEW s \in Seq(Line), s # <<>>, NoTwice(s), Apart(file, s)
  PROVE  NoTwice(AppendLines(s)) /\ Stamps(AppendLines(s)) \subseteq Stamps(file) \cup Stamps(s)
<1>1. CASE ~torn
  BY <1>1, NoTwiceConcat, StampsConcat DEF AppendLines
<1>2. CASE torn
  <2>1. NoTwice(Tail(s)) /\ Tail(s) \in Seq(Line) /\ Stamps(Tail(s)) \subseteq Stamps(s)
    BY NoTwiceTail
  <2>2. NoTwice(<<Garbage>>) /\ Stamps(<<Garbage>>) = {} /\ <<Garbage>> \in Seq(Line)
    BY NoTwiceOne DEF IsEntry, Line
  <2>3. file \o <<Garbage>> \in Seq(Line) /\ Stamps(file \o <<Garbage>>) = Stamps(file)
    <3>1. Stamps(file \o <<Garbage>>) = Stamps(file) \cup Stamps(<<Garbage>>)
      BY <2>2, StampsConcat
    <3>2. \A r \in Seq(Line) : file \o r \in Seq(Line)
      OBVIOUS
    <3> QED
      BY <2>2, <3>1, <3>2
  <2>4. NoTwice(file \o <<Garbage>>)
    BY <2>2, NoTwiceConcat DEF Apart
  <2>5. Apart(file \o <<Garbage>>, Tail(s))
    BY <2>1, <2>3 DEF Apart
  <2>6. NoTwice((file \o <<Garbage>>) \o Tail(s))
    BY <2>1, <2>3, <2>4, <2>5, NoTwiceConcat
  <2>7. Stamps((file \o <<Garbage>>) \o Tail(s)) = Stamps(file) \cup Stamps(Tail(s))
    BY <2>1, <2>3, StampsConcat
  <2> QED
    BY <1>2, <2>1, <2>6, <2>7 DEF AppendLines
<1> QED
  BY <1>1, <1>2
-----------------------------------------------------------------------------
(***************************************************************************)
(* Memory: a step keeps some places, empties others, moves the lines of    *)
(* one place behind those of another, or stamps a new entry.               *)
(***************************************************************************)
\* Places keep their lines or lose them all.
LEMMA MemoryKept ==
  ASSUME MemoryCopies, MemoryOrDisk, clock \in Nat, clock' \in Nat, clock' >= clock,
         OnDisk' \subseteq OnDisk,
         \A p \in Places : LinesAt(p)' = LinesAt(p) \/ LinesAt(p)' = <<>>
  PROVE  MemoryCopies' /\ MemoryOrDisk'
<1>1. Stamps(<<>>) = {}
  BY DEF Stamps, ToSet
<1>2. ASSUME NEW p \in Places
      PROVE  NoTwice(LinesAt(p)') /\ Stamps(LinesAt(p)') \subseteq Stamps(LinesAt(p))
  BY <1>1, NoTwiceEmpty DEF MemoryCopies
<1>3. 1 .. clock \subseteq 1 .. clock'
  OBVIOUS
<1>4. ASSUME NEW p \in Places, NEW q \in Places, p # q PROVE Apart(LinesAt(p)', LinesAt(q)')
  BY <1>2, <1>4 DEF MemoryCopies, Apart
<1>5. ASSUME NEW p \in Places
      PROVE  Stamps(LinesAt(p)') \subseteq 1 .. clock' /\ Stamps(LinesAt(p)') \cap OnDisk' = {}
  BY <1>2, <1>3 DEF MemoryCopies, MemoryOrDisk
<1>6. MemoryCopies'
  BY <1>2, <1>4, <1>5 DEF MemoryCopies, Apart, NoTwice, Stamps
<1> QED
  BY <1>5, <1>6 DEF MemoryOrDisk, Stamps

\* The lines of a move behind those of b.
LEMMA MemoryMoved ==
  ASSUME WalTypeInv, MemoryCopies, MemoryOrDisk, clock' = clock, OnDisk' = OnDisk,
         NEW a \in Places, NEW b \in Places, a # b,
         LinesAt(a)' = <<>>, LinesAt(b)' = LinesAt(b) \o LinesAt(a),
         \A p \in Places \ {a, b} : LinesAt(p)' = LinesAt(p)
  PROVE  MemoryCopies' /\ MemoryOrDisk'
<1>1. Stamps(<<>>) = {}
  BY DEF Stamps, ToSet
<1>2. /\ LinesAt(a) \in Seq(Line) /\ LinesAt(b) \in Seq(Line) /\ Apart(LinesAt(b), LinesAt(a))
      /\ NoTwice(LinesAt(a)) /\ NoTwice(LinesAt(b))
  BY LinesAreEntries DEF MemoryCopies
<1>3. NoTwice(LinesAt(b) \o LinesAt(a))
  BY <1>2, NoTwiceConcat
<1>4. Stamps(LinesAt(b) \o LinesAt(a)) = Stamps(LinesAt(b)) \cup Stamps(LinesAt(a))
  BY <1>2, StampsConcat
<1>5. ASSUME NEW p \in Places PROVE NoTwice(LinesAt(p)')
  BY <1>3, NoTwiceEmpty DEF MemoryCopies
<1>6. /\ Stamps(LinesAt(a)') = {}
      /\ Stamps(LinesAt(b)') = Stamps(LinesAt(b)) \cup Stamps(LinesAt(a))
      /\ \A p \in Places \ {a, b} : Stamps(LinesAt(p)') = Stamps(LinesAt(p))
  BY <1>1, <1>4
<1>7. ASSUME NEW p \in Places, NEW q \in Places, p # q
      PROVE  Stamps(LinesAt(p)') \cap Stamps(LinesAt(q)') = {}
  <2>1. \A x, y \in Places : x # y => Stamps(LinesAt(x)) \cap Stamps(LinesAt(y)) = {}
    BY DEF MemoryCopies, Apart
  <2> QED
    BY <1>6, <1>7, <2>1
<1>8. ASSUME NEW p \in Places
      PROVE  Stamps(LinesAt(p)') \subseteq 1 .. clock' /\ Stamps(LinesAt(p)') \cap OnDisk' = {}
  <2>1. \A x \in Places : Stamps(LinesAt(x)) \subseteq 1 .. clock /\ Stamps(LinesAt(x)) \cap OnDisk = {}
    BY DEF MemoryCopies, MemoryOrDisk
  <2> QED
    BY <1>6, <2>1
<1>9. MemoryCopies'
  BY <1>5, <1>7, <1>8 DEF MemoryCopies, Apart, NoTwice, Stamps
<1> QED
  BY <1>8, <1>9 DEF MemoryOrDisk, Stamps

\* A place that was empty gets an entry newer than all.
LEMMA MemoryStamped ==
  ASSUME MemoryCopies, MemoryOrDisk, OnDisk \subseteq 1 .. clock, clock \in Nat,
         clock' = clock + 1, OnDisk' = OnDisk,
         NEW a \in Places, NEW e, e.ts = clock + 1, LinesAt(a)' = <<e>>,
         \A p \in Places \ {a} : LinesAt(p)' = LinesAt(p)
  PROVE  MemoryCopies' /\ MemoryOrDisk'
<1>1. NoTwice(<<e>>) /\ Stamps(<<e>>) \subseteq {clock + 1}
  BY NoTwiceOne
<1>2. ASSUME NEW p \in Places PROVE NoTwice(LinesAt(p)')
  BY <1>1 DEF MemoryCopies
<1>3. /\ Stamps(LinesAt(a)') \subseteq {clock + 1}
      /\ \A p \in Places \ {a} : Stamps(LinesAt(p)') = Stamps(LinesAt(p))
  BY <1>1
<1>4. \A x, y \in Places : x # y => Stamps(LinesAt(x)) \cap Stamps(LinesAt(y)) = {}
  BY DEF MemoryCopies, Apart
<1>5. \A x \in Places : Stamps(LinesAt(x)) \subseteq 1 .. clock /\ Stamps(LinesAt(x)) \cap OnDisk = {}
  BY DEF MemoryCopies, MemoryOrDisk
<1>6. clock + 1 \notin 1 .. clock /\ 1 .. clock \subseteq 1 .. clock' /\ clock + 1 \in 1 .. clock'
  OBVIOUS
<1>7. ASSUME NEW p \in Places, NEW q \in Places, p # q
      PROVE  Stamps(LinesAt(p)') \cap Stamps(LinesAt(q)') = {}
  BY <1>3, <1>4, <1>5, <1>6, <1>7
<1>8. ASSUME NEW p \in Places
      PROVE  Stamps(LinesAt(p)') \subseteq 1 .. clock' /\ Stamps(LinesAt(p)') \cap OnDisk' = {}
  BY <1>3, <1>5, <1>6
<1>9. MemoryCopies'
  BY <1>2, <1>7, <1>8 DEF MemoryCopies, Apart, NoTwice, Stamps
<1> QED
  BY <1>8, <1>9 DEF MemoryOrDisk, Stamps

(***************************************************************************)
(* Disk: the file is emptied, written to, or becomes a rotated file.       *)
(***************************************************************************)
LEMMA DiskKept ==
  ASSUME DiskCopies, clock \in Nat, clock' \in Nat, clock' >= clock,
         file' = file \/ file' = <<>>, rotated' = rotated
  PROVE  DiskCopies' /\ OnDisk' \subseteq OnDisk
<1>1. NoTwice(<<>>) /\ Stamps(<<>>) = {}
  BY NoTwiceEmpty DEF Stamps, ToSet
<1>2. NoTwice(file') /\ Stamps(file') \subseteq Stamps(file)
  BY <1>1 DEF DiskCopies
<1>3. OnDisk' \subseteq OnDisk
  <2>1. OnDisk' = Stamps(file') \cup UNION {Stamps(rotated'[k]) : k \in DOMAIN rotated'}
    BY DEF OnDisk, Stamps
  <2> QED
    BY <1>2, <2>1 DEF OnDisk
<1>4. OnDisk' \subseteq 1 .. clock'
  <2>1. 1 .. clock \subseteq 1 .. clock'
    OBVIOUS
  <2> QED
    BY <1>3, <2>1 DEF DiskCopies
<1>5. \A k \in DOMAIN rotated' :
        /\ NoTwice(rotated'[k]) /\ Apart(rotated'[k], file')
        /\ \A l \in DOMAIN rotated' : k # l => Apart(rotated'[k], rotated'[l])
  BY <1>2 DEF DiskCopies, Apart
<1> QED
  BY <1>2, <1>3, <1>4, <1>5 DEF DiskCopies, NoTwice, Apart, Stamps

LEMMA DiskWritten ==
  ASSUME DiskCopies, file \in Seq(Line), clock' = clock, rotated' = rotated,
         NEW s \in Seq(Line), s # <<>>, NoTwice(s), Stamps(s) \subseteq 1 .. clock,
         Stamps(s) \cap OnDisk = {}, file' = AppendLines(s)
  PROVE  DiskCopies' /\ OnDisk' \subseteq OnDisk \cup Stamps(s)
<1>1. Apart(file, s) /\ \A k \in DOMAIN rotated : Apart(rotated[k], s)
  BY DEF OnDisk, Apart
<1>2. NoTwice(file') /\ Stamps(file') \subseteq Stamps(file) \cup Stamps(s)
  BY <1>1, NoTwiceWritten DEF DiskCopies
<1>3. OnDisk' \subseteq OnDisk \cup Stamps(s)
  <2>1. OnDisk' = Stamps(file') \cup UNION {Stamps(rotated'[k]) : k \in DOMAIN rotated'}
    BY DEF OnDisk, Stamps
  <2> QED
    BY <1>2, <2>1 DEF OnDisk
<1>4. OnDisk' \subseteq 1 .. clock'
  BY <1>3 DEF DiskCopies
<1>5. \A k \in DOMAIN rotated' :
        /\ NoTwice(rotated'[k]) /\ Apart(rotated'[k], file')
        /\ \A l \in DOMAIN rotated' : k # l => Apart(rotated'[k], rotated'[l])
  BY <1>1, <1>2 DEF DiskCopies, Apart
<1> QED
  BY <1>2, <1>3, <1>4, <1>5 DEF DiskCopies, NoTwice, Apart, Stamps

\* Distinct rotated files of the result are distinct files of before: rotated ones, or the log.
LEMMA DiskRotated ==
  ASSUME DiskCopies, clock' = clock, file' = <<>>,
         NEW from \in [DOMAIN rotated' -> DOMAIN rotated \cup {0}],
         0 \notin DOMAIN rotated,
         \A k, l \in DOMAIN rotated' : from[k] = from[l] => k = l,
         \A k \in DOMAIN rotated' :
           rotated'[k] = IF from[k] = 0 THEN file ELSE rotated[from[k]]
  PROVE  DiskCopies' /\ OnDisk' \subseteq OnDisk
<1> DEFINE Was(n) == IF n = 0 THEN file ELSE rotated[n]
<1>1. NoTwice(<<>>) /\ Stamps(<<>>) = {}
  BY NoTwiceEmpty DEF Stamps, ToSet
<1>2. \A m, n \in DOMAIN rotated \cup {0} :
        /\ NoTwice(Was(m)) /\ Stamps(Was(m)) \subseteq OnDisk
        /\ m # n => Stamps(Was(m)) \cap Stamps(Was(n)) = {}
  BY DEF DiskCopies, Apart, OnDisk
<1>3. \A k \in DOMAIN rotated' : from[k] \in DOMAIN rotated \cup {0} /\ rotated'[k] = Was(from[k])
  OBVIOUS
<1> HIDE DEF Was
<1>4. \A k, l \in DOMAIN rotated' :
        /\ NoTwice(rotated'[k]) /\ Stamps(rotated'[k]) \subseteq OnDisk
        /\ k # l => Stamps(rotated'[k]) \cap Stamps(rotated'[l]) = {}
  BY <1>2, <1>3
<1>5. OnDisk' \subseteq OnDisk
  <2>1. OnDisk' = Stamps(file') \cup UNION {Stamps(rotated'[k]) : k \in DOMAIN rotated'}
    BY DEF OnDisk, Stamps
  <2> QED
    BY <1>1, <1>4, <2>1
<1>6. OnDisk' \subseteq 1 .. clock'
  BY <1>5 DEF DiskCopies
<1>7. \A k \in DOMAIN rotated' :
        /\ NoTwice(rotated'[k]) /\ Apart(rotated'[k], file')
        /\ \A l \in DOMAIN rotated' : k # l => Apart(rotated'[k], rotated'[l])
  BY <1>1, <1>4 DEF Apart
<1> QED
  BY <1>1, <1>5, <1>6, <1>7 DEF DiskCopies, NoTwice, Apart, Stamps
-----------------------------------------------------------------------------
(***************************************************************************)
(* The steps.                                                              *)
(***************************************************************************)
LEMMA CopyInit == WalInit => CopyInv
<1> SUFFICES ASSUME WalInit PROVE CopyInv
  OBVIOUS
<1>1. Stamps(<<>>) = {} /\ NoTwice(<<>>)
  BY NoTwiceEmpty DEF Stamps, ToSet
<1>2. file = <<>> /\ DOMAIN rotated = {}
  BY DEF WalInit
<1>3. OnDisk = {}
  BY <1>1, <1>2 DEF OnDisk
<1>4. ASSUME NEW p \in Places PROVE LinesAt(p) = <<>>
  BY <1>4 DEF WalInit, LinesAt, Places, Threads
<1> QED
  BY <1>1, <1>2, <1>3, <1>4 DEF CopyInv, MemoryCopies, DiskCopies, MemoryOrDisk, Apart

\* What LinesAt reads, in the next state.
LEMMA PlacesAreNext ==
  /\ \A i \in Instances : /\ LinesAt(<<i, "buffer">>)' = buffer'[i]
                          /\ LinesAt(<<i, "stamped">>)' = IF call'[i] = "log" THEN <<stamped'[i]>> ELSE <<>>
  /\ \A t \in Threads : LinesAt(t)' = drained'[t]
  BY DEF Places, Threads, LinesAt

\* Memory is as it was when buffers, batches and what is stamped are.
LEMMA PlacesKept ==
  ASSUME UNCHANGED <<stamped, buffer, drained>>,
         \A i \in Instances : call'[i] = "log" <=> call[i] = "log"
  PROVE  \A p \in Places : LinesAt(p)' = LinesAt(p)
<1> SUFFICES ASSUME NEW p \in Places PROVE LinesAt(p)' = LinesAt(p)
  OBVIOUS
<1>1. CASE p \in Threads
  BY <1>1, PlacesAre, PlacesAreNext
<1>2. ASSUME NEW i \in Instances, p = <<i, "buffer">> PROVE LinesAt(p)' = LinesAt(p)
  BY <1>2 DEF LinesAt
<1>3. ASSUME NEW i \in Instances, p = <<i, "stamped">> PROVE LinesAt(p)' = LinesAt(p)
  BY <1>3 DEF LinesAt
<1> QED
  BY <1>1, <1>2, <1>3, PlacesAre

LEMMA DiskSame ==
  ASSUME DiskCopies, clock \in Nat, clock' \in Nat, clock' >= clock, UNCHANGED <<file, rotated>>
  PROVE  DiskCopies' /\ OnDisk' = OnDisk
<1>1. OnDisk' = OnDisk
  BY DEF OnDisk, Stamps
<1> QED
  BY <1>1, DiskKept

LEMMA CopyStamp ==
  ASSUME WalTypeInv, CopyInv, NEW i \in Instances, NEW op \in Ops, Stamp(i, op)
  PROVE  CopyInv'
<1> DEFINE a == <<i, "stamped">>
           e == [ts |-> clock + 1, op |-> op]
<1>1. /\ clock \in Nat /\ clock' = clock + 1 /\ UNCHANGED <<file, rotated, buffer, drained>>
      /\ stamped' = [stamped EXCEPT ![i] = e] /\ call' = [call EXCEPT ![i] = "log"]
      /\ DOMAIN stamped = Instances /\ DOMAIN call = Instances
  BY DEF Stamp, walDisk, WalTypeInv, WalTypeOK
<1>2. DiskCopies' /\ OnDisk' = OnDisk /\ OnDisk \subseteq 1 .. clock
  BY <1>1, DiskSame DEF CopyInv, DiskCopies
<1>3. a \in Places /\ LinesAt(a)' = <<e>>
  BY <1>1, PlacesAre, PlacesAreNext
<1>4. ASSUME NEW p \in Places \ {a} PROVE LinesAt(p)' = LinesAt(p)
  <2>1. CASE p \in Threads
    BY <1>1, <2>1, PlacesAre, PlacesAreNext
  <2>2. ASSUME NEW j \in Instances, p = <<j, "buffer">> PROVE LinesAt(p)' = LinesAt(p)
    BY <1>1, <2>2 DEF LinesAt
  <2>3. ASSUME NEW j \in Instances, p = <<j, "stamped">> PROVE LinesAt(p)' = LinesAt(p)
    <3>1. j # i
      BY <1>4, <2>3
    <3> QED
      BY <1>1, <2>3, <3>1 DEF LinesAt
  <2> QED
    BY <2>1, <2>2, <2>3, PlacesAre
<1>5. e.ts = clock + 1
  OBVIOUS
<1> HIDE DEF a, e
<1>6. MemoryCopies' /\ MemoryOrDisk'
  BY <1>1, <1>2, <1>3, <1>4, <1>5, MemoryStamped DEF CopyInv
<1> QED
  BY <1>2, <1>6 DEF CopyInv

LEMMA CopyAppend ==
  ASSUME WalTypeInv, CopyInv, NEW i \in Instances, AppendEntry(i)
  PROVE  CopyInv'
<1> DEFINE a == <<i, "stamped">>
           b == <<i, "buffer">>
<1>1. /\ clock \in Nat /\ clock' = clock /\ UNCHANGED <<file, rotated, drained>>
      /\ buffer' = [buffer EXCEPT ![i] = Append(@, stamped[i])] /\ call[i] = "log"
      /\ call' = [call EXCEPT ![i] = "none"] /\ stamped' = [stamped EXCEPT ![i] = None]
      /\ DOMAIN stamped = Instances /\ DOMAIN call = Instances /\ DOMAIN buffer = Instances
      /\ buffer[i] \in Seq(Entry) /\ stamped[i] \in Entry
  BY DEF AppendEntry, walDisk, WalTypeInv, WalTypeOK
<1>2. DiskCopies' /\ OnDisk' = OnDisk
  BY <1>1, DiskSame DEF CopyInv
<1>3. a \in Places /\ b \in Places /\ a # b /\ LinesAt(a) = <<stamped[i]>> /\ LinesAt(b) = buffer[i]
  BY <1>1, PlacesAre
<1>4. LinesAt(a)' = <<>> /\ LinesAt(b)' = Append(buffer[i], stamped[i])
  BY <1>1, PlacesAreNext
<1>5. Append(buffer[i], stamped[i]) = buffer[i] \o <<stamped[i]>>
  BY <1>1
<1>6. ASSUME NEW p \in Places \ {a, b} PROVE LinesAt(p)' = LinesAt(p)
  <2>1. CASE p \in Threads
    BY <1>1, <2>1, PlacesAre, PlacesAreNext
  <2>2. ASSUME NEW j \in Instances, p = <<j, "buffer">> PROVE LinesAt(p)' = LinesAt(p)
    <3>1. j # i
      BY <1>6, <2>2
    <3> QED
      BY <1>1, <2>2, <3>1 DEF LinesAt
  <2>3. ASSUME NEW j \in Instances, p = <<j, "stamped">> PROVE LinesAt(p)' = LinesAt(p)
    <3>1. j # i
      BY <1>6, <2>3
    <3> QED
      BY <1>1, <2>3, <3>1 DEF LinesAt
  <2> QED
    BY <2>1, <2>2, <2>3, PlacesAre
<1> HIDE DEF a, b
<1>7. MemoryCopies' /\ MemoryOrDisk'
  BY <1>1, <1>2, <1>3, <1>4, <1>5, <1>6, MemoryMoved DEF CopyInv
<1> QED
  BY <1>2, <1>7 DEF CopyInv

\* A drain moves the buffer of an instance to the empty batch of one of its threads.
LEMMA CopyDrain ==
  ASSUME WalTypeInv, CopyInv, clock' = clock, UNCHANGED <<file, rotated>>,
         \A i \in Instances : call'[i] = "log" <=> call[i] = "log",
         NEW t \in Threads, Drain(t)
  PROVE  CopyInv'
<1> DEFINE i == t[1]
           a == <<i, "buffer">>
<1>1. /\ clock \in Nat /\ stamped' = stamped /\ drained[t] = <<>> /\ i \in Instances /\ a # t
      /\ buffer' = [buffer EXCEPT ![i] = <<>>] /\ drained' = [drained EXCEPT ![t] = buffer[i]]
      /\ DOMAIN buffer = Instances /\ DOMAIN drained = Threads /\ buffer[i] \in Seq(Entry)
  BY PlacesAre DEF Drain, WalTypeInv, WalTypeOK
<1>2. DiskCopies' /\ OnDisk' = OnDisk
  BY <1>1, DiskSame DEF CopyInv
<1>3. a \in Places /\ t \in Places /\ LinesAt(a) = buffer[i] /\ LinesAt(t) = <<>>
  BY <1>1, PlacesAre
<1>4. LinesAt(a)' = <<>> /\ LinesAt(t)' = buffer[i]
  BY <1>1, PlacesAreNext
<1>5. buffer[i] = <<>> \o buffer[i]
  BY <1>1
<1>6. ASSUME NEW p \in Places \ {a, t} PROVE LinesAt(p)' = LinesAt(p)
  <2>1. CASE p \in Threads
    BY <1>1, <1>6, <2>1, PlacesAre, PlacesAreNext
  <2>2. ASSUME NEW j \in Instances, p = <<j, "buffer">> PROVE LinesAt(p)' = LinesAt(p)
    <3>1. j # i
      BY <1>6, <2>2
    <3> QED
      BY <1>1, <2>2, <3>1 DEF LinesAt
  <2>3. ASSUME NEW j \in Instances, p = <<j, "stamped">> PROVE LinesAt(p)' = LinesAt(p)
    BY <1>1, <2>3 DEF LinesAt
  <2> QED
    BY <2>1, <2>2, <2>3, PlacesAre
<1> HIDE DEF a, i
<1>7. MemoryCopies' /\ MemoryOrDisk'
  BY <1>1, <1>2, <1>3, <1>4, <1>5, <1>6, MemoryMoved DEF CopyInv
<1> QED
  BY <1>2, <1>7 DEF CopyInv

\* Nothing in memory moves; the log may be emptied.
LEMMA CopyKept ==
  ASSUME WalTypeInv, WalTypeInv', CopyInv, clock' >= clock, rotated' = rotated,
         file' = file \/ file' = <<>>, UNCHANGED <<stamped, buffer, drained>>,
         \A i \in Instances : call'[i] = "log" <=> call[i] = "log"
  PROVE  CopyInv'
<1>1. clock \in Nat /\ clock' \in Nat
  BY DEF WalTypeInv, WalTypeOK
<1>2. DiskCopies' /\ OnDisk' \subseteq OnDisk
  BY <1>1, DiskKept DEF CopyInv
<1>3. \A p \in Places : LinesAt(p)' = LinesAt(p)
  BY PlacesKept
<1>4. MemoryCopies' /\ MemoryOrDisk'
  BY <1>1, <1>2, <1>3, MemoryKept DEF CopyInv
<1> QED
  BY <1>2, <1>4 DEF CopyInv

\* The places after a batch was written: that of its thread is empty.
LEMMA CopyWrite ==
  ASSUME WalTypeInv, CopyInv, NEW t \in Threads, WriteLines(t)
  PROVE  CopyInv'
<1>1. /\ clock \in Nat /\ clock' = clock /\ UNCHANGED <<stamped, buffer, call, rotated>>
      /\ drained' = [drained EXCEPT ![t] = <<>>] /\ drained[t] # <<>> /\ DOMAIN drained = Threads
      /\ file' = AppendLines(drained[t]) /\ drained[t] \in Seq(Line) /\ file \in Seq(Line)
  BY EntriesAreLines DEF WriteLines, WalTypeInv, WalTypeOK
<1>2. /\ t \in Places /\ LinesAt(t) = drained[t] /\ LinesAt(t)' = <<>>
      /\ NoTwice(drained[t]) /\ Stamps(drained[t]) \subseteq 1 .. clock
      /\ Stamps(drained[t]) \cap OnDisk = {}
  BY <1>1, PlacesAre, PlacesAreNext DEF CopyInv, MemoryCopies, MemoryOrDisk
<1>3. DiskCopies' /\ OnDisk' \subseteq OnDisk \cup Stamps(drained[t])
  BY <1>1, <1>2, DiskWritten DEF CopyInv
<1>4. ASSUME NEW p \in Places \ {t} PROVE LinesAt(p)' = LinesAt(p)
  <2>1. CASE p \in Threads
    BY <1>1, <1>4, <2>1, PlacesAre, PlacesAreNext
  <2>2. ASSUME NEW j \in Instances, p = <<j, "buffer">> PROVE LinesAt(p)' = LinesAt(p)
    BY <1>1, <2>2 DEF LinesAt
  <2>3. ASSUME NEW j \in Instances, p = <<j, "stamped">> PROVE LinesAt(p)' = LinesAt(p)
    BY <1>1, <2>3 DEF LinesAt
  <2> QED
    BY <2>1, <2>2, <2>3, PlacesAre
<1>5. Stamps(<<>>) = {} /\ NoTwice(<<>>)
  BY NoTwiceEmpty DEF Stamps, ToSet
<1>6. /\ \A p \in Places : NoTwice(LinesAt(p)) /\ Stamps(LinesAt(p)) \subseteq 1 .. clock
                           /\ Stamps(LinesAt(p)) \cap OnDisk = {}
      /\ \A p, q \in Places : p # q => Stamps(LinesAt(p)) \cap Stamps(LinesAt(q)) = {}
  BY DEF CopyInv, MemoryCopies, MemoryOrDisk, Apart
<1>7. Stamps(LinesAt(t)') = {} /\ \A p \in Places \ {t} : Stamps(LinesAt(p)') = Stamps(LinesAt(p))
  BY <1>2, <1>4, <1>5
<1>8. ASSUME NEW p \in Places
      PROVE  /\ NoTwice(LinesAt(p)') /\ Stamps(LinesAt(p)') \subseteq 1 .. clock'
             /\ Stamps(LinesAt(p)') \cap OnDisk' = {}
             /\ \A q \in Places : p # q => Stamps(LinesAt(p)') \cap Stamps(LinesAt(q)') = {}
  <2>1. NoTwice(LinesAt(p)')
    BY <1>2, <1>4, <1>5, <1>6
  <2>2. CASE p = t
    BY <1>7, <2>1, <2>2
  <2>3. CASE p # t
    <3>1. Stamps(LinesAt(p)') = Stamps(LinesAt(p)) /\ Stamps(LinesAt(p)) \cap Stamps(drained[t]) = {}
      BY <1>2, <1>6, <1>7, <2>3
    <3> QED
      BY <1>1, <1>3, <1>6, <1>7, <2>1, <3>1
  <2> QED
    BY <2>2, <2>3
<1>9. MemoryCopies' /\ MemoryOrDisk'
  BY <1>8 DEF MemoryCopies, MemoryOrDisk, Apart, NoTwice, Stamps
<1> QED
  BY <1>3, <1>9 DEF CopyInv

LEMMA NewestAre ==
  ASSUME NEW S, NEW fs \in Seq(S)
  PROVE  \E d \in 0 .. Len(fs) :
           /\ DOMAIN Newest(fs) = 1 .. Len(fs) - d
           /\ \A k \in 1 .. Len(fs) - d : Newest(fs)[k] = fs[k + d]
<1>1. Len(fs) \in Nat /\ MaxRotatedKeep \in Nat /\ DOMAIN fs = 1 .. Len(fs)
  BY WalAssumption
<1>2. CASE Len(fs) > MaxRotatedKeep
  <2> DEFINE d == Len(fs) - MaxRotatedKeep
  <2>1. d \in 0 .. Len(fs) /\ Newest(fs) = SubSeq(fs, d + 1, Len(fs)) /\ d + 1 \in 1 .. Len(fs) + 1
    BY <1>1, <1>2 DEF Newest
  <2> HIDE DEF d
  <2>2. /\ DOMAIN SubSeq(fs, d + 1, Len(fs)) = 1 .. Len(fs) - d
        /\ \A k \in 1 .. Len(fs) - d : SubSeq(fs, d + 1, Len(fs))[k] = fs[k + d]
    BY <1>1, <2>1
  <2> QED
    BY <2>1, <2>2
<1>3. CASE ~ Len(fs) > MaxRotatedKeep
  <2>1. Newest(fs) = fs
    BY <1>3 DEF Newest
  <2> WITNESS 0 \in 0 .. Len(fs)
  <2> QED
    BY <1>1, <2>1
<1> QED
  BY <1>2, <1>3

LEMMA CopyRotate ==
  ASSUME WalTypeInv, WalTypeInv', CopyInv, NEW t \in Threads, MaybeRotate(t)
  PROVE  CopyInv'
<1>1. /\ clock \in Nat /\ clock' = clock /\ UNCHANGED <<stamped, buffer, drained, call>>
      /\ rotated \in Seq(Seq(Line)) /\ file \in Seq(Line)
      /\ DOMAIN rotated = 1 .. Len(rotated) /\ Len(rotated) \in Nat
  BY DEF MaybeRotate, WalTypeInv, WalTypeOK
<1>2. CASE Len(file) < MaxSize
  BY <1>1, <1>2, CopyKept DEF MaybeRotate
<1>3. CASE ~ Len(file) < MaxSize
  <2>1. file' = <<>>
    BY <1>3 DEF MaybeRotate
  <2>2. ASSUME rotated' = Newest(Append(rotated, file)) PROVE DiskCopies' /\ OnDisk' \subseteq OnDisk
    <3> DEFINE fs == Append(rotated, file)
               n == Len(rotated)
    <3>1. /\ fs \in Seq(Seq(Line)) /\ Len(fs) = n + 1 /\ fs[n + 1] = file
          /\ \A k \in 1 .. n : fs[k] = rotated[k]
      BY <1>1
    <3> HIDE DEF fs
    <3>2. PICK d \in 0 .. Len(fs) :
            /\ DOMAIN Newest(fs) = 1 .. Len(fs) - d
            /\ \A k \in 1 .. Len(fs) - d : Newest(fs)[k] = fs[k + d]
      BY <3>1, NewestAre, Zenon
    <3> DEFINE from == [k \in DOMAIN rotated' |-> IF k + d = n + 1 THEN 0 ELSE k + d]
    <3>3. rotated' = Newest(fs)
      BY <2>2 DEF fs
    <3>4. DOMAIN rotated' = 1 .. (n + 1) - d /\ n \in Nat /\ d \in 0 .. n + 1
      BY <1>1, <3>1, <3>2, <3>3
    <3>5. from \in [DOMAIN rotated' -> DOMAIN rotated \cup {0}]
      <4>1. ASSUME NEW k \in DOMAIN rotated', k + d # n + 1 PROVE k + d \in 1 .. n
        BY <3>4, <4>1
      <4> QED
        BY <1>1, <4>1
    <3>6. \A k, l \in DOMAIN rotated' : from[k] = from[l] => k = l
      BY <3>4
    <3>7. ASSUME NEW k \in DOMAIN rotated'
          PROVE  rotated'[k] = IF from[k] = 0 THEN file ELSE rotated[from[k]]
      <4>1. rotated'[k] = fs[k + d] /\ k + d \in 1 .. n + 1 /\ k \in Nat /\ d \in Nat
        BY <3>1, <3>2, <3>3, <3>4, SMTT(30)
      <4>2. CASE k + d = n + 1
        <5>1. from[k] = 0
          BY <4>2
        <5> QED
          BY <3>1, <4>1, <4>2, <5>1
      <4>3. CASE k + d # n + 1
        <5>1. from[k] = k + d /\ k + d \in 1 .. n /\ k + d # 0
          BY <3>4, <4>1, <4>3
        <5> QED
          BY <3>1, <4>1, <5>1
      <4> QED
        BY <4>2, <4>3
    <3>8. 0 \notin DOMAIN rotated
      BY <1>1
    <3> HIDE DEF from
    <3> QED
      BY <1>1, <2>1, <3>5, <3>6, <3>7, <3>8, DiskRotated DEF CopyInv
  <2>3. ASSUME rotated # <<>>, rotated' = [rotated EXCEPT ![Len(rotated)] = file]
        PROVE  DiskCopies' /\ OnDisk' \subseteq OnDisk
    <3> DEFINE n == Len(rotated)
               from == [k \in DOMAIN rotated' |-> IF k = n THEN 0 ELSE k]
    <3>1. DOMAIN rotated' = DOMAIN rotated /\ n \in DOMAIN rotated /\ 0 \notin DOMAIN rotated
      BY <1>1, <2>3
    <3>2. from \in [DOMAIN rotated' -> DOMAIN rotated \cup {0}]
      BY <3>1
    <3>3. \A k, l \in DOMAIN rotated' : from[k] = from[l] => k = l
      BY <3>1
    <3>4. \A k \in DOMAIN rotated' : rotated'[k] = IF from[k] = 0 THEN file ELSE rotated[from[k]]
      BY <2>3, <3>1
    <3> HIDE DEF from
    <3> QED
      BY <1>1, <2>1, <3>1, <3>2, <3>3, <3>4, DiskRotated DEF CopyInv
  <2>4. DiskCopies' /\ OnDisk' \subseteq OnDisk
    BY <1>3, <2>2, <2>3 DEF MaybeRotate
  <2>5. \A p \in Places : LinesAt(p)' = LinesAt(p)
    BY <1>1, PlacesKept
  <2>6. MemoryCopies' /\ MemoryOrDisk'
    BY <1>1, <2>4, <2>5, MemoryKept DEF CopyInv
  <2> QED
    BY <2>4, <2>6 DEF CopyInv
<1> QED
  BY <1>2, <1>3

\* The death of the process empties the memory; a thread may have written a first part of
\* its batch.
LEMMA CopyCrash ==
  ASSUME WalTypeInv, WalTypeInv', CopyInv, Crash
  PROVE  CopyInv'
<1>1. /\ clock \in Nat /\ clock' = clock /\ rotated' = rotated /\ file \in Seq(Line)
      /\ call' = [i \in Instances |-> "none"] /\ buffer' = [i \in Instances |-> <<>>]
      /\ drained' = [t \in Threads |-> <<>>]
  BY DEF Crash, WalTypeInv, WalTypeOK
<1>2. ASSUME NEW p \in Places PROVE LinesAt(p)' = <<>>
  <2>1. CASE p \in Threads
    BY <1>1, <2>1, PlacesAreNext
  <2>2. ASSUME NEW j \in Instances, p = <<j, "buffer">> PROVE LinesAt(p)' = <<>>
    BY <1>1, <2>2, PlacesAreNext
  <2>3. ASSUME NEW j \in Instances, p = <<j, "stamped">> PROVE LinesAt(p)' = <<>>
    <3>1. call'[j] # "log"
      BY <1>1
    <3> QED
      BY <2>3, <3>1, PlacesAreNext
  <2> QED
    BY <2>1, <2>2, <2>3, PlacesAre
<1>3. Stamps(<<>>) = {} /\ NoTwice(<<>>)
  BY NoTwiceEmpty DEF Stamps, ToSet
<1>4. \A p \in Places : NoTwice(LinesAt(p)') /\ Stamps(LinesAt(p)') = {}
  BY <1>2, <1>3
<1>5. MemoryCopies' /\ MemoryOrDisk'
  BY <1>4 DEF MemoryCopies, MemoryOrDisk, Apart, NoTwice, Stamps
<1>6. DiskCopies'
  <2>1. CASE file' = file
    BY <1>1, <2>1, DiskKept DEF CopyInv
  <2>2. CASE file' # file
    <3>0. PICK t \in Threads : drained[t] # <<>> /\ PartialWrite(t)
      BY <2>2 DEF Crash
    <3>1. PICK n \in 1 .. Len(drained[t]) : file' = AppendLines(SubSeq(drained[t], 1, n))
      BY <2>2, <3>0 DEF PartialWrite
    <3> DEFINE s == SubSeq(drained[t], 1, n)
    <3>2. drained[t] \in Seq(Line)
      BY EntriesAreLines DEF WalTypeInv, WalTypeOK
    <3>3. /\ NoTwice(drained[t]) /\ Stamps(drained[t]) \subseteq 1 .. clock
          /\ Stamps(drained[t]) \cap OnDisk = {}
      BY PlacesAre DEF CopyInv, MemoryCopies, MemoryOrDisk
    <3>4. NoTwice(s) /\ s \in Seq(Line) /\ s # <<>> /\ Stamps(s) \subseteq Stamps(drained[t])
      BY <3>2, <3>3, NoTwicePrefix
    <3> HIDE DEF s
    <3>5. Stamps(s) \subseteq 1 .. clock /\ Stamps(s) \cap OnDisk = {}
      BY <3>3, <3>4
    <3>6. file' = AppendLines(s)
      BY <3>1 DEF s
    <3> QED
      BY <1>1, <3>4, <3>5, <3>6, DiskWritten DEF CopyInv
  <2> QED
    BY <2>1, <2>2
<1> QED
  BY <1>5, <1>6 DEF CopyInv

LEMMA CopyStep ==
  ASSUME WalTypeInv, WalTypeInv', CopyInv, [WalNext]_walVars
  PROVE  CopyInv'
<1> USE DEF walDisk, walHistory
<1>1. ASSUME NEW i \in Instances, NEW op \in Ops, Stamp(i, op) PROVE CopyInv'
  BY <1>1, CopyStamp
<1>2. ASSUME NEW i \in Instances, AppendEntry(i) PROVE CopyInv'
  BY <1>2, CopyAppend
<1>3. ASSUME NEW i \in Instances, FlusherDrain(i) PROVE CopyInv'
  <2>1. <<i, "flusher">> \in Threads
    BY DEF Threads
  <2>2. clock' = clock /\ UNCHANGED <<file, rotated, call>> /\ Drain(<<i, "flusher">>)
    BY <1>3 DEF FlusherDrain
  <2> QED
    BY <2>1, <2>2, CopyDrain
<1>4. ASSUME NEW i \in Instances, FlushCall(i) \/ ReadCall(i) \/ CheckpointCall(i) \/ CloseCall(i)
      PROVE  CopyInv'
  <2>1. PICK name \in {"flush", "read", "checkpoint"} : CallFlushing(i, name)
    BY <1>4 DEF FlushCall, ReadCall, CheckpointCall, CloseCall
  <2>2. /\ clock' = clock /\ UNCHANGED <<file, rotated>>
        /\ call[i] = "none" /\ call' = [call EXCEPT ![i] = name] /\ DOMAIN call = Instances
        /\ clock \in Nat /\ <<i, "caller">> \in Threads
    BY <2>1 DEF CallFlushing, WalTypeInv, WalTypeOK, Threads
  <2>3. \A j \in Instances : call'[j] = "log" <=> call[j] = "log"
    BY <2>2
  <2>4. CASE Drain(<<i, "caller">>)
    BY <2>2, <2>3, <2>4, CopyDrain
  <2>5. CASE UNCHANGED <<stamped, buffer, drained>>
    BY <2>2, <2>3, <2>5, CopyKept
  <2> QED
    BY <2>1, <2>4, <2>5 DEF CallFlushing
<1>5. ASSUME NEW i \in Instances,
             \/ FlushReturn(i) \/ ReadReturn(i) \/ CheckpointOpen(i)
             \/ CheckpointMark(i) \/ CheckpointTruncate(i) \/ TruncateLog(i)
      PROVE  CopyInv'
  <2>1. clock \in Nat /\ DOMAIN call = Instances
    BY DEF WalTypeInv, WalTypeOK
  <2>2. /\ clock' >= clock /\ rotated' = rotated /\ (file' = file \/ file' = <<>>)
        /\ UNCHANGED <<stamped, buffer, drained>>
    BY <1>5, <2>1 DEF FlushReturn, ReadReturn, CheckpointOpen, CheckpointMark,
                      CheckpointTruncate, TruncateLog, walVolatile
  <2>3. \A j \in Instances : call'[j] = "log" <=> call[j] = "log"
    BY <1>5, <2>1 DEF FlushReturn, ReadReturn, CheckpointOpen, CheckpointMark,
                      CheckpointTruncate, TruncateLog, walVolatile
  <2> QED
    BY <2>2, <2>3, CopyKept
<1>6. ASSUME NEW t \in Threads, WriteLines(t) PROVE CopyInv'
  BY <1>6, CopyWrite
<1>7. ASSUME NEW t \in Threads, MaybeRotate(t) PROVE CopyInv'
  BY <1>7, CopyRotate
<1>8. CASE Crash
  BY <1>8, CopyCrash
<1>9. CASE UNCHANGED walVars
  <2>1. clock' = clock /\ UNCHANGED <<file, rotated, stamped, buffer, drained, call>> /\ clock \in Nat
    BY <1>9 DEF walVars, walVolatile, WalTypeInv, WalTypeOK
  <2> QED
    BY <2>1, CopyKept
<1> QED
  BY <1>1, <1>2, <1>3, <1>4, <1>5, <1>6, <1>7, <1>8, <1>9 DEF WalNext, WalStep

\* No entry is ever held twice, in memory or on disk, whatever is rotated, torn,
\* checkpointed or lost: what replay reads it applies once.
THEOREM NeverTwice == WalSpec => []OneCopy
<1>1. WalInit => WalTypeInv /\ CopyInv
  BY WalTypeInit, CopyInit
<1>2. (WalTypeInv /\ CopyInv) /\ [WalNext]_walVars => (WalTypeInv /\ CopyInv)'
  BY WalTypeStep, CopyStep
<1>3. WalTypeInv /\ CopyInv => OneCopy
  BY CopyInvMeansOneCopy
<1> QED
  BY <1>1, <1>2, <1>3, PTL DEF WalSpec

-----------------------------------------------------------------------------
(***************************************************************************)
(* The log implements DurableLog.                                          *)
(***************************************************************************)
\* Only a flusher writes a logging instance's entries, no log is rotated, no write is torn.
OnlyFlushersWrite ==
  MaxSize = 0 /\ ~TornWrites /\ Flushers = {} /\ Replayers = {} /\ Loggers \cap Savers = {}

\* Callers drain nothing, who does not log has nothing to write.
WhoHolds ==
  /\ \A i \in Instances : drained[<<i, "caller">>] = <<>> /\ (call[i] = "log" => i \in Loggers)
  /\ \A i \in Instances \ Loggers : buffer[i] = <<>> /\ drained[<<i, "flusher">>] = <<>>

\* The queue is older than what is about to be appended to it.
QueueOlder ==
  \A i \in Loggers : call[i] = "log" => \A q \in ToSet(QueueOf(i)) : q.ts < stamped[i].ts

\* The file is free of garbage, and behind the mark that a checkpoint truncates it at.
FileBehind ==
  /\ ~torn /\ file \in Seq(Entry) /\ \A e \in ToSet(file) : e.ts <= clock
  /\ \A i \in Instances : call[i] = "truncate" => \A e \in ToSet(file) : e.ts <= lastMark

MapInv == WalTypeInv /\ SyncInv /\ WhoHolds /\ QueueOlder /\ FileBehind

LEMMA MapInit == WalInit => MapInv
<1> SUFFICES ASSUME WalInit PROVE MapInv
  OBVIOUS
<1>1. /\ \A i \in Instances : call[i] = "none" /\ buffer[i] = <<>>
      /\ \A t \in Threads : drained[t] = <<>>
      /\ file = <<>> /\ ~torn
  BY DEF WalInit
<1>2. WhoHolds
  BY <1>1 DEF WhoHolds, Threads
<1>3. QueueOlder
  BY <1>1, WalAssumption DEF QueueOlder
<1>4. FileBehind
  BY <1>1 DEF FileBehind, ToSet
<1> QED
  BY <1>2, <1>3, <1>4, WalTypeInit, SyncInit DEF MapInv

LEMMA QueueTypes ==
  ASSUME WalTypeInv, NEW i \in Loggers
  PROVE  /\ i \in Instances /\ <<i, "flusher">> \in Threads
         /\ buffer[i] \in Seq(Entry) /\ drained[<<i, "flusher">>] \in Seq(Entry)
         /\ QueueOf(i) \in Seq(Entry)
         /\ ToSet(QueueOf(i)) = ToSet(drained[<<i, "flusher">>]) \cup ToSet(buffer[i])
<1>1. i \in Instances /\ <<i, "flusher">> \in Threads
  BY WalAssumption DEF Threads
<1>2. buffer[i] \in Seq(Entry) /\ drained[<<i, "flusher">>] \in Seq(Entry)
  BY <1>1 DEF WalTypeInv, WalTypeOK
<1> QED
  BY <1>1, <1>2, ToSetConcat DEF QueueOf

\* What the durable log does not see.
LEMMA LogStutters ==
  ASSUME UNCHANGED <<file, lastMark>>, \A i \in Loggers : QueueOf(i)' = QueueOf(i)
  PROVE  UNCHANGED Log!logVars
  BY DEF Log!logVars

LEMMA QueuesKept ==
  ASSUME UNCHANGED <<buffer, drained>>
  PROVE  \A i \in Loggers : QueueOf(i)' = QueueOf(i)
  BY DEF QueueOf

\* A caller has nothing to flush.
LEMMA CallerDrainsNothing ==
  ASSUME OnlyFlushersWrite, MapInv, NEW i \in Instances,
         FlushCall(i) \/ ReadCall(i) \/ CheckpointCall(i) \/ CloseCall(i)
  PROVE  /\ call[i] = "none" /\ call' = [call EXCEPT ![i] = "checkpoint"]
         /\ UNCHANGED <<clock, stamped, buffer, drained, file, torn, lastMark>>
<1>1. CheckpointCall(i) /\ i \in Savers
  BY DEF OnlyFlushersWrite, FlushCall, ReadCall, CheckpointCall, CloseCall
<1>2. buffer[i] = <<>>
  BY <1>1 DEF OnlyFlushersWrite, MapInv, WhoHolds
<1> QED
  BY <1>1, <1>2 DEF CheckpointCall, CallFlushing, walDisk, walHistory

\* A flusher moves what is in the buffer behind what it has drained.
LEMMA DrainMoves ==
  ASSUME WalTypeInv, NEW i \in Instances, FlusherDrain(i)
  PROVE  /\ \A j \in Loggers : QueueOf(j)' = QueueOf(j)
         /\ \A j \in Instances : drained'[<<j, "caller">>] = drained[<<j, "caller">>]
         /\ \A j \in Instances : buffer[j] = <<>> => buffer'[j] = <<>> /\ drained'[<<j, "flusher">>] = drained[<<j, "flusher">>]
         /\ UNCHANGED <<clock, call, stamped, file, torn, lastMark>>
<1>1. /\ drained[<<i, "flusher">>] = <<>> /\ buffer[i] # <<>>
      /\ drained' = [drained EXCEPT ![<<i, "flusher">>] = buffer[i]]
      /\ buffer' = [buffer EXCEPT ![i] = <<>>]
      /\ UNCHANGED <<clock, call, stamped, file, torn, lastMark>>
  BY DEF FlusherDrain, Drain, walDisk, walHistory
<1>2. DOMAIN drained = Threads /\ DOMAIN buffer = Instances /\ <<i, "flusher">> \in Threads
  BY DEF WalTypeInv, WalTypeOK, Threads
<1>3. ASSUME NEW j \in Loggers PROVE QueueOf(j)' = QueueOf(j)
  <2>1. j \in Instances /\ buffer[j] \in Seq(Entry)
    BY <1>3, QueueTypes
  <2>2. CASE j = i
    <3>1. QueueOf(j)' = buffer[i] \o <<>> /\ QueueOf(j) = <<>> \o buffer[i]
      BY <1>1, <1>2, <2>2 DEF QueueOf
    <3> QED
      BY <2>1, <2>2, <3>1
  <2>3. CASE j # i
    BY <1>1, <1>2, <2>1, <2>3 DEF QueueOf
  <2> QED
    BY <2>2, <2>3
<1>4. ASSUME NEW j \in Instances
      PROVE /\ drained'[<<j, "caller">>] = drained[<<j, "caller">>]
            /\ buffer[j] = <<>> => buffer'[j] = <<>> /\ drained'[<<j, "flusher">>] = drained[<<j, "flusher">>]
  BY <1>1, <1>2
<1> QED
  BY <1>1, <1>3, <1>4

\* What a flusher of a logging instance writes.
LEMMA FlusherWrites ==
  ASSUME OnlyFlushersWrite, MapInv, NEW t \in Threads, drained[t] # <<>>
  PROVE  /\ \E i \in Loggers : t = <<i, "flusher">>
         /\ drained[t] \in Seq(Entry) /\ Len(drained[t]) \in Nat \ {0}
         /\ \A s \in Seq(Entry) : AppendLines(s) = file \o s
<1>1. \E i \in Loggers : t = <<i, "flusher">>
  BY DEF MapInv, WhoHolds, Threads
<1>2. drained[t] \in Seq(Entry)
  BY DEF MapInv, WalTypeInv, WalTypeOK
<1>3. torn = FALSE
  BY DEF MapInv, FileBehind
<1>4. \A s \in Seq(Entry) : AppendLines(s) = file \o s
  BY <1>3 DEF AppendLines
<1> QED
  BY <1>1, <1>2, <1>4

\* Two lists are the same when they have the same elements.
LEMMA SameLists ==
  ASSUME NEW S, NEW s \in Seq(S), NEW t \in Seq(S), Len(s) = Len(t),
         \A k \in 1 .. Len(s) : s[k] = t[k]
  PROVE  s = t
<1>1. s = [k \in 1 .. Len(s) |-> s[k]] /\ t = [k \in 1 .. Len(t) |-> t[k]]
  OBVIOUS
<1> QED
  BY <1>1

\* The first n entries of a queue that the flusher has drained.
LEMMA QueueSplit ==
  ASSUME WalTypeInv, NEW i \in Loggers, NEW n \in 1 .. Len(drained[<<i, "flusher">>])
  PROVE  /\ n \in 1 .. Len(QueueOf(i))
         /\ SubSeq(QueueOf(i), 1, n) = SubSeq(drained[<<i, "flusher">>], 1, n)
         /\ n = Len(drained[<<i, "flusher">>]) =>
              /\ SubSeq(QueueOf(i), 1, n) = drained[<<i, "flusher">>]
              /\ SubSeq(QueueOf(i), n + 1, Len(QueueOf(i))) = buffer[i]
<1> DEFINE d == drained[<<i, "flusher">>]  b == buffer[i]  q == QueueOf(i)
<1>1. d \in Seq(Entry) /\ b \in Seq(Entry) /\ q = d \o b /\ q \in Seq(Entry)
  BY QueueTypes DEF QueueOf
<1> HIDE DEF d, b, q
<1>2. Len(q) = Len(d) + Len(b) /\ Len(d) \in Nat /\ Len(b) \in Nat /\ n \in 1 .. Len(d)
  BY <1>1 DEF d
<1>5. \A k \in 1 .. Len(d) + Len(b) : q[k] = IF k <= Len(d) THEN d[k] ELSE b[k - Len(d)]
  BY <1>1, ConcatProperties
<1>6. /\ SubSeq(q, 1, n) \in Seq(Entry) /\ Len(SubSeq(q, 1, n)) = n
      /\ \A k \in 1 .. n : SubSeq(q, 1, n)[k] = q[k]
  BY <1>1, <1>2
<1>7. /\ SubSeq(d, 1, n) \in Seq(Entry) /\ Len(SubSeq(d, 1, n)) = n
      /\ \A k \in 1 .. n : SubSeq(d, 1, n)[k] = d[k]
  BY <1>1, <1>2
<1>8. \A k \in 1 .. n : q[k] = d[k]
  BY <1>2, <1>5
<1>3. SubSeq(q, 1, n) = SubSeq(d, 1, n)
  <2>1. \A k \in 1 .. n : SubSeq(q, 1, n)[k] = SubSeq(d, 1, n)[k]
    BY <1>6, <1>7, <1>8
  <2> QED
    BY <1>6, <1>7, <2>1, SameLists
<1>4. ASSUME n = Len(d) PROVE SubSeq(q, 1, n) = d /\ SubSeq(q, n + 1, Len(q)) = b
  <2>1. SubSeq(d, 1, n) = d
    BY <1>1, <1>4, SubSeqFull
  <2> DEFINE r == SubSeq(q, n + 1, Len(q))
  <2>2. n + 1 \in Int /\ Len(q) \in Int /\ \A k \in n + 1 .. Len(q) : q[k] \in Entry
    BY <1>1, <1>2
  <2>3. /\ r \in Seq(Entry) /\ Len(r) = (IF n + 1 <= Len(q) THEN Len(q) - (n + 1) + 1 ELSE 0)
        /\ \A k \in 1 .. Len(q) - (n + 1) + 1 : r[k] = q[n + 1 + k - 1]
    BY <2>2, SubSeqProperties
  <2> HIDE DEF r
  <2>4. Len(r) = Len(b)
    BY <1>2, <1>4, <2>3
  <2>5. \A k \in 1 .. Len(b) : r[k] = b[k]
    <3> SUFFICES ASSUME NEW k \in 1 .. Len(b) PROVE r[k] = b[k]
      OBVIOUS
    <3>1. k \in 1 .. Len(q) - (n + 1) + 1 /\ n + 1 + k - 1 = n + k
      BY <1>2, <1>4
    <3>2. n + k \in 1 .. Len(d) + Len(b) /\ ~(n + k <= Len(d)) /\ (n + k) - Len(d) = k
      BY <1>2, <1>4
    <3> QED
      BY <1>5, <2>3, <3>1, <3>2
  <2>6. r = b
    BY <1>1, <2>3, <2>4, <2>5, SameLists
  <2> QED
    BY <1>3, <2>1, <2>6 DEF r
<1>9. /\ n \in 1 .. Len(q) /\ SubSeq(q, 1, n) = SubSeq(d, 1, n)
      /\ n = Len(d) => SubSeq(q, 1, n) = d /\ SubSeq(q, n + 1, Len(q)) = b
  <2>1. n \in 1 .. Len(q)
    BY <1>2
  <2> QED
    BY <1>3, <1>4, <2>1
<1> QED
  BY <1>9 DEF d, b, q

-----------------------------------------------------------------------------
\* A step that stamps nothing and queues nothing.
LEMMA OlderKept ==
  ASSUME QueueOlder,
         \A i \in Loggers : ToSet(QueueOf(i)') \subseteq ToSet(QueueOf(i)),
         \A i \in Loggers : call'[i] = "log" => call[i] = "log" /\ stamped'[i] = stamped[i]
  PROVE  QueueOlder'
<1> SUFFICES ASSUME NEW i \in Loggers, call'[i] = "log", NEW q \in ToSet(QueueOf(i)')
             PROVE  q.ts < stamped'[i].ts
  BY DEF QueueOlder
<1> QED
  BY DEF QueueOlder

LEMMA StampImplements ==
  ASSUME OnlyFlushersWrite, MapInv, NEW i \in Instances, NEW op \in Ops, Stamp(i, op)
  PROVE  WhoHolds' /\ QueueOlder' /\ FileBehind' /\ [Log!LogNext]_Log!logVars
<1>1. /\ i \in Loggers /\ clock' = clock + 1
      /\ stamped' = [stamped EXCEPT ![i] = [ts |-> clock + 1, op |-> op]]
      /\ call' = [call EXCEPT ![i] = "log"]
      /\ UNCHANGED <<buffer, drained, file, torn, lastMark>>
  BY DEF Stamp, walDisk, walHistory
<1>2. /\ DOMAIN call = Instances /\ DOMAIN stamped = Instances /\ clock \in Nat
  BY DEF MapInv, WalTypeInv, WalTypeOK
<1>3. WhoHolds'
  BY <1>1, <1>2 DEF MapInv, WhoHolds
<1>4. QueueOlder'
  <2> SUFFICES ASSUME NEW j \in Loggers, call'[j] = "log", NEW q \in ToSet(QueueOf(j)')
               PROVE  q.ts < stamped'[j].ts
    BY DEF QueueOlder
  <2>1. q \in ToSet(QueueOf(j))
    BY <1>1, QueuesKept
  <2>2. CASE j = i
    <3>1. q \in ToSet(drained[<<i, "flusher">>]) \cup ToSet(buffer[i])
      BY <2>1, <2>2, QueueTypes DEF MapInv
    <3>2. /\ buffer[i] \in Seq(Entry) /\ drained[<<i, "flusher">>] \in Seq(Entry)
          /\ <<i, "flusher">> \in Threads
      BY <2>2, QueueTypes DEF MapInv
    <3>3. q \in Entry
      BY <3>1, <3>2 DEF ToSet
    <3>4. q.ts \in Stamps(drained[<<i, "flusher">>]) \cup Stamps(buffer[i])
      BY <3>1, <3>3, EntriesAreLines DEF Stamps
    <3>5. q.ts \in 1 .. clock
      BY <3>2, <3>4 DEF MapInv, SyncInv, PastStamps
    <3>6. stamped'[j].ts = clock + 1
      BY <1>1, <1>2, <2>2
    <3> QED
      BY <1>2, <3>5, <3>6
  <2>3. CASE j # i
    <3>1. j \in Instances
      BY WalAssumption
    <3>2. call[j] = "log" /\ stamped'[j] = stamped[j]
      BY <1>1, <1>2, <2>3, <3>1
    <3> QED
      BY <2>1, <3>2 DEF MapInv, QueueOlder
  <2> QED
    BY <2>2, <2>3
<1>5. FileBehind'
  <2>1. \A e \in ToSet(file) : e.ts <= clock + 1
    <3> SUFFICES ASSUME NEW e \in ToSet(file) PROVE e.ts <= clock + 1
      OBVIOUS
    <3>1. e \in Entry /\ e.ts <= clock
      BY DEF MapInv, FileBehind, ToSet
    <3> QED
      BY <1>2, <3>1 DEF Entry
  <2>2. \A j \in Instances : call'[j] = "truncate" => call[j] = "truncate"
    BY <1>1, <1>2
  <2> QED
    BY <1>1, <2>1, <2>2 DEF MapInv, FileBehind
<1>6. UNCHANGED Log!logVars
  BY <1>1, QueuesKept, LogStutters
<1> QED
  BY <1>3, <1>4, <1>5, <1>6

LEMMA ConcatAppend ==
  ASSUME NEW S, NEW s \in Seq(S), NEW r \in Seq(S), NEW e \in S
  PROVE  s \o Append(r, e) = Append(s \o r, e)
<1>1. PICK m \in Nat : m = Len(s)
  OBVIOUS
<1>2. PICK n \in Nat : n = Len(r)
  OBVIOUS
<1>3. PICK a : a = Append(r, e)
  OBVIOUS
<1>4. /\ a \in Seq(S) /\ Len(a) = n + 1 /\ a[n + 1] = e
      /\ \A k \in 1 .. n : a[k] = r[k]
  BY <1>2, <1>3, AppendProperties
<1>5. PICK c : c = s \o r
  OBVIOUS
<1>6. /\ c \in Seq(S) /\ Len(c) = m + n
      /\ \A k \in 1 .. m + n : c[k] = IF k <= m THEN s[k] ELSE r[k - m]
  BY <1>1, <1>2, <1>5, ConcatProperties
<1>7. PICK x : x = s \o a
  OBVIOUS
<1>8. /\ x \in Seq(S) /\ Len(x) = m + (n + 1)
      /\ \A k \in 1 .. m + (n + 1) : x[k] = IF k <= m THEN s[k] ELSE a[k - m]
  <2>1. a \in Seq(S)
    BY <1>4
  <2>2. /\ s \o a \in Seq(S) /\ Len(s \o a) = Len(s) + Len(a)
        /\ \A k \in 1 .. Len(s) + Len(a) : (s \o a)[k] = IF k <= Len(s) THEN s[k] ELSE a[k - Len(s)]
    BY <2>1, ConcatProperties
  <2> QED
    BY <1>1, <1>4, <1>7, <2>2
<1>9. PICK y : y = Append(c, e)
  OBVIOUS
<1>10. /\ y \in Seq(S) /\ Len(y) = m + n + 1 /\ y[m + n + 1] = e
       /\ \A k \in 1 .. m + n : y[k] = c[k]
  BY <1>6, <1>9, AppendProperties
<1>11. \A k \in 1 .. m + n + 1 : x[k] = y[k]
  <2> TAKE k \in 1 .. m + n + 1
  <2>1. CASE k <= m
    BY <1>6, <1>8, <1>10, <2>1
  <2>2. CASE k = m + n + 1
    <3>1. x[k] = a[n + 1]
      BY <1>8, <2>2
    <3> QED
      BY <1>4, <1>10, <2>2, <3>1
  <2>3. CASE k > m /\ k <= m + n
    <3>1. x[k] = a[k - m] /\ k - m \in 1 .. n
      BY <1>8, <2>3
    <3>2. y[k] = r[k - m]
      BY <1>6, <1>10, <2>3
    <3> QED
      BY <1>4, <3>1, <3>2
  <2> QED
    BY <2>1, <2>2, <2>3
<1>12. x = y
  BY <1>8, <1>10, <1>11, SameLists
<1> QED
  BY <1>3, <1>5, <1>7, <1>9, <1>12

LEMMA AppendImplements ==
  ASSUME OnlyFlushersWrite, MapInv, NEW i \in Instances, AppendEntry(i)
  PROVE  WhoHolds' /\ QueueOlder' /\ FileBehind' /\ [Log!LogNext]_Log!logVars
<1>1. /\ call[i] = "log" /\ buffer' = [buffer EXCEPT ![i] = Append(@, stamped[i])]
      /\ call' = [call EXCEPT ![i] = "none"]
      /\ stamped' = [stamped EXCEPT ![i] = None]
      /\ UNCHANGED <<clock, drained, file, torn, lastMark>>
  BY DEF AppendEntry, walDisk
<1>2. /\ DOMAIN call = Instances /\ DOMAIN stamped = Instances /\ DOMAIN buffer = Instances
      /\ stamped[i] \in Entry /\ i \in Loggers
  BY <1>1 DEF MapInv, WalTypeInv, WalTypeOK, WhoHolds
<1>3. WhoHolds'
  BY <1>1, <1>2 DEF MapInv, WhoHolds
<1>4. \A j \in Loggers : j # i => QueueOf(j)' = QueueOf(j)
  BY <1>1, <1>2, WalAssumption DEF QueueOf
<1>5. QueueOlder'
  <2> SUFFICES ASSUME NEW j \in Loggers, call'[j] = "log", NEW q \in ToSet(QueueOf(j)')
               PROVE  q.ts < stamped'[j].ts
    BY DEF QueueOlder
  <2>1. j # i /\ j \in Instances
    BY <1>1, <1>2, WalAssumption
  <2>2. call[j] = "log" /\ stamped'[j] = stamped[j] /\ q \in ToSet(QueueOf(j))
    BY <1>1, <1>2, <1>4, <2>1
  <2> QED
    BY <2>2 DEF MapInv, QueueOlder
<1>6. FileBehind'
  <2>2. \A j \in Instances : call'[j] = "truncate" => call[j] = "truncate"
    BY <1>1, <1>2
  <2> QED
    BY <1>1, <2>2 DEF MapInv, FileBehind
<1>7. QueueOf(i)' = Append(QueueOf(i), stamped[i])
  <2>1. /\ buffer[i] \in Seq(Entry) /\ drained[<<i, "flusher">>] \in Seq(Entry)
    BY <1>2, QueueTypes DEF MapInv
  <2>2. QueueOf(i)' = drained[<<i, "flusher">>] \o Append(buffer[i], stamped[i])
    BY <1>1, <1>2 DEF QueueOf
  <2>3. \A s, r \in Seq(Entry), e \in Entry : s \o Append(r, e) = Append(s \o r, e)
    BY ConcatAppend
  <2>4. drained[<<i, "flusher">>] \o Append(buffer[i], stamped[i]) =
          Append(drained[<<i, "flusher">>] \o buffer[i], stamped[i])
    BY <1>2, <2>1, <2>3
  <2> QED
    BY <2>2, <2>4 DEF QueueOf
<1>8. Log!Accept(i, stamped[i])
  <2>1. \A q \in ToSet(QueueOf(i)) : q.ts < stamped[i].ts
    BY <1>1, <1>2 DEF MapInv, QueueOlder
  <2>2. [j \in Loggers |-> QueueOf(j)]' =
          [[j \in Loggers |-> QueueOf(j)] EXCEPT ![i] = Append(QueueOf(i), stamped[i])]
    BY <1>2, <1>4, <1>7
  <2> QED
    BY <1>1, <1>2, <2>1, <2>2 DEF Log!Accept, Log!ToSet, ToSet
<1> QED
  BY <1>2, <1>3, <1>5, <1>6, <1>8 DEF Log!LogNext

LEMMA DrainImplements ==
  ASSUME OnlyFlushersWrite, MapInv, NEW i \in Instances, FlusherDrain(i)
  PROVE  WhoHolds' /\ QueueOlder' /\ FileBehind' /\ [Log!LogNext]_Log!logVars
<1>1. /\ \A j \in Loggers : QueueOf(j)' = QueueOf(j)
      /\ \A j \in Instances : drained'[<<j, "caller">>] = drained[<<j, "caller">>]
      /\ \A j \in Instances : buffer[j] = <<>> =>
           buffer'[j] = <<>> /\ drained'[<<j, "flusher">>] = drained[<<j, "flusher">>]
      /\ UNCHANGED <<clock, call, stamped, file, torn, lastMark>>
  BY DrainMoves DEF MapInv
<1>2. WhoHolds'
  BY <1>1 DEF MapInv, WhoHolds
<1>3. QueueOlder'
  BY <1>1, OlderKept DEF MapInv
<1>4. FileBehind'
  BY <1>1 DEF MapInv, FileBehind
<1> QED
  BY <1>1, <1>2, <1>3, <1>4, LogStutters

\* A step of a caller that touches neither the queues nor the log.
LEMMA QuietImplements ==
  ASSUME MapInv, UNCHANGED <<clock, stamped, buffer, drained, file, torn, lastMark>>,
         \A j \in Instances : call'[j] \in {"log", "truncate"} => call'[j] = call[j]
  PROVE  WhoHolds' /\ QueueOlder' /\ FileBehind' /\ [Log!LogNext]_Log!logVars
<1>1. \A j \in Loggers : QueueOf(j)' = QueueOf(j)
  BY QueuesKept
<1>2. WhoHolds'
  BY DEF MapInv, WhoHolds
<1>3. QueueOlder'
  BY <1>1, WalAssumption, OlderKept DEF MapInv
<1>4. FileBehind'
  BY DEF MapInv, FileBehind
<1> QED
  BY <1>1, <1>2, <1>3, <1>4, LogStutters

\* A flusher's write is a prefix of a queue that became durable.
LEMMA WriteImplements ==
  ASSUME OnlyFlushersWrite, MapInv, NEW t \in Threads, WriteLines(t)
  PROVE  WhoHolds' /\ QueueOlder' /\ FileBehind' /\ [Log!LogNext]_Log!logVars
<1>1. /\ drained[t] # <<>> /\ holder = None
      /\ file' = AppendLines(drained[t]) /\ torn' = FALSE
      /\ drained' = [drained EXCEPT ![t] = <<>>]
      /\ UNCHANGED <<clock, call, stamped, buffer, lastMark>>
  BY DEF WriteLines
<1>2. PICK i \in Loggers : t = <<i, "flusher">>
  BY <1>1, FlusherWrites
<1>3. drained[t] \in Seq(Entry) /\ Len(drained[t]) \in Nat \ {0} /\ file' = file \o drained[t]
  BY <1>1, FlusherWrites
<1>4. DOMAIN drained = Threads /\ i \in Instances /\ file \in Seq(Entry) /\ clock \in Nat
  BY QueueTypes DEF MapInv, WalTypeInv, WalTypeOK, FileBehind
<1>5. WhoHolds'
  BY <1>1, <1>2, <1>4 DEF MapInv, WhoHolds, Threads
<1>6. PICK n \in 1 .. Len(drained[t]) : n = Len(drained[t])
  BY <1>3
<1>7. /\ n \in 1 .. Len(QueueOf(i))
      /\ SubSeq(QueueOf(i), 1, n) = drained[t]
      /\ SubSeq(QueueOf(i), n + 1, Len(QueueOf(i))) = buffer[i]
  BY <1>2, <1>6, QueueSplit DEF MapInv
<1>8. QueueOf(i)' = buffer[i]
  <2>1. buffer[i] \in Seq(Entry)
    BY QueueTypes DEF MapInv
  <2>2. QueueOf(i)' = <<>> \o buffer[i]
    BY <1>1, <1>2, <1>4 DEF QueueOf
  <2> QED
    BY <2>1, <2>2
<1>9. \A j \in Loggers : j # i => QueueOf(j)' = QueueOf(j)
  BY <1>1, <1>2, <1>4, WalAssumption DEF QueueOf, Threads
<1>10. QueueOlder'
  <2>1. \A j \in Loggers : ToSet(QueueOf(j)') \subseteq ToSet(QueueOf(j))
    BY <1>8, <1>9, QueueTypes DEF MapInv
  <2> QED
    BY <1>1, <2>1, OlderKept DEF MapInv
<1>11. FileBehind'
  <2>1. file' \in Seq(Entry) /\ ToSet(file') = ToSet(file) \cup ToSet(drained[t])
    BY <1>3, <1>4, ToSetConcat
  <2>2. \A e \in ToSet(drained[t]) : e.ts <= clock
    <3> SUFFICES ASSUME NEW e \in ToSet(drained[t]) PROVE e.ts <= clock
      OBVIOUS
    <3>1. e \in Entry
      BY <1>3 DEF ToSet
    <3>2. e.ts \in Stamps(drained[t])
      BY <3>1, EntriesAreLines DEF Stamps
    <3> QED
      BY <1>4, <3>2 DEF MapInv, SyncInv, PastStamps
  <2>3. \A j \in Instances : call[j] # "truncate"
    BY <1>1, WalAssumption DEF MapInv, SyncInv, LockInv
  <2> QED
    BY <1>1, <2>1, <2>2, <2>3 DEF MapInv, FileBehind
<1>12. Log!Persist(i, n)
  <2>1. [j \in Loggers |-> QueueOf(j)]' = [[j \in Loggers |-> QueueOf(j)] EXCEPT ![i] = buffer[i]]
    BY <1>8, <1>9
  <2>2. [j \in Loggers |-> QueueOf(j)][i] = QueueOf(i)
    OBVIOUS
  <2> QED
    BY <1>1, <1>3, <1>7, <2>1, <2>2 DEF Log!Persist, Log!WithPrefix
<1> QED
  BY <1>5, <1>7, <1>10, <1>11, <1>12 DEF Log!LogNext

\* A mark raises the floor above everything in the file.
LEMMA MarkImplements ==
  ASSUME OnlyFlushersWrite, MapInv, NEW i \in Instances, CheckpointMark(i)
  PROVE  WhoHolds' /\ QueueOlder' /\ FileBehind' /\ [Log!LogNext]_Log!logVars
<1>1. /\ clock' = clock + 1 /\ lastMark' = clock + 1 /\ call' = [call EXCEPT ![i] = "truncate"]
      /\ UNCHANGED <<stamped, buffer, drained, file, torn>>
  BY DEF CheckpointMark
<1>2. DOMAIN call = Instances /\ clock \in Nat /\ lastMark \in 0 .. clock
  BY DEF MapInv, WalTypeInv, WalTypeOK
<1>3. \A j \in Loggers : QueueOf(j)' = QueueOf(j)
  BY <1>1, QueuesKept
<1>4. WhoHolds'
  BY <1>1, <1>2 DEF MapInv, WhoHolds
<1>5. QueueOlder'
  BY <1>1, <1>2, <1>3, WalAssumption, OlderKept DEF MapInv
<1>6. FileBehind'
  <2>1. \A e \in ToSet(file) : e.ts <= clock + 1
    <3> SUFFICES ASSUME NEW e \in ToSet(file) PROVE e.ts <= clock + 1
      OBVIOUS
    <3>1. e \in Entry /\ e.ts <= clock
      BY DEF MapInv, FileBehind, ToSet
    <3> QED
      BY <1>2, <3>1 DEF Entry
  <2> QED
    BY <1>1, <2>1 DEF MapInv, FileBehind
<1>7. Log!RaiseFloor
  BY <1>1, <1>2, <1>3 DEF Log!RaiseFloor
<1> QED
  BY <1>4, <1>5, <1>6, <1>7 DEF Log!LogNext

\* A truncation empties a log that is behind the floor.
LEMMA TruncateImplements ==
  ASSUME OnlyFlushersWrite, MapInv, NEW i \in Instances,
         CheckpointTruncate(i) \/ TruncateLog(i)
  PROVE  WhoHolds' /\ QueueOlder' /\ FileBehind' /\ [Log!LogNext]_Log!logVars
<1>1. /\ file' = <<>> /\ torn' = FALSE
      /\ UNCHANGED <<clock, stamped, buffer, drained>>
      /\ \/ call[i] = "truncate" /\ call' = [call EXCEPT ![i] = "none"] /\ lastMark' = lastMark
         \/ call' = call /\ lastMark' = clock
  BY DEF CheckpointTruncate, TruncateLog, walVolatile, walHistory
<1>2. DOMAIN call = Instances /\ clock \in Nat /\ lastMark \in 0 .. clock
  BY DEF MapInv, WalTypeInv, WalTypeOK
<1>3. \A j \in Loggers : QueueOf(j)' = QueueOf(j)
  BY <1>1, QueuesKept
<1>4. WhoHolds'
  BY <1>1, <1>2 DEF MapInv, WhoHolds
<1>5. QueueOlder'
  BY <1>1, <1>2, <1>3, WalAssumption, OlderKept DEF MapInv
<1>6. FileBehind'
  BY <1>1 DEF FileBehind, ToSet
<1>7. Log!Forget
  <2>1. lastMark' >= lastMark
    BY <1>1, <1>2
  <2>2. \A e \in ToSet(file) : e.ts <= lastMark'
    BY <1>1, <1>2 DEF MapInv, FileBehind
  <2> QED
    BY <1>1, <1>3, <2>1, <2>2 DEF Log!Forget, Log!ToSet, ToSet
<1> QED
  BY <1>4, <1>5, <1>6, <1>7 DEF Log!LogNext

\* A crash empties the queues; a thread that was writing has made a prefix durable.
LEMMA CrashImplements ==
  ASSUME OnlyFlushersWrite, MapInv, Crash
  PROVE  WhoHolds' /\ QueueOlder' /\ FileBehind' /\ [Log!LogNext]_Log!logVars
<1>1. /\ \/ UNCHANGED <<file, torn>>
         \/ \E t \in Threads : drained[t] # <<>> /\ PartialWrite(t)
      /\ call' = [i \in Instances |-> "none"]
      /\ buffer' = [i \in Instances |-> <<>>]
      /\ drained' = [t \in Threads |-> <<>>]
      /\ UNCHANGED <<clock, lastMark>>
  BY DEF Crash
<1>2. clock \in Nat /\ file \in Seq(Entry) /\ ~torn /\ \A e \in ToSet(file) : e.ts <= clock
  BY DEF MapInv, WalTypeInv, WalTypeOK, FileBehind
<1>3. WhoHolds'
  BY <1>1 DEF WhoHolds, Threads
<1>4. QueueOlder'
  BY <1>1, WalAssumption DEF QueueOlder
<1>5. [j \in Loggers |-> QueueOf(j)]' = [j \in Loggers |-> <<>>]
  BY <1>1, WalAssumption DEF QueueOf, Threads
<1>6. CASE UNCHANGED <<file, torn>>
  <2>1. FileBehind'
    BY <1>1, <1>2, <1>6 DEF FileBehind
  <2>2. Log!LoseQueues
    BY <1>1, <1>5, <1>6 DEF Log!LoseQueues
  <2> QED
    BY <1>3, <1>4, <2>1, <2>2 DEF Log!LogNext
<1>7. ASSUME NEW t \in Threads, drained[t] # <<>>, PartialWrite(t)
      PROVE  FileBehind' /\ Log!LoseQueues
  <2>1. PICK n \in 0 .. Len(drained[t]) :
          /\ file' = IF n = 0 THEN file ELSE AppendLines(SubSeq(drained[t], 1, n))
          /\ \/ torn' = (torn /\ n = 0)
             \/ TornWrites /\ n < Len(drained[t]) /\ torn' = TRUE
    BY <1>7 DEF PartialWrite
  <2>2. torn' = FALSE
    BY <1>2, <2>1 DEF OnlyFlushersWrite
  <2>3. CASE n = 0
    <3>1. FileBehind'
      BY <1>1, <1>2, <2>1, <2>2, <2>3 DEF FileBehind
    <3>2. Log!LoseQueues
      BY <1>1, <1>5, <2>1, <2>3 DEF Log!LoseQueues
    <3> QED
      BY <3>1, <3>2
  <2>4. CASE n # 0
    <3>1. PICK i \in Loggers : t = <<i, "flusher">>
      BY <1>7, FlusherWrites
    <3>2. drained[t] \in Seq(Entry) /\ n \in 1 .. Len(drained[t])
      BY <1>7, <2>4, FlusherWrites
    <3>3. /\ n \in 1 .. Len(QueueOf(i))
          /\ SubSeq(QueueOf(i), 1, n) = SubSeq(drained[t], 1, n)
      BY <3>1, <3>2, QueueSplit DEF MapInv
    <3>4. SubSeq(drained[t], 1, n) \in Seq(Entry)
      BY <3>2, PrefixType
    <3>5. file' = file \o SubSeq(drained[t], 1, n)
      BY <1>7, <2>1, <2>4, <3>4, FlusherWrites
    <3>6. Log!LoseQueues
      <4>1. [j \in Loggers |-> QueueOf(j)][i] = QueueOf(i)
        OBVIOUS
      <4> QED
        BY <1>1, <1>5, <3>3, <3>5, <4>1 DEF Log!LoseQueues, Log!WithPrefix
    <3>7. FileBehind'
      <4>1. file' \in Seq(Entry) /\ ToSet(file') = ToSet(file) \cup ToSet(SubSeq(drained[t], 1, n))
        <5>1. PICK u \in Seq(Entry) : u = SubSeq(drained[t], 1, n)
          BY <3>4
        <5>2. file \o u \in Seq(Entry) /\ ToSet(file \o u) = ToSet(file) \cup ToSet(u)
          BY <1>2, ToSetConcat
        <5> QED
          BY <3>5, <5>1, <5>2
      <4>2. \A e \in ToSet(SubSeq(drained[t], 1, n)) : e.ts <= clock
        <5> SUFFICES ASSUME NEW e \in ToSet(SubSeq(drained[t], 1, n)) PROVE e.ts <= clock
          OBVIOUS
        <5>1. e \in ToSet(drained[t])
          BY <3>2 DEF ToSet
        <5>2. e \in Entry
          BY <3>2, <5>1 DEF ToSet
        <5>3. e.ts \in Stamps(drained[t])
          BY <5>1, <5>2, EntriesAreLines DEF Stamps
        <5> QED
          BY <1>2, <5>3 DEF MapInv, SyncInv, PastStamps
      <4> QED
        BY <1>1, <1>2, <2>2, <4>1, <4>2 DEF FileBehind
    <3> QED
      BY <3>6, <3>7
  <2> QED
    BY <2>3, <2>4
<1>8. ASSUME NEW t \in Threads, drained[t] # <<>>, PartialWrite(t)
      PROVE  WhoHolds' /\ QueueOlder' /\ FileBehind' /\ [Log!LogNext]_Log!logVars
  <2>1. FileBehind' /\ Log!LoseQueues
    BY <1>7, <1>8
  <2> QED
    BY <1>3, <1>4, <2>1 DEF Log!LogNext
<1> QED
  BY <1>1, <1>6, <1>8

LEMMA ImplementsStep ==
  ASSUME OnlyFlushersWrite, MapInv, [WalNext]_walVars
  PROVE  MapInv' /\ [Log!LogNext]_Log!logVars
<1> DEFINE Goal == WhoHolds' /\ QueueOlder' /\ FileBehind' /\ [Log!LogNext]_Log!logVars
<1>1. WalTypeInv' /\ SyncInv'
  <2>1. RotatedKept
    BY DEF OnlyFlushersWrite, RotatedKept
  <2> QED
    BY <2>1, WalTypeStep, SyncStep DEF MapInv
<1>2. ASSUME NEW i \in Instances, NEW op \in Ops, Stamp(i, op) PROVE Goal
  BY <1>2, StampImplements
<1>3. ASSUME NEW i \in Instances, AppendEntry(i) PROVE Goal
  BY <1>3, AppendImplements
<1>4. ASSUME NEW i \in Instances, FlusherDrain(i) PROVE Goal
  BY <1>4, DrainImplements
<1>5. ASSUME NEW i \in Instances,
             FlushCall(i) \/ ReadCall(i) \/ CheckpointCall(i) \/ CloseCall(i)
      PROVE Goal
  <2>1. /\ call' = [call EXCEPT ![i] = "checkpoint"]
        /\ UNCHANGED <<clock, stamped, buffer, drained, file, torn, lastMark>>
    BY <1>5, CallerDrainsNothing
  <2>2. \A j \in Instances : call'[j] \in {"log", "truncate"} => call'[j] = call[j]
    BY <2>1 DEF MapInv, WalTypeInv, WalTypeOK
  <2> QED
    BY <2>1, <2>2, QuietImplements
<1>6. ASSUME NEW i \in Instances, FlushReturn(i) \/ ReadReturn(i) PROVE Goal
  <2>1. /\ call' = [call EXCEPT ![i] = "none"]
        /\ UNCHANGED <<clock, stamped, buffer, drained, file, torn, lastMark>>
    BY <1>6 DEF FlushReturn, ReadReturn, walDisk, walHistory
  <2>2. \A j \in Instances : call'[j] \in {"log", "truncate"} => call'[j] = call[j]
    BY <2>1 DEF MapInv, WalTypeInv, WalTypeOK
  <2> QED
    BY <2>1, <2>2, QuietImplements
<1>7. ASSUME NEW i \in Instances, CheckpointOpen(i) PROVE Goal
  <2>1. /\ call' = [call EXCEPT ![i] = "mark"]
        /\ UNCHANGED <<clock, stamped, buffer, drained, file, torn, lastMark>>
    BY <1>7 DEF CheckpointOpen, walHistory
  <2>2. \A j \in Instances : call'[j] \in {"log", "truncate"} => call'[j] = call[j]
    BY <2>1 DEF MapInv, WalTypeInv, WalTypeOK
  <2> QED
    BY <2>1, <2>2, QuietImplements
<1>8. ASSUME NEW i \in Instances, CheckpointMark(i) PROVE Goal
  BY <1>8, MarkImplements
<1>9. ASSUME NEW i \in Instances, CheckpointTruncate(i) \/ TruncateLog(i) PROVE Goal
  BY <1>9, TruncateImplements
<1>10. ASSUME NEW t \in Threads, WriteLines(t) PROVE Goal
  BY <1>10, WriteImplements
<1>11. ASSUME NEW t \in Threads, MaybeRotate(t) PROVE Goal
  BY <1>11 DEF MaybeRotate, OnlyFlushersWrite, MapInv, SyncInv, MarkedLast
<1>12. ASSUME Crash PROVE Goal
  BY <1>12, CrashImplements
<1>13. ASSUME UNCHANGED walVars PROVE Goal
  <2>1. UNCHANGED <<clock, call, stamped, buffer, drained, file, torn, lastMark>>
    BY <1>13 DEF walVars, walVolatile, walDisk, walHistory
  <2> QED
    BY <2>1, QuietImplements
<1> HIDE DEF Goal
<1>14. Goal
  BY <1>2, <1>3, <1>4, <1>5, <1>6, <1>7, <1>8, <1>9, <1>10, <1>11, <1>12, <1>13 DEF WalNext, WalStep
<1> QED
  BY <1>1, <1>14 DEF Goal, MapInv

LEMMA ImplementsInit == WalInit => Log!LogInit
<1> SUFFICES ASSUME WalInit PROVE Log!LogInit
  OBVIOUS
<1>1. /\ \A i \in Instances : buffer[i] = <<>>
      /\ \A t \in Threads : drained[t] = <<>>
      /\ file = <<>> /\ lastMark = 0
  BY DEF WalInit
<1>2. \A i \in Loggers : QueueOf(i) = <<>>
  BY <1>1, WalAssumption DEF QueueOf, Threads
<1> QED
  BY <1>1, <1>2 DEF Log!LogInit

\* The write-ahead log is a durable log: an entry becomes durable behind those its
\* writer logged before it, whatever flushers, checkpoints and crashes interleave, and
\* only a checkpoint or a truncation that made it obsolete removes it.
THEOREM WalImplements ==
  ASSUME OnlyFlushersWrite
  PROVE  WalSpec => ImplementsLog
<1>1. WalSpec => []MapInv
  <2>1. MapInv /\ [WalNext]_walVars => MapInv'
    BY ImplementsStep
  <2> QED
    BY <2>1, MapInit, PTL DEF WalSpec
<1>2. MapInv /\ [WalNext]_walVars => [Log!LogNext]_Log!logVars
  BY ImplementsStep
<1> QED
  BY <1>1, <1>2, ImplementsInit, PTL DEF WalSpec, ImplementsLog, Log!LogSpec
=============================================================================
