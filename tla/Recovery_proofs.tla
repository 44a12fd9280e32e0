-------------------------- MODULE Recovery_proofs --------------------------
(***************************************************************************)
(* Proofs about Recovery for every set of ids and values.  What the        *)
(* services do with their logs is what WriteAheadLog allows, so what is    *)
(* proved of the log holds while services write, save, load and crash.     *)
(* And with a single service at work the table, the log, the file of the   *)
(* index and the loaded index agree on every id that the log tracks.       *)
(***************************************************************************)
EXTENDS Recovery, WriteAheadLog_proofs, WellFoundedInduction

-----------------------------------------------------------------------------
(***************************************************************************)
(* A request that will log has an operation to log.                        *)
(***************************************************************************)
OpReady ==
  /\ op \in [Services -> Operations \cup {NoOp}]
  /\ pc \in [Services -> {"idle", "write", "batch", "log", "logBatch", "flush", "flushing",
                          "save", "dump", "checkpoint", "checkpointing", "load"}]
  /\ \A s \in Services : pc[s] \in Opening => op[s] \in Operations

\* The logs of a service are logs of the collection.
LEMMA OwnAndFresh ==
  ASSUME NEW s \in Services
  PROVE  Own(s) \in Instances /\ Fresh(s) \in Instances
  BY RecoveryAssumption DEF Own, Fresh

\* Inserts and updates are operations.
LEMMA OperationShapes ==
  ASSUME NEW id \in Ids, NEW v \in Vals
  PROVE  /\ [kind |-> "INSERT", id |-> id, val |-> v] \in Operations
         /\ [kind |-> "UPDATE_META", id |-> id, val |-> v] \in Operations
  BY DEF Operations

\* So are deletes.
LEMMA DeleteShape ==
  ASSUME NEW id \in Ids
  PROVE  [kind |-> "DELETE", id |-> id] \in Operations
  BY DEF Operations

\* Moving a request to a step that does not log, or one that has an operation.
LEMMA BeginReady ==
  ASSUME OpReady, NEW s \in Services, NEW o \in Operations,
         NEW next \in {"write", "batch"}, Begin(s, o, next)
  PROVE  OpReady'
  BY DEF OpReady, Begin, Opening

\* Every request that writes begins with an operation.
LEMMA WritingReady ==
  ASSUME OpReady, NEW s \in Services, NEW id \in Ids, NEW v \in Vals,
         \/ Create(s, id, v) \/ Recreate(s, id, v) \/ BatchCreate(s, id, v)
         \/ UpdateMetadata(s, id, v) \/ Delete(s, id)
  PROVE  OpReady'
<1>1. CASE Create(s, id, v)
  BY <1>1, OperationShapes, BeginReady DEF Create
<1>2. CASE Recreate(s, id, v)
  BY <1>2, OperationShapes, BeginReady DEF Recreate
<1>3. CASE BatchCreate(s, id, v)
  BY <1>3, OperationShapes, BeginReady DEF BatchCreate
<1>4. CASE UpdateMetadata(s, id, v)
  BY <1>4, OperationShapes, BeginReady DEF UpdateMetadata
<1>5. CASE Delete(s, id)
  BY <1>5, DeleteShape, BeginReady DEF Delete
<1> QED
  BY <1>1, <1>2, <1>3, <1>4, <1>5

\* Logging keeps the operation until it is buffered.
LEMMA LoggingReady ==
  ASSUME OpReady, NEW s \in Services, LogStart(s) \/ LogEnd(s)
  PROVE  OpReady'
<1>1. CASE LogStart(s)
  BY <1>1 DEF OpReady, LogStart, Opening
<1>2. CASE LogEnd(s)
  BY <1>2 DEF OpReady, LogEnd, Opening
<1> QED
  BY <1>1, <1>2

\* A request may move to any step that logs nothing.
LEMMA QuietReady ==
  ASSUME OpReady, UNCHANGED op, NEW s \in Services,
         NEW next \in {"idle", "flush", "flushing", "save", "dump", "checkpoint",
                       "checkpointing", "load"},
         pc' = [pc EXCEPT ![s] = next]
  PROVE  OpReady'
  BY DEF OpReady, Opening

\* The requests that log nothing themselves.
LEMMA RestReady ==
  ASSUME OpReady, NEW s \in Services,
         \/ BatchFlush(s) \/ BatchEnd(s) \/ SaveOpen(s) \/ SaveWrite(s)
         \/ SaveCheckpoint(s) \/ SaveEnd(s) \/ LoadReplay(s) \/ SaveOrLoadFails(s)
         \/ \E k \in Kinds : Build(s, k) \/ Save(s, k) \/ LoadStart(s, k)
  PROVE  OpReady'
<1>1. /\ UNCHANGED op
      /\ \E next \in {"idle", "flush", "flushing", "save", "dump", "checkpoint",
                      "checkpointing", "load"} : pc' = [pc EXCEPT ![s] = next]
  BY DEF BatchFlush, BatchEnd, SaveOpen, SaveWrite, SaveCheckpoint, SaveEnd, LoadReplay,
         SaveOrLoadFails, Build, Save, LoadStart
<1> QED
  BY <1>1, QuietReady

\* No step loses the operation of a request that will log.
LEMMA ReadyStep ==
  ASSUME OpReady, [Next]_allVars
  PROVE  OpReady'
<1>1. ASSUME NEW s \in Services, NEW id \in Ids, NEW v \in Vals,
             BatchCreateUnindexed(s, id, v) \/ RewriteVector(s, id, v)
      PROVE  OpReady'
  BY <1>1 DEF BatchCreateUnindexed, RewriteVector, CommitOnly, service, OpReady
<1>2. ASSUME NEW s \in Services, NEW id \in Ids, Delete(s, id)
      PROVE  OpReady'
  BY <1>2, DeleteShape, BeginReady DEF Delete
<1>3. ASSUME NEW s \in Services, Recycle(s)
      PROVE  OpReady'
  BY <1>3 DEF Recycle, OpReady
<1>4. CASE Background
  BY <1>4 DEF Background, recVars, service, OpReady
<1>5. CASE ProcessCrash
  BY <1>5 DEF ProcessCrash, OpReady, Opening
<1>6. CASE UNCHANGED allVars
  BY <1>6 DEF allVars, recVars, service, OpReady
<1>7. ASSUME NEW s \in Services, RequestFails(s)
      PROVE  OpReady'
  BY <1>7 DEF RequestFails, OpReady, Opening
<1> QED
  BY <1>1, <1>2, <1>3, <1>4, <1>5, <1>6, <1>7, WritingReady, LoggingReady, RestReady DEF Next

-----------------------------------------------------------------------------
(***************************************************************************)
(* Every step of the composition is a step of the log or leaves it alone.  *)
(***************************************************************************)
LEMMA LogStartIsStamp ==
  ASSUME OpReady, NEW s \in Services, LogStart(s)
  PROVE  WalNext
<1>1. op[s] \in Ops
  BY RecoveryAssumption DEF LogStart, OpReady, Opening
<1> QED
  BY <1>1, OwnAndFresh DEF LogStart, WalNext, WalStep

\* Calls of the log are steps of the log.
LEMMA CallsAreWalSteps ==
  ASSUME NEW s \in Services,
         LogEnd(s) \/ BatchFlush(s) \/ BatchEnd(s) \/ SaveCheckpoint(s) \/ SaveEnd(s)
  PROVE  WalNext
  BY OwnAndFresh DEF LogEnd, BatchFlush, BatchEnd, SaveCheckpoint, SaveEnd, WalNext, WalStep

\* All other requests leave the log alone.
LEMMA OthersLeaveTheLog ==
  ASSUME NEW s \in Services,
         \/ \E id \in Ids, v \in Vals :
              \/ Create(s, id, v) \/ Recreate(s, id, v) \/ BatchCreate(s, id, v)
              \/ BatchCreateUnindexed(s, id, v)
              \/ UpdateMetadata(s, id, v) \/ RewriteVector(s, id, v)
         \/ \E id \in Ids : Delete(s, id)
         \/ \E k \in Kinds : Build(s, k) \/ Save(s, k) \/ LoadStart(s, k)
         \/ RequestFails(s)
         \/ SaveOpen(s) \/ SaveWrite(s) \/ LoadReplay(s) \/ SaveOrLoadFails(s) \/ Recycle(s)
  PROVE  UNCHANGED walVars
  BY DEF Create, Recreate, BatchCreate, BatchCreateUnindexed, UpdateMetadata, RewriteVector,
         Delete, RequestFails, Build, Save, LoadStart, SaveOpen, SaveWrite, LoadReplay,
         SaveOrLoadFails, Recycle, Begin, CommitOnly

\* So does the composition with threads and crashes.
LEMMA StepsAreWalSteps ==
  ASSUME OpReady, [Next]_allVars
  PROVE  [WalNext]_walVars
<1>1. CASE Background
  BY <1>1 DEF Background, WalNext, WalStep
<1>2. CASE ProcessCrash
  BY <1>2 DEF ProcessCrash, WalNext
<1>3. CASE UNCHANGED allVars
  BY <1>3 DEF allVars
<1> QED
  BY <1>1, <1>2, <1>3, LogStartIsStamp, CallsAreWalSteps, OthersLeaveTheLog DEF Next

\* Whatever requests the services of vector_service.py, hnsw_database.py and
\* ivf_database.py serve, they use the log as wal.py allows.
THEOREM ServicesImplementLog == Spec => WalSpec
<1>1. Init => WalInit /\ OpReady
  BY DEF Init, OpReady, Opening
<1>2. OpReady /\ [Next]_allVars => OpReady'
  BY ReadyStep
<1>3. OpReady /\ [Next]_allVars => [WalNext]_walVars
  BY StepsAreWalSteps
<1> QED
  BY <1>1, <1>2, <1>3, PTL DEF Spec, WalSpec

\* No request of any service and no crash makes the next replay miss an entry that was
\* fsynced after the last checkpoint, unless a rotation or a torn line has taken it.
THEOREM ServicesKeepSynced ==
  ASSUME RotatedKept
  PROVE  Spec => []SyncedIsReplayed
<1>1. Spec => WalSpec
  BY ServicesImplementLog
<1>2. WalSpec => []SyncedIsReplayed
  BY SyncedSurvives
<1> QED
  BY <1>1, <1>2

\* No request of any service, and no crash, puts an operation twice in the logs.
THEOREM ServicesLogOnce == Spec => []OneCopy
<1>1. Spec => WalSpec
  BY ServicesImplementLog
<1>2. WalSpec => []OneCopy
  BY NeverTwice
<1> QED
  BY <1>1, <1>2

-----------------------------------------------------------------------------
(***************************************************************************)
(* replay(), one entry after another.                                      *)
(***************************************************************************)
\* A set of numbers has a least one.
LEMMA Least ==
  ASSUME NEW T, T \subseteq Nat, T # {}
  PROVE  \E x \in T : \A y \in T : x <= y
<1>1. IsWellFoundedOn(OpToRel(<,Nat), Nat)
  BY NatLessThanWellFounded
<1>2. PICK R : R = OpToRel(<,Nat)
  OBVIOUS
<1>3. \A x, y \in Nat : <<x, y>> \in R <=> x < y
  BY <1>2 DEF OpToRel
<1>4. \E x \in T : \A y \in T : ~ (<<y, x>> \in R)
  BY <1>1, <1>2, WFMin
<1>5. PICK x \in T : \A y \in T : ~ (<<y, x>> \in R)
  BY <1>4
<1>6. \A y \in T : x <= y
  <2> TAKE y \in T
  <2>1. x \in Nat /\ y \in Nat /\ ~ (<<y, x>> \in R)
    BY <1>5
  <2>2. ~ (y < x)
    BY <1>3, <2>1
  <2> QED
    BY <2>1, <2>2
<1> QED
  BY <1>6

\* What holds at 0 and of the next number holds up to N.
LEMMA UpTo ==
  ASSUME NEW N \in Nat, NEW T \in SUBSET (0 .. N), 0 \in T,
         \A k \in 0 .. N - 1 : k \in T => k + 1 \in T
  PROVE  \A k \in 0 .. N : k \in T
<1> PICK bad : bad = (0 .. N) \ T
  OBVIOUS
<1>1. ASSUME bad # {} PROVE FALSE
  <2>1. PICK x \in bad : \A y \in bad : x <= y
    <3>1. bad \subseteq Nat
      OBVIOUS
    <3> QED
      BY <1>1, <3>1, Least
  <2>2. x # 0 /\ x \in 0 .. N
    BY <2>1
  <2>3. x - 1 \in 0 .. N - 1 /\ x - 1 \notin bad /\ x - 1 + 1 = x
    BY <2>1, <2>2
  <2>4. x - 1 \in T
    BY <2>3
  <2> QED
    BY <2>1, <2>3, <2>4
<1> QED
  BY <1>1

\* The run of a loop over 1 .. N.
RunsUp(a, N, start, F) ==
  a = [k \in 0 .. N |-> IF k = 0 THEN start ELSE F[<<k, a[k - 1]>>]]

\* A loop whose steps stay in a set has a run.
LEMMA RunExists ==
  ASSUME NEW N \in Nat, NEW S, NEW start \in S, NEW F \in [(1 .. N) \X S -> S]
  PROVE  \E a \in [0 .. N -> S] : RunsUp(a, N, start, F)
<1> DEFINE Good(n, a) == a[0] = start /\ \A k \in 1 .. n : a[k] = F[<<k, a[k - 1]>>]
           T == {n \in 0 .. N : \E a \in [0 .. n -> S] : Good(n, a)}
<1>1. 0 \in T
  <2>1. PICK a : a = [k \in 0 .. 0 |-> start]
    OBVIOUS
  <2>2. a \in [0 .. 0 -> S] /\ Good(0, a)
    BY <2>1
  <2> QED
    BY <2>2
<1>2. ASSUME NEW n \in 0 .. N - 1, n \in T PROVE n + 1 \in T
  <2>1. PICK a \in [0 .. n -> S] : Good(n, a)
    BY <1>2
  <2>2. PICK b : b = [k \in 0 .. n + 1 |-> IF k = n + 1 THEN F[<<n + 1, a[n]>>] ELSE a[k]]
    OBVIOUS
  <2>3. F[<<n + 1, a[n]>>] \in S
    OBVIOUS
  <2>4. b \in [0 .. n + 1 -> S]
    <3> SUFFICES ASSUME NEW k \in 0 .. n + 1
                 PROVE  (IF k = n + 1 THEN F[<<n + 1, a[n]>>] ELSE a[k]) \in S
      BY <2>2
    <3>1. k # n + 1 => k \in 0 .. n
      OBVIOUS
    <3> QED
      BY <2>3, <3>1
  <2>5. \A k \in 0 .. n : b[k] = a[k]
    BY <2>2
  <2>6. b[n + 1] = F[<<n + 1, a[n]>>] /\ b[n] = a[n] /\ b[0] = start
    BY <2>1, <2>2, <2>5
  <2>7. ASSUME NEW k \in 1 .. n + 1 PROVE b[k] = F[<<k, b[k - 1]>>]
    <3>1. CASE k = n + 1
      <4>1. k - 1 = n
        BY <3>1
      <4> QED
        BY <2>6, <3>1, <4>1
    <3>2. CASE k # n + 1
      <4>1. k \in 1 .. n /\ k \in 0 .. n /\ k - 1 \in 0 .. n
        BY <3>2
      <4>2. b[k] = a[k] /\ b[k - 1] = a[k - 1]
        BY <2>5, <4>1
      <4> QED
        BY <2>1, <4>1, <4>2
    <3> QED
      BY <3>1, <3>2
  <2>8. Good(n + 1, b)
    BY <2>6, <2>7
  <2> QED
    BY <2>4, <2>8
<1>3. N \in T
  <2>1. \A k \in 0 .. N : k \in T
    <3> HIDE DEF T
    <3>1. T \in SUBSET (0 .. N)
      BY DEF T
    <3> QED
      BY <1>1, <1>2, <3>1, UpTo
  <2> QED
    BY <2>1
<1>4. PICK a \in [0 .. N -> S] : Good(N, a)
  BY <1>3
<1>5. ASSUME NEW k \in 0 .. N PROVE a[k] = IF k = 0 THEN start ELSE F[<<k, a[k - 1]>>]
  BY <1>4
<1>6. a = [k \in 0 .. N |-> IF k = 0 THEN start ELSE F[<<k, a[k - 1]>>]]
  BY <1>4, <1>5
<1> QED
  BY <1>4, <1>6 DEF RunsUp

\* The content of an index is neither of the two marks.
LEMMA ContentFacts ==
  /\ \A c \in Contents : Loaded(c) /\ c # Missing /\ c # Broken
  /\ \A c \in Contents, id \in Ids : c[id] \in Vals \cup {Absent}
<1>1. ASSUME NEW c \in Contents PROVE c # Missing /\ c # Broken
  BY RecoveryAssumption DEF Contents
<1> QED
  BY <1>1 DEF Loaded, Contents

\* What an entry carries.
LEMMA EntryFacts ==
  ASSUME NEW e \in Entry
  PROVE  /\ e.op \in Operations /\ e.op.id \in Ids /\ e.ts \in Nat /\ IsEntry(e)
         /\ e.op.kind \in {"INSERT", "DELETE", "UPDATE_META"}
         /\ e.op.kind # "DELETE" => e.op.val \in Vals
<1>1. e.op \in Operations /\ e.ts \in Nat
  BY RecoveryAssumption DEF Entry
<1>2. e.op.id \in Ids /\ e.op.kind \in {"INSERT", "DELETE", "UPDATE_META"}
      /\ (e.op.kind # "DELETE" => e.op.val \in Vals)
  BY <1>1 DEF Operations
<1> QED
  BY <1>1, <1>2, EntriesAreLines

\* An operation changes what an index holds for its id.
Changed(a, o) ==
  IF o.kind = "INSERT" THEN o.val ELSE IF o.kind = "DELETE" \/ a = Absent THEN Absent ELSE o.val

\* An operation changes one id of an index.
LEMMA ApplyIs ==
  ASSUME NEW c \in Contents, NEW o \in Operations
  PROVE  /\ Apply(c, o) \in Contents
         /\ \A id \in Ids : Apply(c, o)[id] = IF id = o.id THEN Changed(c[id], o) ELSE c[id]
<1>1. CASE o \in [kind : {"INSERT"}, id : Ids, val : Vals]
  <2>1. o.kind = "INSERT" /\ o.id \in Ids /\ o.val \in Vals /\ Apply(c, o) = [c EXCEPT ![o.id] = o.val]
    BY <1>1 DEF Apply
  <2> QED
    BY <2>1 DEF Contents, Changed
<1>2. CASE o \in [kind : {"UPDATE_META"}, id : Ids, val : Vals]
  <2>1. /\ o.kind = "UPDATE_META" /\ o.id \in Ids /\ o.val \in Vals
        /\ Apply(c, o) = IF c[o.id] = Absent THEN c ELSE [c EXCEPT ![o.id] = o.val]
    BY <1>2 DEF Apply
  <2> QED
    BY <2>1 DEF Contents, Changed
<1>3. CASE o \in [kind : {"DELETE"}, id : Ids]
  <2>1. o.kind = "DELETE" /\ o.id \in Ids /\ Apply(c, o) = [c EXCEPT ![o.id] = Absent]
    BY <1>3 DEF Apply
  <2> QED
    BY <2>1 DEF Contents, Changed
<1> QED
  BY <1>1, <1>2, <1>3 DEF Operations

\* r is what replay() makes of the index c, line by line of the file.
Replays(r, c) ==
  /\ r \in [0 .. Len(file) -> Contents] /\ r[0] = c
  /\ \A n \in 1 .. Len(file) :
       r[n] = IF IsPending(file[n]) THEN Apply(r[n - 1], file[n].op) ELSE r[n - 1]

\* replay() goes through the lines one by one.
LEMMA ReplayRuns ==
  ASSUME file \in Seq(Entry), NEW c \in Contents
  PROVE  \E r : Replays(r, c) /\ Recovered(c) = r[Len(file)]
<1>1. PICK N \in Nat : N = Len(file)
  OBVIOUS
<1>2. \A n \in 1 .. N : file[n].op \in Operations
  <2>1. \A n \in 1 .. N : file[n] \in Entry
    BY <1>1
  <2> QED
    BY <2>1, EntryFacts
<1> DEFINE Step(n, a) == IF IsPending(file[n]) THEN Apply(a, file[n].op) ELSE a
<1>3. PICK F : F = [p \in (1 .. N) \X Contents |-> Step(p[1], p[2])]
  OBVIOUS
<1>4. \A n \in 1 .. N : \A a \in Contents : Step(n, a) \in Contents
  BY <1>2, ApplyIs
<1> HIDE DEF Step
<1>5. F \in [(1 .. N) \X Contents -> Contents] /\ \A n \in 1 .. N : \A a \in Contents : F[<<n, a>>] = Step(n, a)
  BY <1>3, <1>4
<1>6. PICK a \in [0 .. N -> Contents] : RunsUp(a, N, c, F)
  BY <1>5, RunExists
<1>7. a = [k \in 0 .. N |-> IF k = 0 THEN c ELSE F[<<k, a[k - 1]>>]]
  BY <1>6 DEF RunsUp
<1>8. ASSUME NEW k \in 0 .. N PROVE a[k] = IF k = 0 THEN c ELSE Step(k, a[k - 1])
  <2>1. k # 0 => a[k - 1] \in Contents /\ k \in 1 .. N
    BY <1>6
  <2> QED
    BY <1>5, <1>7, <2>1
<1>9. a = [k \in 0 .. N |-> IF k = 0 THEN c ELSE Step(k, a[k - 1])]
  BY <1>6, <1>8
<1>10. a = [k \in 0 .. N |-> IF k = 0 THEN c
                             ELSE IF IsPending(file[k]) THEN Apply(a[k - 1], file[k].op) ELSE a[k - 1]]
  BY <1>9 DEF Step
<1> DEFINE replay[n \in 0 .. N] ==
             IF n = 0 THEN c
             ELSE IF IsPending(file[n]) THEN Apply(replay[n - 1], file[n].op) ELSE replay[n - 1]
<1>11. replay = [n \in 0 .. N |-> IF n = 0 THEN c
                                  ELSE IF IsPending(file[n]) THEN Apply(replay[n - 1], file[n].op)
                                  ELSE replay[n - 1]]
  BY <1>10
<1>12. Recovered(c) = replay[N]
  BY <1>1 DEF Recovered
<1>13. PICK r : r = replay
  OBVIOUS
<1> HIDE DEF replay
<1>14. r = [n \in 0 .. N |-> IF n = 0 THEN c
                             ELSE IF IsPending(file[n]) THEN Apply(r[n - 1], file[n].op) ELSE r[n - 1]]
  BY <1>11, <1>13
<1>15. r = [n \in 0 .. N |-> IF n = 0 THEN c ELSE Step(n, r[n - 1])]
  BY <1>14 DEF Step
<1>16. \A n \in 0 .. N : r[n] = IF n = 0 THEN c ELSE Step(n, r[n - 1])
  BY <1>15
<1>17. \A n \in 0 .. N : r[n] \in Contents
  <2> DEFINE T == {n \in 0 .. N : r[n] \in Contents}
  <2>1. 0 \in T
    BY <1>16
  <2>2. ASSUME NEW n \in 0 .. N - 1, n \in T PROVE n + 1 \in T
    <3>1. n + 1 \in 1 .. N /\ n + 1 \in 0 .. N /\ n + 1 - 1 = n /\ n + 1 # 0
      OBVIOUS
    <3> QED
      BY <1>4, <1>16, <2>2, <3>1
  <2>3. T \in SUBSET (0 .. N)
    OBVIOUS
  <2> HIDE DEF T
  <2>4. \A n \in 0 .. N : n \in T
    BY <2>1, <2>2, <2>3, UpTo
  <2> QED
    BY <2>4 DEF T
<1>18. r \in [0 .. N -> Contents]
  BY <1>15, <1>17
<1>19. r[0] = c /\ \A n \in 1 .. N : r[n] = Step(n, r[n - 1])
  BY <1>16
<1> QED
  BY <1>1, <1>12, <1>13, <1>18, <1>19 DEF Replays, Step

-----------------------------------------------------------------------------
(***************************************************************************)
(* What a replay leaves for one id: an insert or a delete decides whether  *)
(* the index has it, a change of its metadata only what it has.            *)
(***************************************************************************)
Decides(o) == o.kind # "UPDATE_META"
Outcome(o) == IF o.kind = "DELETE" THEN Absent ELSE o.val

\* The entries of id that are replayed.
Replayed(n, id) == IsPending(file[n]) /\ file[n].op.id = id
ReplayedSet(n, id) == Replayed(n, id) /\ Decides(file[n].op)

\* a is what an index has that had b, and none of the entries n .. m decided.
Touched(a, b, n, m, id) ==
  /\ a = Absent <=> b = Absent
  /\ (\A i \in n .. m : ~Replayed(i, id)) => a = b

\* After m lines the index has a for an id that it had b for.
Result(a, b, m, id) ==
  \/ /\ \A i \in 1 .. m : ~ReplayedSet(i, id)
     /\ Touched(a, b, 1, m, id)
  \/ \E j \in 1 .. m :
       /\ ReplayedSet(j, id) /\ \A i \in j + 1 .. m : ~ReplayedSet(i, id)
       /\ Touched(a, Outcome(file[j].op), j + 1, m, id)

\* One line more.
LEMMA ResultGrows ==
  ASSUME file \in Seq(Entry), NEW id \in Ids, NEW m \in 1 .. Len(file),
         NEW a \in Vals \cup {Absent}, NEW b \in Vals \cup {Absent}, Result(a, b, m - 1, id)
  PROVE  Result(IF Replayed(m, id) THEN Changed(a, file[m].op) ELSE a, b, m, id)
<1>1. m \in Nat /\ m - 1 \in Nat /\ m \in Int
  OBVIOUS
<1>e. file[m] \in Entry
  OBVIOUS
<1>2. PICK o : o = file[m].op
  OBVIOUS
<1>3. /\ o.kind \in {"INSERT", "DELETE", "UPDATE_META"}
      /\ o.kind # "DELETE" => o.val \in Vals
  BY <1>2, <1>e, EntryFacts
<1>v. Absent \notin Vals
  BY RecoveryAssumption
<1>4. \A n \in Nat \ {0} : \A i \in n .. m : i = m \/ i \in n .. m - 1
  BY <1>1
<1>5. CASE ~Replayed(m, id)
  <2>1. ~ReplayedSet(m, id)
    BY <1>5 DEF ReplayedSet
  <2>2. ASSUME \A i \in 1 .. m - 1 : ~ReplayedSet(i, id), Touched(a, b, 1, m - 1, id)
        PROVE  Result(a, b, m, id)
    <3>1. \A i \in 1 .. m : ~ReplayedSet(i, id)
      BY <1>4, <2>1, <2>2
    <3>2. Touched(a, b, 1, m, id)
      BY <1>1, <2>2 DEF Touched
    <3> QED
      BY <3>1, <3>2 DEF Result
  <2>3. ASSUME NEW j \in 1 .. m - 1, ReplayedSet(j, id), \A i \in j + 1 .. m - 1 : ~ReplayedSet(i, id),
               Touched(a, Outcome(file[j].op), j + 1, m - 1, id)
        PROVE  Result(a, b, m, id)
    <3>1. j \in 1 .. m /\ j + 1 \in Nat \ {0}
      BY <1>1
    <3>2. \A i \in j + 1 .. m : ~ReplayedSet(i, id)
      BY <1>4, <2>1, <2>3, <3>1
    <3>3. Touched(a, Outcome(file[j].op), j + 1, m, id)
      BY <1>1, <2>3, <3>1 DEF Touched
    <3> QED
      BY <2>3, <3>1, <3>2, <3>3 DEF Result
  <2> QED
    BY <1>5, <2>2, <2>3 DEF Result
<1>6. CASE ReplayedSet(m, id)
  <2>1. Changed(a, o) = Outcome(o) /\ Replayed(m, id)
    BY <1>2, <1>3, <1>6 DEF ReplayedSet, Decides, Changed, Outcome
  <2>2. m \in 1 .. m /\ \A i \in m + 1 .. m : FALSE
    BY <1>1
  <2>3. Touched(Outcome(o), Outcome(o), m + 1, m, id)
    BY DEF Touched
  <2> QED
    BY <1>2, <1>6, <2>1, <2>2, <2>3 DEF Result
<1>7. CASE Replayed(m, id) /\ ~ReplayedSet(m, id)
  <2>1. o.kind = "UPDATE_META"
    BY <1>2, <1>7 DEF ReplayedSet, Decides
  <2>2. PICK c : c = Changed(a, o)
    OBVIOUS
  <2>3. c = Absent <=> a = Absent
    BY <1>3, <1>v, <2>1, <2>2 DEF Changed
  <2>4. ASSUME \A i \in 1 .. m - 1 : ~ReplayedSet(i, id), Touched(a, b, 1, m - 1, id)
        PROVE  Result(c, b, m, id)
    <3>1. \A i \in 1 .. m : ~ReplayedSet(i, id)
      BY <1>4, <1>7, <2>4
    <3>2. m \in 1 .. m
      BY <1>1
    <3>3. Touched(c, b, 1, m, id)
      BY <1>7, <2>3, <2>4, <3>2 DEF Touched
    <3> QED
      BY <3>1, <3>3 DEF Result
  <2>5. ASSUME NEW j \in 1 .. m - 1, ReplayedSet(j, id), \A i \in j + 1 .. m - 1 : ~ReplayedSet(i, id),
               Touched(a, Outcome(file[j].op), j + 1, m - 1, id)
        PROVE  Result(c, b, m, id)
    <3>1. j \in 1 .. m /\ j + 1 \in Nat \ {0} /\ m \in j + 1 .. m
      BY <1>1
    <3>2. \A i \in j + 1 .. m : ~ReplayedSet(i, id)
      BY <1>4, <1>7, <2>5, <3>1
    <3>3. Touched(c, Outcome(file[j].op), j + 1, m, id)
      BY <1>7, <2>3, <2>5, <3>1 DEF Touched
    <3> QED
      BY <2>5, <3>1, <3>2, <3>3 DEF Result
  <2> QED
    BY <1>2, <1>7, <2>2, <2>4, <2>5 DEF Result
<1> QED
  BY <1>2, <1>5, <1>6, <1>7 DEF ReplayedSet

\* What replay() makes of an index, id by id.
LEMMA RecoveredIs ==
  ASSUME file \in Seq(Entry), NEW c \in Contents
  PROVE  /\ Recovered(c) \in Contents
         /\ \A id \in Ids : Result(Recovered(c)[id], c[id], Len(file), id)
<1>1. PICK r : Replays(r, c) /\ Recovered(c) = r[Len(file)]
  BY ReplayRuns
<1>2. PICK N \in Nat : N = Len(file)
  OBVIOUS
<1>3. /\ r \in [0 .. N -> Contents] /\ r[0] = c
      /\ \A n \in 1 .. N :
           r[n] = IF IsPending(file[n]) THEN Apply(r[n - 1], file[n].op) ELSE r[n - 1]
  BY <1>1, <1>2 DEF Replays
<1>4. ASSUME NEW id \in Ids PROVE Result(r[N][id], c[id], N, id)
  <2> DEFINE T == {n \in 0 .. N : Result(r[n][id], c[id], n, id)}
  <2>1. 0 \in T
    <3>1. Touched(c[id], c[id], 1, 0, id) /\ \A i \in 1 .. 0 : FALSE
      BY DEF Touched
    <3> QED
      BY <1>3, <3>1 DEF Result
  <2>2. ASSUME NEW n \in 0 .. N - 1, n \in T PROVE n + 1 \in T
    <3>1. PICK m \in 1 .. N : m = n + 1
      OBVIOUS
    <3>2. m - 1 = n /\ m \in 1 .. Len(file) /\ n \in 0 .. N
      BY <1>2, <3>1
    <3>3. PICK p \in Contents : p = r[n]
      BY <1>3, <3>2
    <3>4. p[id] \in Vals \cup {Absent} /\ c[id] \in Vals \cup {Absent} /\ Result(p[id], c[id], m - 1, id)
      BY <2>2, <3>2, <3>3, ContentFacts
    <3>5. Result(IF Replayed(m, id) THEN Changed(p[id], file[m].op) ELSE p[id], c[id], m, id)
      BY <3>2, <3>4, ResultGrows
    <3>6. r[m][id] = IF Replayed(m, id) THEN Changed(p[id], file[m].op) ELSE p[id]
      <4>1. r[m] = IF IsPending(file[m]) THEN Apply(p, file[m].op) ELSE p
        BY <1>3, <3>2, <3>3
      <4>2. file[m].op \in Operations
        <5>1. file[m] \in Entry
          BY <3>2
        <5> QED
          BY <5>1, EntryFacts
      <4> QED
        BY <4>1, <4>2, ApplyIs DEF Replayed
    <3> QED
      BY <3>1, <3>5, <3>6
  <2>3. T \in SUBSET (0 .. N)
    OBVIOUS
  <2> HIDE DEF T
  <2>4. \A n \in 0 .. N : n \in T
    BY <2>1, <2>2, <2>3, UpTo
  <2> QED
    BY <2>4 DEF T
<1> QED
  BY <1>1, <1>2, <1>3, <1>4

-----------------------------------------------------------------------------
(***************************************************************************)
(* Types of what the services keep.                                        *)
(***************************************************************************)
Files == Contents \cup {Missing, Broken}

RecTypes ==
  /\ db \in Contents
  /\ index \in [Services -> [Kinds -> Files]]
  /\ snapshot \in [Kinds -> Files]
  /\ target \in [Services -> Kinds \cup {"none"}]
  /\ draft \in [Services -> Files]

\* A request works on a kind of index that it can load, save or replace.
Working(s) ==
  /\ pc[s] \in {"save", "dump", "checkpoint", "load"} => target[s] \in Kinds
  /\ pc[s] \in {"save", "dump"} => Loaded(index[s][target[s]])
  /\ pc[s] = "load" => Loaded(draft[s])

RecInv == OpReady /\ RecTypes /\ \A s \in Services : Working(s)

\* A file can be loaded or has one of the two marks.
LEMMA FileFacts ==
  ASSUME NEW c \in Files
  PROVE  Loaded(c) <=> c \in Contents
  BY ContentFacts DEF Files, Loaded

\* An operation reaches the loaded indexes of its service only.
LEMMA ApplyToLoadedType ==
  ASSUME RecTypes, NEW s \in Services, NEW o \in Operations
  PROVE  /\ ApplyToLoaded(s, o) \in [Services -> [Kinds -> Files]]
         /\ \A k \in Kinds : ApplyToLoaded(s, o)[s][k] = IF Loaded(index[s][k]) THEN Apply(index[s][k], o)
                                                         ELSE index[s][k]
         /\ \A r \in Services \ {s} : ApplyToLoaded(s, o)[r] = index[r]
<1>1. PICK row : row = [k \in Kinds |-> IF Loaded(index[s][k]) THEN Apply(index[s][k], o) ELSE index[s][k]]
  OBVIOUS
<1>2. ASSUME NEW k \in Kinds PROVE row[k] \in Files
  <2>1. PICK c \in Files : c = index[s][k]
    BY DEF RecTypes
  <2>2. CASE Loaded(c)
    <3>1. Apply(c, o) \in Contents
      BY <2>1, <2>2, FileFacts, ApplyIs
    <3> QED
      BY <1>1, <2>1, <2>2, <3>1 DEF Files
  <2>3. CASE ~Loaded(c)
    BY <1>1, <2>1, <2>3
  <2> QED
    BY <2>2, <2>3
<1>3. row \in [Kinds -> Files]
  BY <1>1, <1>2
<1>4. ApplyToLoaded(s, o) = [index EXCEPT ![s] = row]
  BY <1>1 DEF ApplyToLoaded
<1> QED
  BY <1>1, <1>3, <1>4 DEF RecTypes

\* The services start with types in order.
LEMMA RecInit == Init => RecInv
<1> SUFFICES ASSUME Init PROVE RecInv
  OBVIOUS
<1>1. OpReady
  BY DEF Init, OpReady, Opening
<1>2. RecTypes
  BY DEF Init, RecTypes, Contents, Files
<1> QED
  BY <1>1, <1>2 DEF Init, RecInv, Working

\* Rows are written by requests of every kind.
LEMMA CommitType ==
  ASSUME RecTypes, NEW id \in Ids, NEW v \in Vals \cup {Absent}, Commit(id, v)
  PROVE  /\ db' \in Contents /\ db'[id] = v
         /\ \A i \in Ids \ {id} : db'[i] = db[i]
  BY DEF RecTypes, Commit, Contents

\* A request that begins to write commits at most its row.
LEMMA WritingRec ==
  ASSUME RecInv, NEW s \in Services, NEW id \in Ids, NEW v \in Vals,
         \/ Create(s, id, v) \/ Recreate(s, id, v) \/ BatchCreate(s, id, v)
         \/ UpdateMetadata(s, id, v) \/ Delete(s, id)
  PROVE  RecInv'
<1>1. OpReady'
  BY WritingReady DEF RecInv
<1>2. /\ db' \in Contents /\ UNCHANGED <<index, snapshot, target, draft>>
      /\ \E next \in {"write", "batch"} : pc' = [pc EXCEPT ![s] = next]
  <2>1. \E o : \E next \in {"write", "batch"} : Begin(s, o, next)
    BY DEF Create, Recreate, BatchCreate, UpdateMetadata, Delete
  <2>2. db' = db \/ Commit(id, v) \/ Commit(id, Absent)
    BY DEF Create, Recreate, BatchCreate, UpdateMetadata, Delete
  <2>3. db' \in Contents
    BY <2>2, CommitType DEF RecInv, RecTypes
  <2> QED
    BY <2>1, <2>3 DEF Begin
<1>3. RecTypes'
  BY <1>2 DEF RecInv, RecTypes
<1>4. \A r \in Services : Working(r)'
  BY <1>2 DEF RecInv, OpReady, Working
<1> QED
  BY <1>1, <1>3, <1>4 DEF RecInv

\* A commit that is not logged.
LEMMA CommitOnlyRec ==
  ASSUME RecInv, NEW id \in Ids, NEW v \in Vals, CommitOnly(id, v)
  PROVE  RecInv'
<1>1. UNCHANGED <<snapshot, index, pc, op, target, draft>> /\ db' \in Contents
  BY CommitType DEF CommitOnly, service, RecInv
<1>2. OpReady' /\ RecTypes'
  BY <1>1 DEF RecInv, OpReady, RecTypes
<1> QED
  BY <1>1, <1>2 DEF RecInv, Working

\* Stamping the entry and indexing the vector.
LEMMA LogStartRec ==
  ASSUME RecInv, NEW s \in Services, LogStart(s)
  PROVE  RecInv'
<1>1. op[s] \in Operations
  BY DEF RecInv, OpReady, LogStart, Opening
<1>2. index' \in [Services -> [Kinds -> Files]]
  BY <1>1, ApplyToLoadedType DEF LogStart, RecInv, RecTypes
<1>3. /\ pc' = [pc EXCEPT ![s] = IF @ = "batch" THEN "logBatch" ELSE "log"]
      /\ UNCHANGED <<db, snapshot, op, target, draft>>
      /\ \A r \in Services \ {s} : index'[r] = index[r]
  BY <1>1, ApplyToLoadedType DEF LogStart, RecInv
<1>4. OpReady' /\ RecTypes'
  BY <1>1, <1>2, <1>3 DEF RecInv, OpReady, RecTypes
<1>5. \A r \in Services : Working(r)'
  BY <1>3 DEF RecInv, OpReady, Working
<1> QED
  BY <1>4, <1>5 DEF RecInv

\* Buffering the entry and taking out a deleted vector.
LEMMA LogEndRec ==
  ASSUME RecInv, NEW s \in Services, LogEnd(s)
  PROVE  RecInv'
<1>1. op[s] \in Operations
  BY DEF RecInv, OpReady, LogEnd, Opening
<1>2. index' \in [Services -> [Kinds -> Files]]
  BY <1>1, ApplyToLoadedType DEF LogEnd, RecInv, RecTypes
<1>3. /\ pc' = [pc EXCEPT ![s] = IF @ = "logBatch" THEN "flush" ELSE "idle"]
      /\ op' = [op EXCEPT ![s] = NoOp]
      /\ UNCHANGED <<db, snapshot, target, draft>>
      /\ \A r \in Services \ {s} : index'[r] = index[r]
  BY <1>1, ApplyToLoadedType DEF LogEnd, RecInv
<1>4. OpReady' /\ RecTypes'
  BY <1>1, <1>2, <1>3 DEF RecInv, OpReady, RecTypes, Opening
<1>5. \A r \in Services : Working(r)'
  BY <1>3 DEF RecInv, OpReady, Working
<1> QED
  BY <1>4, <1>5 DEF RecInv

\* A failing request leaves each index as it was or with the vector.
LEMMA FailingIndex ==
  ASSUME RecInv, NEW s \in Services, RequestFails(s)
  PROVE  /\ index' \in [Services -> [Kinds -> Files]]
         /\ \A r \in Services \ {s} : index'[r] = index[r]
         /\ \A k \in Kinds : index'[s][k] \in {index[s][k], ApplyToLoaded(s, op[s])[s][k]}
<1>1. op[s] \in Operations
  BY DEF RecInv, OpReady, RequestFails, Opening
<1>2. PICK done \in [Services -> [Kinds -> Files]] : done = ApplyToLoaded(s, op[s])
  BY <1>1, ApplyToLoadedType DEF RecInv
<1>3. PICK tried \in {{}, Kinds \ {"ivf"}, Kinds} :
        index' = [index EXCEPT ![s] = [k \in Kinds |->
                    IF k \in tried /\ op[s].kind = "INSERT" THEN ApplyToLoaded(s, op[s])[s][k]
                    ELSE @[k]]]
  BY DEF RequestFails
<1>4. PICK row : row = [k \in Kinds |->
                          IF k \in tried /\ op[s].kind = "INSERT" THEN ApplyToLoaded(s, op[s])[s][k]
                          ELSE index[s][k]]
  OBVIOUS
<1>5. index' = [index EXCEPT ![s] = row]
  BY <1>3, <1>4
<1>6. \A k \in Kinds : row[k] \in {index[s][k], ApplyToLoaded(s, op[s])[s][k]}
  BY <1>4
<1>7. done[s] \in [Kinds -> Files] /\ index[s] \in [Kinds -> Files]
  BY <1>2 DEF RecInv, RecTypes
<1>8. \A k \in Kinds : row[k] \in Files
  BY <1>2, <1>6, <1>7
<1>9. row \in [Kinds -> Files]
  BY <1>4, <1>8
<1> QED
  BY <1>5, <1>6, <1>9 DEF RecInv, RecTypes

LEMMA RequestFailsRec ==
  ASSUME RecInv, NEW s \in Services, RequestFails(s)
  PROVE  RecInv'
<1>1. /\ index' \in [Services -> [Kinds -> Files]]
      /\ \A r \in Services \ {s} : index'[r] = index[r]
  BY FailingIndex
<1>2. /\ pc' = [pc EXCEPT ![s] = "idle"] /\ op' = [op EXCEPT ![s] = NoOp]
      /\ UNCHANGED <<db, snapshot, target, draft>>
  BY DEF RequestFails
<1>3. OpReady' /\ RecTypes'
  BY <1>1, <1>2 DEF RecInv, OpReady, RecTypes, Opening
<1>4. \A r \in Services : Working(r)'
  BY <1>1, <1>2 DEF RecInv, OpReady, Working
<1> QED
  BY <1>3, <1>4 DEF RecInv

\* A save or a load that fails.
LEMMA SaveOrLoadFailsRec ==
  ASSUME RecInv, NEW s \in Services, SaveOrLoadFails(s)
  PROVE  RecInv'
<1>1. /\ pc' = [pc EXCEPT ![s] = "idle"] /\ draft' = [draft EXCEPT ![s] = Missing]
      /\ UNCHANGED <<db, snapshot, index, op, target>>
  BY DEF SaveOrLoadFails
<1>2. OpReady' /\ RecTypes'
  BY <1>1 DEF RecInv, OpReady, RecTypes, Opening, Files
<1>3. \A r \in Services : Working(r)'
  BY <1>1 DEF RecInv, OpReady, RecTypes, Working
<1> QED
  BY <1>2, <1>3 DEF RecInv

\* A step that leaves the rows, the files and what is loaded alone, and ends where nothing is needed.
LEMMA PlainRec ==
  ASSUME RecInv, NEW s \in Services, UNCHANGED <<db, snapshot, index, op, target, draft>>,
         NEW next \in {"idle", "flush", "flushing", "checkpointing"}, pc' = [pc EXCEPT ![s] = next]
  PROVE  RecInv'
<1>1. OpReady' /\ RecTypes'
  BY DEF RecInv, OpReady, RecTypes, Opening
<1>2. \A r \in Services : Working(r)'
  BY DEF RecInv, OpReady, Working
<1> QED
  BY <1>1, <1>2 DEF RecInv

\* A new index has rows of the table.
LEMMA BuildFacts ==
  ASSUME RecTypes, NEW s \in Services, NEW k \in Kinds, Build(s, k)
  PROVE  \E c \in Contents :
           /\ index' = [index EXCEPT ![s] = [@ EXCEPT ![k] = c]]
           /\ untracked \subseteq untracked'
           /\ \A id \in Ids : c[id] = db[id] \/ id \in untracked'
<1>1. PICK taken \in SUBSET Rows :
        /\ index' = [index EXCEPT ![s][k] = [id \in Ids |-> IF id \in taken THEN db[id] ELSE Absent]]
        /\ untracked' = untracked \cup (Rows \ taken)
  BY DEF Build
<1>2. PICK c : c = [id \in Ids |-> IF id \in taken THEN db[id] ELSE Absent]
  OBVIOUS
<1>3. c \in Contents
  BY <1>2 DEF Contents, RecTypes
<1>4. \A id \in Ids : c[id] = db[id] \/ id \in untracked'
  BY <1>1, <1>2 DEF Rows
<1> QED
  BY <1>1, <1>2, <1>3, <1>4

LEMMA BuildRec ==
  ASSUME RecInv, NEW s \in Services, NEW k \in Kinds, Build(s, k)
  PROVE  RecInv'
<1>0. PICK c \in Contents : index' = [index EXCEPT ![s] = [@ EXCEPT ![k] = c]]
  BY BuildFacts DEF RecInv
<1>1. /\ target' = [target EXCEPT ![s] = k]
      /\ pc' = [pc EXCEPT ![s] = IF k = "ivf" THEN "save" ELSE "idle"]
      /\ UNCHANGED <<db, snapshot, op, draft>>
  BY DEF Build
<1>2. index'[s][k] = c /\ index' \in [Services -> [Kinds -> Files]]
      /\ \A r \in Services \ {s} : index'[r] = index[r]
  BY <1>0 DEF RecInv, RecTypes, Files
<1>3. OpReady' /\ RecTypes'
  BY <1>1, <1>2 DEF RecInv, OpReady, RecTypes, Opening
<1>4. Working(s)'
  <2>1. target'[s] = k /\ Loaded(c) /\ pc'[s] \in {"save", "idle"}
    BY <1>1, ContentFacts DEF RecInv, RecTypes, OpReady
  <2> QED
    BY <1>2, <2>1 DEF Working
<1>5. \A r \in Services \ {s} : Working(r)'
  BY <1>1, <1>2 DEF RecInv, OpReady, RecTypes, Working
<1> QED
  BY <1>3, <1>4, <1>5 DEF RecInv

\* A save begins.
LEMMA SaveRec ==
  ASSUME RecInv, NEW s \in Services, NEW k \in Kinds, Save(s, k)
  PROVE  RecInv'
<1>1. /\ Loaded(index[s][k]) /\ target' = [target EXCEPT ![s] = k] /\ pc' = [pc EXCEPT ![s] = "save"]
      /\ UNCHANGED <<db, snapshot, index, op, draft>>
  BY DEF Save
<1>2. OpReady' /\ RecTypes'
  BY <1>1 DEF RecInv, OpReady, RecTypes, Opening
<1>3. \A r \in Services : Working(r)'
  BY <1>1 DEF RecInv, OpReady, RecTypes, Working
<1> QED
  BY <1>2, <1>3 DEF RecInv

\* A save opens the file of the index.
LEMMA SaveOpenRec ==
  ASSUME RecInv, NEW s \in Services, SaveOpen(s)
  PROVE  RecInv'
<1>1. /\ pc[s] = "save" /\ snapshot' = [snapshot EXCEPT ![target[s]] = Broken]
      /\ pc' = [pc EXCEPT ![s] = "dump"] /\ UNCHANGED <<db, index, op, target, draft>>
  BY DEF SaveOpen
<1>2. OpReady' /\ RecTypes'
  BY <1>1 DEF RecInv, OpReady, RecTypes, Opening, Files
<1>3. \A r \in Services : Working(r)'
  BY <1>1 DEF RecInv, OpReady, Working
<1> QED
  BY <1>2, <1>3 DEF RecInv

\* A save writes the file of the index.
LEMMA SaveWriteRec ==
  ASSUME RecInv, NEW s \in Services, SaveWrite(s)
  PROVE  RecInv'
<1>1. /\ pc[s] = "dump" /\ snapshot' = [snapshot EXCEPT ![target[s]] = index[s][target[s]]]
      /\ pc' = [pc EXCEPT ![s] = IF target[s] = "hnsw" THEN "checkpoint" ELSE "idle"]
      /\ UNCHANGED <<db, index, op, target, draft>>
  BY DEF SaveWrite
<1>2. target[s] \in Kinds /\ index[s][target[s]] \in Files
  BY <1>1 DEF RecInv, Working, RecTypes
<1>3. OpReady' /\ RecTypes'
  BY <1>1, <1>2 DEF RecInv, OpReady, RecTypes, Opening
<1>4. \A r \in Services : Working(r)'
  BY <1>1, <1>2 DEF RecInv, OpReady, Working
<1> QED
  BY <1>3, <1>4 DEF RecInv

\* A load reads the file.
LEMMA LoadStartRec ==
  ASSUME RecInv, NEW s \in Services, NEW k \in Kinds, LoadStart(s, k)
  PROVE  RecInv'
<1>1. /\ Loaded(snapshot[k]) /\ draft' = [draft EXCEPT ![s] = snapshot[k]]
      /\ target' = [target EXCEPT ![s] = k] /\ pc' = [pc EXCEPT ![s] = "load"]
      /\ UNCHANGED <<db, snapshot, index, op>>
  BY DEF LoadStart
<1>2. OpReady' /\ RecTypes'
  BY <1>1 DEF RecInv, OpReady, RecTypes, Opening
<1>3. \A r \in Services : Working(r)'
  BY <1>1 DEF RecInv, OpReady, RecTypes, Working
<1> QED
  BY <1>2, <1>3 DEF RecInv

\* A load replays the log over what it has read.
LEMMA LoadReplayRec ==
  ASSUME RecInv, file \in Seq(Entry), NEW s \in Services, LoadReplay(s)
  PROVE  RecInv'
<1>1. PICK c : c = Recovered(draft[s])
  OBVIOUS
<1>2. /\ pc[s] = "load" /\ index' = [index EXCEPT ![s] = [@ EXCEPT ![target[s]] = c]]
      /\ draft' = [draft EXCEPT ![s] = Missing] /\ pc' = [pc EXCEPT ![s] = "idle"]
      /\ UNCHANGED <<db, snapshot, op, target>>
  BY <1>1 DEF LoadReplay
<1>3. c \in Contents /\ target[s] \in Kinds
  <2>1. PICK d \in Files : d = draft[s]
    BY DEF RecInv, RecTypes
  <2>2. d \in Contents
    BY <1>2, <2>1, FileFacts DEF RecInv, Working
  <2> QED
    BY <1>1, <1>2, <2>1, <2>2, RecoveredIs DEF RecInv, Working
<1>4. index' \in [Services -> [Kinds -> Files]]
      /\ \A r \in Services \ {s} : index'[r] = index[r]
  BY <1>2, <1>3 DEF RecInv, RecTypes, Files
<1>5. OpReady' /\ RecTypes'
  BY <1>2, <1>4 DEF RecInv, OpReady, RecTypes, Opening, Files
<1>6. \A r \in Services : Working(r)'
  BY <1>2, <1>4 DEF RecInv, OpReady, RecTypes, Working
<1> QED
  BY <1>5, <1>6 DEF RecInv

\* The next service has no index.
LEMMA RecycleRec ==
  ASSUME RecInv, NEW s \in Services, Recycle(s)
  PROVE  RecInv'
<1>1. /\ pc[s] = "idle" /\ index' = [index EXCEPT ![s] = [k \in Kinds |-> Missing]]
      /\ UNCHANGED <<db, snapshot, pc, op, target, draft>>
  BY DEF Recycle, Arrives
<1>2. OpReady' /\ RecTypes'
  BY <1>1 DEF RecInv, OpReady, RecTypes, Files
<1>3. \A r \in Services : Working(r)'
  BY <1>1 DEF RecInv, RecTypes, Working
<1> QED
  BY <1>2, <1>3 DEF RecInv

\* After a crash no service has an index.
LEMMA CrashRec ==
  ASSUME RecInv, ProcessCrash
  PROVE  RecInv'
<1>1. OpReady' /\ RecTypes'
  BY DEF RecInv, OpReady, RecTypes, ProcessCrash, Files, Opening
<1> QED
  BY <1>1 DEF RecInv, Working, ProcessCrash

\* No step of a service or of the log breaks a type or leaves a request without its index.
LEMMA RecStep ==
  ASSUME RecInv, file \in Seq(Entry), [Next]_allVars
  PROVE  RecInv'
<1>1. ASSUME NEW s \in Services, NEW id \in Ids, NEW v \in Vals,
             \/ Create(s, id, v) \/ Recreate(s, id, v) \/ BatchCreate(s, id, v)
             \/ UpdateMetadata(s, id, v)
      PROVE  RecInv'
  BY <1>1, WritingRec
<1>2. ASSUME NEW s \in Services, NEW id \in Ids, NEW v \in Vals,
             BatchCreateUnindexed(s, id, v) \/ RewriteVector(s, id, v)
      PROVE  RecInv'
  BY <1>2, CommitOnlyRec DEF BatchCreateUnindexed, RewriteVector
<1>3. ASSUME NEW s \in Services, NEW id \in Ids, Delete(s, id) PROVE RecInv'
  <2>1. CASE Vals = {}
    BY <1>3, <2>1 DEF Delete, RecInv, RecTypes, Contents
  <2>2. CASE Vals # {}
    <3>1. PICK v \in Vals : TRUE
      BY <2>2
    <3> QED
      BY <1>3, <3>1, WritingRec
  <2> QED
    BY <2>1, <2>2
<1>4. ASSUME NEW s \in Services, LogStart(s) \/ LogEnd(s) PROVE RecInv'
  BY <1>4, LogStartRec, LogEndRec
<1>5. ASSUME NEW s \in Services, BatchFlush(s) \/ BatchEnd(s) \/ SaveCheckpoint(s) \/ SaveEnd(s)
      PROVE  RecInv'
  BY <1>5, PlainRec DEF BatchFlush, BatchEnd, SaveCheckpoint, SaveEnd
<1>6. ASSUME NEW s \in Services, NEW k \in Kinds, Build(s, k) \/ Save(s, k) \/ LoadStart(s, k)
      PROVE  RecInv'
  BY <1>6, BuildRec, SaveRec, LoadStartRec
<1>7. ASSUME NEW s \in Services, \/ SaveOpen(s) \/ SaveWrite(s) \/ LoadReplay(s) \/ Recycle(s)
                                 \/ RequestFails(s) \/ SaveOrLoadFails(s)
      PROVE  RecInv'
  BY <1>7, SaveOpenRec, SaveWriteRec, LoadReplayRec, RecycleRec, RequestFailsRec, SaveOrLoadFailsRec
<1>8. CASE Background \/ UNCHANGED allVars
  BY <1>8 DEF Background, allVars, recVars, service, RecInv, OpReady, RecTypes, Working
<1>9. CASE ProcessCrash
  BY <1>9, CrashRec
<1> QED
  BY <1>1, <1>2, <1>3, <1>4, <1>5, <1>6, <1>7, <1>8, <1>9 DEF Next

-----------------------------------------------------------------------------
(***************************************************************************)
(* One service: where the entries are that its log was given.              *)
(***************************************************************************)
Flushing(s) == drained[<<Own(s), "flusher">>]
Calling(s) == drained[<<Own(s), "caller">>]
Buffered(s) == buffer[Own(s)]
Stamping(s) == IF call[Own(s)] = "log" THEN {stamped[Own(s)]} ELSE {}

\* The requests of the service, the calls of its log and of those that its saves make.
Control(s) ==
  /\ call[Own(s)] \in {"none", "log", "flush"}
  /\ call[Own(s)] = "log" <=> pc[s] \in {"log", "logBatch"}
  /\ call[Own(s)] = "log" => stamped[Own(s)].op = op[s]
  /\ call[Fresh(s)] \in {"none", "checkpoint", "mark", "truncate"}
  /\ call[Fresh(s)] # "none" => pc[s] = "checkpointing"
  /\ Calling(s) # <<>> => Buffered(s) = <<>> /\ pc[s] = "flushing"
  /\ buffer[Fresh(s)] = <<>>
  /\ drained[<<Fresh(s), "flusher">>] = <<>> /\ drained[<<Fresh(s), "caller">>] = <<>>
  /\ file \in Seq(Entry) /\ ~torn /\ toRotate = {}

\* The lists and the line in the file that belong to the service.
Kept(s) ==
  UNCHANGED <<Flushing(s), Calling(s), Buffered(s), Stamping(s), file>>

\* The threads and logs of a single service.
LEMMA OneLog ==
  ASSUME NEW s, Services = {s}
  PROVE  /\ Instances = {Own(s), Fresh(s)} /\ Own(s) # Fresh(s)
         /\ Threads = {<<Own(s), "flusher">>, <<Own(s), "caller">>,
                       <<Fresh(s), "flusher">>, <<Fresh(s), "caller">>}
<1>1. Instances = {Own(s), Fresh(s)} /\ Own(s) # Fresh(s)
  BY RecoveryAssumption DEF Own, Fresh
<1> QED
  BY <1>1 DEF Threads

\* What the lists of entries hold.
LEMMA ListTypes ==
  ASSUME WalTypeInv, NEW s, Services = {s}
  PROVE  /\ Flushing(s) \in Seq(Entry) /\ Calling(s) \in Seq(Entry) /\ Buffered(s) \in Seq(Entry)
         /\ Stamping(s) \subseteq Entry
<1>1. /\ Own(s) \in Instances /\ <<Own(s), "flusher">> \in Threads /\ <<Own(s), "caller">> \in Threads
  BY OneLog
<1> QED
  BY <1>1 DEF WalTypeInv, WalTypeOK, Flushing, Calling, Buffered, Stamping

\* A step of a request that leaves the log alone.
LEMMA ControlStays ==
  ASSUME NEW s, Services = {s}, OpReady, Control(s), UNCHANGED walVars,
         pc[s] \notin {"log", "logBatch", "flushing", "checkpointing"},
         pc'[s] \notin {"log", "logBatch"}
  PROVE  Control(s)' /\ Kept(s) /\ UNCHANGED <<clock, cutoff>>
<1>1. UNCHANGED <<clock, call, stamped, buffer, drained, file, torn, toRotate, cutoff>>
  BY DEF walVars, walVolatile, walDisk
<1>2. Kept(s)
  BY <1>1 DEF Kept, Flushing, Calling, Buffered, Stamping
<1>3. Control(s)'
  BY <1>1 DEF Control, Flushing, Calling, Buffered
<1> QED
  BY <1>1, <1>2, <1>3

\* A stamp is one more entry, newer than all others.
LEMMA LogStartMoves ==
  ASSUME NEW s, Services = {s}, WalTypeInv, OpReady, Control(s), LogStart(s)
  PROVE  /\ Control(s)' /\ UNCHANGED <<Flushing(s), Calling(s), Buffered(s), file, cutoff>>
         /\ clock' = clock + 1 /\ Stamping(s) = {}
         /\ \E e \in Entry : e.ts = clock + 1 /\ e.op = op[s] /\ Stamping(s)' = {e}
<1>1. Own(s) \in Instances /\ Fresh(s) \in Instances /\ Own(s) # Fresh(s) /\ s \in Services
  BY OneLog
<1>2. PICK e : e = [ts |-> clock + 1, op |-> op[s]]
  OBVIOUS
<1>3. /\ pc[s] \in {"write", "batch"} /\ call[Own(s)] = "none" /\ clock < MaxClock /\ clock' = clock + 1
      /\ stamped' = [stamped EXCEPT ![Own(s)] = e] /\ call' = [call EXCEPT ![Own(s)] = "log"]
      /\ pc' = [pc EXCEPT ![s] = IF @ = "batch" THEN "logBatch" ELSE "log"] /\ op' = op
      /\ UNCHANGED <<buffer, drained, toRotate, file, torn, cutoff>>
  BY <1>2 DEF LogStart, Stamp, walDisk
<1>4. /\ call'[Own(s)] = "log" /\ stamped'[Own(s)] = e /\ call'[Fresh(s)] = call[Fresh(s)]
      /\ pc'[s] \in {"log", "logBatch"}
  BY <1>1, <1>3 DEF WalTypeInv, WalTypeOK, OpReady
<1>5. e \in Entry
  <2>1. op[s] \in Operations
    BY <1>1, <1>3 DEF OpReady, Opening
  <2>2. clock + 1 \in 1 .. MaxClock
    BY <1>3, WalAssumption DEF WalTypeInv, WalTypeOK
  <2>3. PICK t \in 1 .. MaxClock, o \in Ops : t = clock + 1 /\ o = op[s]
    BY <2>1, <2>2, RecoveryAssumption
  <2>4. e = [ts |-> t, op |-> o]
    BY <1>2, <2>3
  <2> QED
    BY <2>4 DEF Entry
<1>6. UNCHANGED <<Flushing(s), Calling(s), Buffered(s), file, cutoff>>
  BY <1>3 DEF Flushing, Calling, Buffered
<1>7. Stamping(s) = {} /\ Stamping(s)' = {e}
  BY <1>3, <1>4 DEF Stamping
<1>8. Control(s)'
  BY <1>2, <1>3, <1>4, <1>6 DEF Control
<1>9. e.ts = clock + 1 /\ e.op = op[s]
  BY <1>2
<1> QED
  BY <1>3, <1>5, <1>6, <1>7, <1>8, <1>9

\* The entry goes to the end of the buffer.
LEMMA LogEndMoves ==
  ASSUME NEW s, Services = {s}, WalTypeInv, OpReady, Control(s), LogEnd(s)
  PROVE  /\ Control(s)' /\ UNCHANGED <<Flushing(s), Calling(s), file, clock, cutoff>>
         /\ Stamping(s)' = {}
         /\ \E e \in Entry : /\ Stamping(s) = {e} /\ e.op = op[s]
                             /\ Buffered(s)' = Append(Buffered(s), e)
<1>1. Own(s) \in Instances /\ Fresh(s) \in Instances /\ Own(s) # Fresh(s) /\ s \in Services
  BY OneLog
<1>2. PICK e : e = stamped[Own(s)]
  OBVIOUS
<1>3. /\ pc[s] \in {"log", "logBatch"} /\ call[Own(s)] = "log"
      /\ buffer' = [buffer EXCEPT ![Own(s)] = Append(@, e)]
      /\ stamped' = [stamped EXCEPT ![Own(s)] = None] /\ call' = [call EXCEPT ![Own(s)] = "none"]
      /\ pc' = [pc EXCEPT ![s] = IF @ = "logBatch" THEN "flush" ELSE "idle"]
      /\ UNCHANGED <<clock, drained, toRotate, file, torn, cutoff>>
  BY <1>2 DEF LogEnd, AppendEntry, walDisk
<1>4. e \in Entry
  BY <1>1, <1>2, <1>3 DEF WalTypeInv, WalTypeOK
<1>5. /\ call'[Own(s)] = "none" /\ call'[Fresh(s)] = call[Fresh(s)]
      /\ buffer'[Own(s)] = Append(buffer[Own(s)], e) /\ buffer'[Fresh(s)] = buffer[Fresh(s)]
      /\ pc'[s] \in {"flush", "idle"}
  BY <1>1, <1>3 DEF WalTypeInv, WalTypeOK, OpReady
<1>6. UNCHANGED <<Flushing(s), Calling(s), file, clock, cutoff>> /\ Calling(s) = <<>>
  BY <1>3 DEF Flushing, Calling, Control
<1>7. Stamping(s) = {e} /\ Stamping(s)' = {} /\ Buffered(s)' = Append(Buffered(s), e) /\ e.op = op[s]
  BY <1>2, <1>3, <1>5 DEF Stamping, Buffered, Control
<1>8. Control(s)'
  BY <1>3, <1>5, <1>6 DEF Control
<1> QED
  BY <1>4, <1>6, <1>7, <1>8

\* A thread of the service takes the buffer.
LEMMA BatchFlushMoves ==
  ASSUME NEW s, Services = {s}, WalTypeInv, OpReady, Control(s), BatchFlush(s)
  PROVE  /\ Control(s)' /\ UNCHANGED <<Flushing(s), Stamping(s), file, clock, cutoff>>
         /\ Calling(s) = <<>> /\ Calling(s)' = Buffered(s) /\ Buffered(s)' = <<>>
<1>1. Own(s) \in Instances /\ Fresh(s) \in Instances /\ Own(s) # Fresh(s) /\ s \in Services
      /\ <<Own(s), "caller">> \in Threads
  BY OneLog
<1>2. /\ pc[s] = "flush" /\ call[Own(s)] = "none" /\ call' = [call EXCEPT ![Own(s)] = "flush"]
      /\ pc' = [pc EXCEPT ![s] = "flushing"]
      /\ UNCHANGED <<clock, file, torn, cutoff>>
  BY DEF BatchFlush, FlushCall, CallFlushing, walDisk
<1>3. /\ call'[Own(s)] = "flush" /\ call'[Fresh(s)] = call[Fresh(s)] /\ pc'[s] = "flushing"
  BY <1>1, <1>2 DEF WalTypeInv, WalTypeOK, OpReady
<1>4. Calling(s) = <<>>
  BY <1>2 DEF Control
<1>5. /\ UNCHANGED <<stamped, toRotate>>
      /\ Flushing(s)' = Flushing(s) /\ Calling(s)' = Buffered(s) /\ Buffered(s)' = <<>>
      /\ buffer'[Fresh(s)] = buffer[Fresh(s)]
      /\ \A w \in {"flusher", "caller"} : drained'[<<Fresh(s), w>>] = drained[<<Fresh(s), w>>]
  <2>1. CASE buffer[Own(s)] = <<>>
    <3>1. UNCHANGED <<stamped, buffer, drained, toRotate>>
      BY <2>1 DEF BatchFlush, FlushCall, CallFlushing
    <3> QED
      BY <1>4, <2>1, <3>1 DEF Flushing, Calling, Buffered
  <2>2. CASE buffer[Own(s)] # <<>>
    <3>1. /\ drained' = [drained EXCEPT ![<<Own(s), "caller">>] = buffer[Own(s)]]
          /\ buffer' = [buffer EXCEPT ![Own(s)] = <<>>] /\ UNCHANGED <<stamped, toRotate>>
      BY <2>2 DEF BatchFlush, FlushCall, CallFlushing, Drain
    <3> QED
      BY <1>1, <3>1 DEF WalTypeInv, WalTypeOK, Flushing, Calling, Buffered
  <2> QED
    BY <2>1, <2>2
<1>6. Stamping(s)' = Stamping(s)
  BY <1>2, <1>3 DEF Stamping
<1>7. Control(s)'
  BY <1>2, <1>3, <1>5 DEF Control
<1> QED
  BY <1>2, <1>4, <1>5, <1>6, <1>7

\* The flusher takes the buffer when the caller has no batch of its own.
LEMMA FlusherDrainMoves ==
  ASSUME NEW s, Services = {s}, WalTypeInv, OpReady, Control(s), UNCHANGED <<pc, op>>,
         NEW i \in Instances, FlusherDrain(i)
  PROVE  /\ Control(s)' /\ UNCHANGED <<Stamping(s), Calling(s), file, clock, cutoff>>
         /\ Flushing(s) = <<>> /\ Calling(s) = <<>> /\ Flushing(s)' = Buffered(s) /\ Buffered(s)' = <<>>
<1>1. Own(s) \in Instances /\ Fresh(s) \in Instances /\ Own(s) # Fresh(s) /\ s \in Services
      /\ <<Own(s), "flusher">> \in Threads
  BY OneLog
<1>2. /\ drained[<<i, "flusher">>] = <<>> /\ buffer[i] # <<>>
      /\ drained' = [drained EXCEPT ![<<i, "flusher">>] = buffer[i]]
      /\ buffer' = [buffer EXCEPT ![i] = <<>>]
      /\ UNCHANGED <<stamped, toRotate, clock, call, file, torn, cutoff>>
  BY DEF FlusherDrain, Drain, walDisk
<1>3. i = Own(s)
  BY <1>2, OneLog DEF Control
<1>4. Flushing(s) = <<>> /\ Calling(s) = <<>>
  BY <1>2, <1>3 DEF Control, Flushing, Buffered
<1>5. /\ Flushing(s)' = Buffered(s) /\ Buffered(s)' = <<>> /\ Calling(s)' = Calling(s)
      /\ Stamping(s)' = Stamping(s)
      /\ buffer'[Fresh(s)] = buffer[Fresh(s)]
      /\ \A w \in {"flusher", "caller"} : drained'[<<Fresh(s), w>>] = drained[<<Fresh(s), w>>]
  BY <1>1, <1>2, <1>3 DEF WalTypeInv, WalTypeOK, Flushing, Calling, Buffered, Stamping
<1>6. Control(s)'
  BY <1>2, <1>4, <1>5 DEF Control
<1> QED
  BY <1>2, <1>4, <1>5, <1>6

\* Without a size limit, writing lines is all that a thread does with its batch.
LEMMA WriteMoves ==
  ASSUME NEW s, Services = {s}, MaxSize = 0, WalTypeInv, OpReady, Control(s), UNCHANGED <<pc, op>>,
         NEW t \in Threads, WriteLines(t)
  PROVE  /\ Control(s)' /\ UNCHANGED <<Stamping(s), Buffered(s), clock, cutoff>>
         /\ \/ /\ file' = file \o Flushing(s)
               /\ Flushing(s)' = <<>> /\ Calling(s)' = Calling(s)
            \/ /\ file' = file \o Calling(s)
               /\ Calling(s)' = <<>> /\ Flushing(s)' = Flushing(s)
<1>1. Own(s) \in Instances /\ Fresh(s) \in Instances /\ Own(s) # Fresh(s) /\ s \in Services
  BY OneLog
<1>2. /\ drained[t] # <<>> /\ file' = file \o drained[t] /\ torn' = FALSE
      /\ drained' = [drained EXCEPT ![t] = <<>>] /\ toRotate' = toRotate
      /\ UNCHANGED <<clock, call, stamped, buffer, cutoff>>
  BY DEF WriteLines, AppendLines, Control
<1>3. t \in {<<Own(s), "flusher">>, <<Own(s), "caller">>}
  BY <1>2, OneLog DEF Control
<1>4. /\ Stamping(s)' = Stamping(s) /\ Buffered(s)' = Buffered(s)
      /\ buffer'[Fresh(s)] = buffer[Fresh(s)]
      /\ \A w \in {"flusher", "caller"} : drained'[<<Fresh(s), w>>] = drained[<<Fresh(s), w>>]
  BY <1>1, <1>2, <1>3 DEF WalTypeInv, WalTypeOK, Stamping, Buffered
<1>5. file' \in Seq(Entry)
  <2>1. drained[t] \in Seq(Entry)
    BY DEF WalTypeInv, WalTypeOK
  <2>2. PICK q \in Seq(Entry) : q = drained[t]
    BY <2>1
  <2>3. file' = file \o q /\ file \in Seq(Entry)
    BY <1>2, <2>2 DEF Control
  <2> QED
    BY <2>3
<1>6. CASE t = <<Own(s), "flusher">>
  <2>1. file' = file \o Flushing(s) /\ Flushing(s)' = <<>> /\ Calling(s)' = Calling(s)
    BY <1>2, <1>6 DEF WalTypeInv, WalTypeOK, Flushing, Calling
  <2>2. Control(s)'
    BY <1>2, <1>4, <1>5, <2>1 DEF Control
  <2> QED
    BY <1>2, <1>4, <2>1, <2>2
<1>7. CASE t = <<Own(s), "caller">>
  <2>1. file' = file \o Calling(s) /\ Calling(s)' = <<>> /\ Flushing(s)' = Flushing(s)
    BY <1>2, <1>7 DEF WalTypeInv, WalTypeOK, Flushing, Calling
  <2>2. Control(s)'
    BY <1>2, <1>4, <1>5, <2>1 DEF Control
  <2> QED
    BY <1>2, <1>4, <2>1, <2>2
<1> QED
  BY <1>3, <1>6, <1>7

\* The return of a flush.
LEMMA BatchEndMoves ==
  ASSUME NEW s, Services = {s}, WalTypeInv, OpReady, Control(s), BatchEnd(s)
  PROVE  Control(s)' /\ Kept(s) /\ UNCHANGED <<clock, cutoff>>
<1>1. Own(s) \in Instances /\ Fresh(s) \in Instances /\ Own(s) # Fresh(s) /\ s \in Services
  BY OneLog
<1>2. /\ pc[s] = "flushing" /\ call[Own(s)] = "flush" /\ Calling(s) = <<>>
      /\ call' = [call EXCEPT ![Own(s)] = "none"] /\ pc' = [pc EXCEPT ![s] = "idle"]
      /\ UNCHANGED <<clock, stamped, buffer, drained, toRotate, file, torn, cutoff>>
  BY DEF BatchEnd, FlushReturn, FlushDone, walDisk, Calling
<1>3. call'[Own(s)] = "none" /\ call'[Fresh(s)] = call[Fresh(s)] /\ pc'[s] = "idle"
  BY <1>1, <1>2 DEF WalTypeInv, WalTypeOK, OpReady
<1>4. Kept(s)
  BY <1>2, <1>3 DEF Kept, Flushing, Calling, Buffered, Stamping
<1>5. Control(s)'
  BY <1>2, <1>3, <1>4 DEF Control, Kept
<1> QED
  BY <1>2, <1>4, <1>5

\* The log that a save makes has nothing to flush.
LEMMA SaveCheckpointMoves ==
  ASSUME NEW s, Services = {s}, WalTypeInv, OpReady, Control(s), SaveCheckpoint(s)
  PROVE  Control(s)' /\ Kept(s) /\ UNCHANGED <<clock, cutoff>>
<1>1. Own(s) \in Instances /\ Fresh(s) \in Instances /\ Own(s) # Fresh(s) /\ s \in Services
  BY OneLog
<1>2. /\ pc[s] = "checkpoint" /\ buffer[Fresh(s)] = <<>>
      /\ call' = [call EXCEPT ![Fresh(s)] = "checkpoint"] /\ pc' = [pc EXCEPT ![s] = "checkpointing"]
      /\ UNCHANGED <<clock, stamped, buffer, drained, toRotate, file, torn, cutoff>>
  BY DEF SaveCheckpoint, CheckpointCall, CallFlushing, walDisk, Control
<1>3. call'[Own(s)] = call[Own(s)] /\ call'[Fresh(s)] = "checkpoint" /\ pc'[s] = "checkpointing"
  BY <1>1, <1>2 DEF WalTypeInv, WalTypeOK, OpReady
<1>4. Kept(s)
  BY <1>2, <1>3 DEF Kept, Flushing, Calling, Buffered, Stamping
<1>5. op' = op
  BY DEF SaveCheckpoint
<1>6. Control(s)'
  BY <1>2, <1>3, <1>4, <1>5 DEF Control, Kept
<1> QED
  BY <1>2, <1>4, <1>6

\* The checkpoint empties the file.
LEMMA SaveEndMoves ==
  ASSUME NEW s, Services = {s}, WalTypeInv, OpReady, Control(s), SaveEnd(s)
  PROVE  /\ Control(s)' /\ UNCHANGED <<Flushing(s), Calling(s), Buffered(s), Stamping(s)>>
         /\ file' = <<>> /\ UNCHANGED <<clock, cutoff>>
<1>1. Own(s) \in Instances /\ Fresh(s) \in Instances /\ Own(s) # Fresh(s) /\ s \in Services
  BY OneLog
<1>2. /\ pc[s] = "checkpointing" /\ file' = <<>> /\ torn' = FALSE
      /\ call' = [call EXCEPT ![Fresh(s)] = "none"] /\ pc' = [pc EXCEPT ![s] = "idle"]
      /\ UNCHANGED <<clock, stamped, buffer, drained, toRotate, cutoff>>
  BY DEF SaveEnd, CheckpointTruncate
<1>3. call'[Own(s)] = call[Own(s)] /\ call'[Fresh(s)] = "none" /\ pc'[s] = "idle"
  BY <1>1, <1>2 DEF WalTypeInv, WalTypeOK, OpReady
<1>4. UNCHANGED <<Flushing(s), Calling(s), Buffered(s), Stamping(s)>>
  BY <1>2, <1>3 DEF Flushing, Calling, Buffered, Stamping
<1>5. Control(s)'
  BY <1>2, <1>3, <1>4 DEF Control
<1> QED
  BY <1>2, <1>4, <1>5

\* The steps of the checkpoint that its caller waits for.
LEMMA CheckpointMoves ==
  ASSUME NEW s, Services = {s}, WalTypeInv, OpReady, Control(s), UNCHANGED <<pc, op>>,
         NEW i \in Instances, CheckpointOpen(i) \/ CheckpointMark(i)
  PROVE  /\ Control(s)' /\ Kept(s) /\ pc[s] = "checkpointing" /\ clock' \in {clock, clock + 1}
         /\ CheckpointOpen(i) => cutoff' = 0
<1>1. Own(s) \in Instances /\ Fresh(s) \in Instances /\ Own(s) # Fresh(s) /\ s \in Services
      /\ Instances = {Own(s), Fresh(s)}
  BY OneLog
<1>2. /\ call[i] \in {"checkpoint", "mark"} /\ clock' \in {clock, clock + 1}
      /\ \E next \in {"mark", "truncate"} : call' = [call EXCEPT ![i] = next]
      /\ UNCHANGED <<stamped, buffer, drained, toRotate, file, torn>>
      /\ CheckpointOpen(i) => cutoff' = 0
  BY DEF CheckpointOpen, CheckpointMark
<1>3. i = Fresh(s)
  BY <1>1, <1>2 DEF Control
<1>4. call'[Own(s)] = call[Own(s)] /\ call'[Fresh(s)] \in {"mark", "truncate"} /\ pc[s] = "checkpointing"
  BY <1>1, <1>2, <1>3 DEF WalTypeInv, WalTypeOK, Control
<1>5. Kept(s)
  BY <1>2, <1>4 DEF Kept, Flushing, Calling, Buffered, Stamping
<1>6. Control(s)'
  BY <1>2, <1>4, <1>5 DEF Control, Kept
<1> QED
  BY <1>2, <1>4, <1>5, <1>6

\* A crash leaves the file, with the first lines of a batch at its end.
LEMMA CrashMoves ==
  ASSUME NEW s, Services = {s}, ~TornWrites, WalTypeInv, OpReady, Control(s), ProcessCrash
  PROVE  /\ Control(s)' /\ UNCHANGED <<clock, cutoff>>
         /\ Flushing(s)' = <<>> /\ Calling(s)' = <<>> /\ Buffered(s)' = <<>> /\ Stamping(s)' = {}
         /\ \E q \in {Flushing(s), Calling(s)} : \E n \in 0 .. Len(q) : file' = file \o SubSeq(q, 1, n)
<1>1. /\ Own(s) \in Instances /\ Fresh(s) \in Instances /\ Own(s) # Fresh(s) /\ s \in Services
      /\ \A i \in {Own(s), Fresh(s)} : <<i, "flusher">> \in Threads /\ <<i, "caller">> \in Threads
  BY OneLog
<1>2. /\ UNCHANGED <<clock, cutoff>> /\ toRotate' = {}
      /\ \A i \in Instances : call'[i] = "none" /\ buffer'[i] = <<>>
      /\ \A t \in Threads : drained'[t] = <<>>
      /\ pc'[s] = "idle"
  BY <1>1 DEF ProcessCrash, Crash
<1>3. Flushing(s)' = <<>> /\ Calling(s)' = <<>> /\ Buffered(s)' = <<>> /\ Stamping(s)' = {}
  BY <1>1, <1>2 DEF Flushing, Calling, Buffered, Stamping
<1>4. Flushing(s) \in Seq(Entry) /\ Calling(s) \in Seq(Entry) /\ file \in Seq(Entry) /\ ~torn
  BY ListTypes DEF Control
<1>5. /\ ~torn'
      /\ \E q \in {Flushing(s), Calling(s)} : \E n \in 0 .. Len(q) : file' = file \o SubSeq(q, 1, n)
  <2>1. CASE UNCHANGED <<file, torn>>
    <3>1. PICK q \in Seq(Entry) : q = Flushing(s)
      BY <1>4
    <3>2. SubSeq(q, 1, 0) = <<>> /\ 0 \in 0 .. Len(q)
      BY <3>1
    <3>3. file' = file \o SubSeq(q, 1, 0)
      BY <1>4, <2>1, <3>2
    <3> QED
      BY <1>4, <2>1, <3>1, <3>2, <3>3
  <2>2. ASSUME NEW t \in Threads, drained[t] # <<>>, PartialWrite(t)
        PROVE  /\ ~torn'
               /\ \E q \in {Flushing(s), Calling(s)} : \E n \in 0 .. Len(q) : file' = file \o SubSeq(q, 1, n)
    <3>1. drained[t] \in {Flushing(s), Calling(s)}
      BY <2>2, OneLog DEF Control, Flushing, Calling
    <3>2. PICK q \in Seq(Entry) : q = drained[t]
      BY <1>4, <3>1
    <3>3. PICK n \in 0 .. Len(q) : /\ file' = IF n = 0 THEN file ELSE file \o SubSeq(q, 1, n)
                                   /\ ~torn'
      BY <1>4, <2>2, <3>2 DEF PartialWrite, AppendLines
    <3>4. file' = file \o SubSeq(q, 1, n)
      <4>1. CASE n = 0
        <5>1. SubSeq(q, 1, 0) = <<>>
          OBVIOUS
        <5> QED
          BY <1>4, <3>3, <4>1, <5>1
      <4>2. CASE n # 0
        BY <3>3, <4>2
      <4> QED
        BY <4>1, <4>2
    <3> QED
      BY <3>1, <3>2, <3>3, <3>4
  <2> QED
    BY <2>1, <2>2 DEF ProcessCrash, Crash
<1>6. file' \in Seq(Entry)
  <2>1. PICK q \in Seq(Entry) : \E n \in 0 .. Len(q) : file' = file \o SubSeq(q, 1, n)
    BY <1>4, <1>5
  <2>5. PICK n \in 0 .. Len(q) : file' = file \o SubSeq(q, 1, n)
    BY <2>1
  <2>2. SubSeq(q, 1, n) \in Seq(Entry)
    OBVIOUS
  <2>3. PICK p \in Seq(Entry) : p = SubSeq(q, 1, n)
    BY <2>2
  <2>4. file' = file \o p
    BY <2>5, <2>3
  <2> QED
    BY <1>4, <2>4
<1>7. Control(s)'
  BY <1>1, <1>2, <1>3, <1>5, <1>6 DEF Control
<1> QED
  BY <1>2, <1>3, <1>5, <1>7

\* At the start there are no entries.
LEMMA ControlInit ==
  ASSUME NEW s, Services = {s}, Init
  PROVE  /\ Control(s) /\ file = <<>> /\ Stamping(s) = {}
         /\ Flushing(s) = <<>> /\ Calling(s) = <<>> /\ Buffered(s) = <<>>
<1>1. /\ Own(s) \in Instances /\ Fresh(s) \in Instances /\ s \in Services
      /\ \A i \in {Own(s), Fresh(s)} : <<i, "flusher">> \in Threads /\ <<i, "caller">> \in Threads
  BY OneLog
<1>2. /\ \A i \in Instances : call[i] = "none" /\ buffer[i] = <<>>
      /\ \A t \in Threads : drained[t] = <<>>
      /\ toRotate = {} /\ file = <<>> /\ ~torn /\ pc[s] = "idle"
  BY <1>1 DEF Init, WalInit
<1>3. <<>> \in Seq(Entry)
  OBVIOUS
<1> QED
  BY <1>1, <1>2, <1>3 DEF Control, Flushing, Calling, Buffered, Stamping

-----------------------------------------------------------------------------
(***************************************************************************)
(* The entries of one id come to the file in the order they were stamped.  *)
(***************************************************************************)
Held(s) == ToSet(Flushing(s)) \cup ToSet(Calling(s)) \cup ToSet(Buffered(s)) \cup Stamping(s)
Logged(s) == ToSet(file) \cup Held(s)

\* Entries of id in A are older than those in B, and in the order of their lines in q.
Before(A, B, id) == \A a \in A, b \in B : a.op.id = id /\ b.op.id = id => a.ts < b.ts
LinesAscend(q, id) ==
  \A i, j \in DOMAIN q : i < j /\ q[i].op.id = id /\ q[j].op.id = id => q[i].ts < q[j].ts
Without(A, id) == \A e \in A : e.op.id # id

InOrder(s, id) ==
  /\ LinesAscend(file, id) /\ LinesAscend(Flushing(s), id) /\ LinesAscend(Calling(s), id)
  /\ LinesAscend(Buffered(s), id)
  /\ Before(ToSet(file), Held(s), id)
  /\ Before(ToSet(Flushing(s)), ToSet(Calling(s)) \cup ToSet(Buffered(s)) \cup Stamping(s), id)
  /\ Before(ToSet(Calling(s)), ToSet(Buffered(s)) \cup Stamping(s), id)
  /\ Before(ToSet(Buffered(s)), Stamping(s), id)
  /\ Without(ToSet(Flushing(s)), id) \/ Without(ToSet(Calling(s)), id)
  /\ \A e \in Logged(s) : e.op.id = id => e.ts <= clock

\* The lines of two lists put together.
LEMMA LinesOf ==
  ASSUME NEW S, NEW a \in Seq(S), NEW b \in Seq(S)
  PROVE  ToSet(a \o b) = ToSet(a) \cup ToSet(b)
<1>1. a \o b \in Seq(S) /\ Len(a \o b) = Len(a) + Len(b) /\ DOMAIN (a \o b) = 1 .. Len(a) + Len(b)
      /\ \A i \in 1 .. Len(a) + Len(b) : (a \o b)[i] = IF i <= Len(a) THEN a[i] ELSE b[i - Len(a)]
  OBVIOUS
<1>2. PICK c : c = a \o b
  OBVIOUS
<1>3. PICK m \in Nat, n \in Nat : m = Len(a) /\ n = Len(b)
  OBVIOUS
<1>4. DOMAIN c = 1 .. m + n /\ DOMAIN a = 1 .. m /\ DOMAIN b = 1 .. n
      /\ \A i \in 1 .. m + n : c[i] = IF i <= m THEN a[i] ELSE b[i - m]
  BY <1>1, <1>2, <1>3
<1>5. ASSUME NEW i \in 1 .. m + n PROVE c[i] \in ToSet(a) \cup ToSet(b)
  <2>1. CASE i <= m
    BY <1>4, <2>1 DEF ToSet
  <2>2. CASE ~(i <= m)
    <3>1. i - m \in 1 .. n
      BY <2>2
    <3> QED
      BY <1>4, <2>2, <3>1 DEF ToSet
  <2> QED
    BY <2>1, <2>2
<1>6. ASSUME NEW i \in 1 .. m PROVE a[i] \in ToSet(c)
  <2>1. i \in 1 .. m + n /\ i <= m
    OBVIOUS
  <2> QED
    BY <1>4, <2>1 DEF ToSet
<1>7. ASSUME NEW i \in 1 .. n PROVE b[i] \in ToSet(c)
  <2>1. PICK j \in 1 .. m + n : ~(j <= m) /\ j - m = i
    <3>1. i + m \in 1 .. m + n /\ ~(i + m <= m) /\ (i + m) - m = i
      OBVIOUS
    <3> QED
      BY <3>1
  <2>2. c[j] = b[i]
    BY <1>4, <2>1
  <2> QED
    BY <1>4, <2>2 DEF ToSet
<1>8. ToSet(c) \subseteq ToSet(a) \cup ToSet(b)
  <2>1. \A x \in ToSet(c) : \E i \in 1 .. m + n : x = c[i]
    BY <1>4 DEF ToSet
  <2> QED
    BY <1>5, <2>1
<1>9. ToSet(a) \subseteq ToSet(c) /\ ToSet(b) \subseteq ToSet(c)
  <2>1. /\ \A x \in ToSet(a) : \E i \in 1 .. m : x = a[i]
        /\ \A x \in ToSet(b) : \E i \in 1 .. n : x = b[i]
    BY <1>4 DEF ToSet
  <2> QED
    BY <1>6, <1>7, <2>1
<1> QED
  BY <1>2, <1>8, <1>9

\* Two lists in order, the first older than the second, make one in order.
LEMMA AscendJoined ==
  ASSUME NEW a \in Seq(Entry), NEW b \in Seq(Entry), NEW id,
         LinesAscend(a, id), LinesAscend(b, id), Before(ToSet(a), ToSet(b), id)
  PROVE  LinesAscend(a \o b, id)
<1>1. PICK c : c = a \o b
  OBVIOUS
<1>2. PICK m \in Nat, n \in Nat : m = Len(a) /\ n = Len(b)
  OBVIOUS
<1>3. DOMAIN c = 1 .. m + n /\ DOMAIN a = 1 .. m /\ DOMAIN b = 1 .. n
      /\ \A i \in 1 .. m + n : c[i] = IF i <= m THEN a[i] ELSE b[i - m]
  BY <1>1, <1>2
<1>4. SUFFICES ASSUME NEW i \in 1 .. m + n, NEW j \in 1 .. m + n, i < j,
                      c[i].op.id = id, c[j].op.id = id
               PROVE  c[i].ts < c[j].ts
  BY <1>1, <1>3 DEF LinesAscend
<1>5. CASE j <= m
  BY <1>3, <1>4, <1>5 DEF LinesAscend
<1>6. CASE i > m
  <2>1. PICK g \in 1 .. n, h \in 1 .. n : g = i - m /\ h = j - m /\ g < h
    BY <1>4, <1>6
  <2>2. c[i] = b[g] /\ c[j] = b[h]
    BY <1>3, <1>4, <1>6, <2>1
  <2> QED
    BY <1>3, <1>4, <2>1, <2>2 DEF LinesAscend
<1>7. CASE i <= m /\ j > m
  <2>1. PICK h \in 1 .. n : h = j - m
    BY <1>7
  <2>2. c[i] = a[i] /\ c[j] = b[h] /\ i \in 1 .. m
    BY <1>3, <1>7, <2>1
  <2>3. a[i] \in ToSet(a) /\ b[h] \in ToSet(b)
    BY <1>3, <2>2 DEF ToSet
  <2> QED
    BY <1>4, <2>2, <2>3 DEF Before
<1> QED
  BY <1>5, <1>6, <1>7

\* The beginning of a list has no other lines.
LEMMA FirstLines ==
  ASSUME NEW q \in Seq(Entry), NEW n \in 0 .. Len(q)
  PROVE  /\ SubSeq(q, 1, n) \in Seq(Entry) /\ ToSet(SubSeq(q, 1, n)) \subseteq ToSet(q)
<1>1. PICK p : p = SubSeq(q, 1, n)
  OBVIOUS
<1>2. p \in Seq(Entry) /\ Len(p) = n /\ \A i \in 1 .. n : p[i] = q[i] /\ i \in DOMAIN q
  BY <1>1
<1>3. DOMAIN p = 1 .. n
  BY <1>2
<1> QED
  BY <1>1, <1>2, <1>3 DEF ToSet

\* Lines without id change nothing for it.
LEMMA AscendWithout ==
  ASSUME NEW q \in Seq(Entry), NEW id, Without(ToSet(q), id)
  PROVE  LinesAscend(q, id) /\ \A A : Before(A, ToSet(q), id)
  BY DEF LinesAscend, Without, Before, ToSet

\* An empty list.
LEMMA NoLines == ToSet(<<>>) = {} /\ \A id : LinesAscend(<<>>, id)
  BY DEF ToSet, LinesAscend

\* One line more.
LEMMA LineAppended ==
  ASSUME NEW q \in Seq(Entry), NEW e \in Entry
  PROVE  /\ Append(q, e) = q \o <<e>> /\ <<e>> \in Seq(Entry) /\ ToSet(<<e>>) = {e}
         /\ ToSet(Append(q, e)) = ToSet(q) \cup {e} /\ \A id : LinesAscend(<<e>>, id)
<1>1. Append(q, e) = q \o <<e>> /\ <<e>> \in Seq(Entry)
  OBVIOUS
<1>2. ToSet(<<e>>) = {e} /\ DOMAIN <<e>> = 1 .. 1
  BY DEF ToSet
<1>3. ToSet(q \o <<e>>) = ToSet(q) \cup ToSet(<<e>>)
  BY <1>1, LinesOf
<1> QED
  BY <1>1, <1>2, <1>3 DEF LinesAscend

\* How a step moves the entries.
Starts(s) ==
  /\ UNCHANGED <<Flushing(s), Calling(s), Buffered(s), file>> /\ Stamping(s) = {}
  /\ \E e \in Entry : e.ts = clock + 1 /\ Stamping(s)' = {e}
  /\ clock' = clock + 1
Buffers(s) ==
  /\ UNCHANGED <<Flushing(s), Calling(s), file, clock>> /\ Stamping(s)' = {}
  /\ \E e \in Entry : Stamping(s) = {e} /\ Buffered(s)' = Append(Buffered(s), e)
CallerDrains(s) ==
  /\ UNCHANGED <<Flushing(s), Stamping(s), file, clock>>
  /\ Calling(s) = <<>> /\ Calling(s)' = Buffered(s) /\ Buffered(s)' = <<>>
FlusherDrains(s) ==
  /\ UNCHANGED <<Calling(s), Stamping(s), file, clock>> /\ Calling(s) = <<>>
  /\ Flushing(s) = <<>> /\ Flushing(s)' = Buffered(s) /\ Buffered(s)' = <<>>
Writes(s) ==
  /\ UNCHANGED <<Buffered(s), Stamping(s), clock>>
  /\ \/ file' = file \o Flushing(s) /\ Flushing(s)' = <<>> /\ Calling(s)' = Calling(s)
     \/ file' = file \o Calling(s) /\ Calling(s)' = <<>> /\ Flushing(s)' = Flushing(s)

Typed(s) ==
  /\ Flushing(s) \in Seq(Entry) /\ Calling(s) \in Seq(Entry) /\ Buffered(s) \in Seq(Entry)
  /\ file \in Seq(Entry) /\ Stamping(s) \subseteq Entry /\ clock \in Nat

\* The invariants give the lists their types.
LEMMA TypedLog ==
  ASSUME NEW s, Services = {s}, WalTypeInv, Control(s)
  PROVE  Typed(s)
  BY ListTypes DEF Typed, Control, WalTypeInv, WalTypeOK

\* Entries in the log, on disk or not.
LEMMA LoggedTypes ==
  ASSUME NEW s, Typed(s)
  PROVE  /\ Logged(s) \subseteq Entry /\ Held(s) \subseteq Logged(s)
         /\ \A e \in Logged(s) : e.ts \in Nat /\ e.ts > 0 /\ e.op.id \in Ids
<1>1. \A q \in Seq(Entry) : ToSet(q) \subseteq Entry
  BY DEF ToSet
<1>2. Logged(s) \subseteq Entry /\ Held(s) \subseteq Logged(s)
  BY <1>1 DEF Typed, Logged, Held
<1>3. ASSUME NEW e \in Entry PROVE e.ts \in Nat /\ e.ts > 0 /\ e.op.id \in Ids
  <2>1. e.ts \in 1 .. MaxClock
    BY DEF Entry
  <2> QED
    BY <2>1, EntryFacts, WalAssumption
<1> QED
  BY <1>2, <1>3

\* The newest entry is stamped.
LEMMA StartsInOrder ==
  ASSUME NEW s, Typed(s), Starts(s), NEW id, InOrder(s, id)
  PROVE  /\ InOrder(s, id)'
         /\ \E e \in Entry : Stamping(s)' = {e} /\ e.ts = clock + 1 /\ Logged(s)' = Logged(s) \cup {e}
<1>1. PICK e \in Entry : e.ts = clock + 1 /\ Stamping(s)' = {e}
  BY DEF Starts
<1>2. clock \in Nat /\ clock' = clock + 1
  BY DEF Starts, Typed
<1>3. ASSUME NEW a \in Logged(s), a.op.id = id PROVE a.ts < e.ts /\ a.ts <= clock'
  <2>1. a.ts <= clock /\ a.ts \in Nat
    BY <1>3, LoggedTypes DEF InOrder
  <2> QED
    BY <1>1, <1>2, <2>1
<1>4. /\ UNCHANGED <<Flushing(s), Calling(s), Buffered(s), file>> /\ Stamping(s) = {}
      /\ Held(s)' = Held(s) \cup {e} /\ Logged(s)' = Logged(s) \cup {e}
  BY <1>1 DEF Starts, Held, Logged
<1>5. /\ Before(ToSet(file), {e}, id) /\ Before(ToSet(Flushing(s)), {e}, id)
      /\ Before(ToSet(Calling(s)), {e}, id) /\ Before(ToSet(Buffered(s)), {e}, id)
  BY <1>3 DEF Before, Logged, Held
<1>6. \A a \in Logged(s)' : a.op.id = id => a.ts <= clock'
  BY <1>1, <1>2, <1>3, <1>4
<1>7. /\ Before(ToSet(file), Held(s)', id)
      /\ Before(ToSet(Flushing(s)), ToSet(Calling(s)) \cup ToSet(Buffered(s)) \cup {e}, id)
      /\ Before(ToSet(Calling(s)), ToSet(Buffered(s)) \cup {e}, id)
  BY <1>4, <1>5 DEF InOrder, Before
<1> QED
  BY <1>1, <1>4, <1>5, <1>6, <1>7 DEF InOrder

\* The newest entry joins the buffer.
LEMMA BuffersInOrder ==
  ASSUME NEW s, Typed(s), Buffers(s), NEW id, InOrder(s, id)
  PROVE  InOrder(s, id)' /\ Logged(s)' = Logged(s)
<1>1. PICK e \in Entry : Stamping(s) = {e} /\ Buffered(s)' = Append(Buffered(s), e)
  BY DEF Buffers
<1>2. PICK q \in Seq(Entry) : q = Buffered(s)
  BY DEF Typed
<1>3. /\ Buffered(s)' = q \o <<e>> /\ ToSet(Buffered(s))' = ToSet(q) \cup {e}
      /\ <<e>> \in Seq(Entry) /\ ToSet(<<e>>) = {e} /\ LinesAscend(<<e>>, id)
  BY <1>1, <1>2, LineAppended
<1>4. /\ UNCHANGED <<Flushing(s), Calling(s), file, clock>> /\ Stamping(s)' = {}
      /\ Held(s)' = Held(s) /\ Logged(s)' = Logged(s)
  BY <1>1, <1>2, <1>3 DEF Buffers, Held, Logged
<1>5. LinesAscend(q \o <<e>>, id)
  <2>1. LinesAscend(q, id) /\ Before(ToSet(q), ToSet(<<e>>), id)
    BY <1>1, <1>2, <1>3 DEF InOrder
  <2> QED
    BY <1>3, <2>1, AscendJoined
<1>6. /\ Before(ToSet(Flushing(s)), ToSet(Calling(s)) \cup (ToSet(q) \cup {e}) \cup {}, id)
      /\ Before(ToSet(Calling(s)), (ToSet(q) \cup {e}) \cup {}, id)
      /\ Before(ToSet(q) \cup {e}, {}, id)
  BY <1>1, <1>2 DEF InOrder, Before
<1> QED
  BY <1>3, <1>4, <1>5, <1>6 DEF InOrder

\* A flush of the caller overtakes the entries of those ids that the flusher holds too.
LEMMA CallerDrainsInOrder ==
  ASSUME NEW s, Typed(s), CallerDrains(s), NEW id, InOrder(s, id),
         Without(ToSet(Buffered(s)), id) \/ Without(ToSet(Flushing(s)), id)
  PROVE  InOrder(s, id)' /\ Logged(s)' = Logged(s)
<1>1. /\ UNCHANGED <<Flushing(s), Stamping(s), file, clock>>
      /\ Calling(s) = <<>> /\ Calling(s)' = Buffered(s) /\ Buffered(s)' = <<>>
      /\ ToSet(Calling(s)) = {} /\ ToSet(Calling(s))' = ToSet(Buffered(s)) /\ ToSet(Buffered(s))' = {}
      /\ LinesAscend(Buffered(s), id)'
  BY NoLines DEF CallerDrains
<1>2. Held(s)' = Held(s) /\ Logged(s)' = Logged(s)
  BY <1>1 DEF Held, Logged
<1>3. /\ Before(ToSet(Flushing(s)), ToSet(Buffered(s)) \cup {} \cup Stamping(s), id)
      /\ Before(ToSet(Buffered(s)), {} \cup Stamping(s), id) /\ Before({}, Stamping(s), id)
  BY <1>1 DEF InOrder, Before
<1> QED
  BY <1>1, <1>2, <1>3 DEF InOrder

\* The flusher drains what is older than the entry being stamped.
LEMMA FlusherDrainsInOrder ==
  ASSUME NEW s, Typed(s), FlusherDrains(s), NEW id, InOrder(s, id)
  PROVE  InOrder(s, id)' /\ Logged(s)' = Logged(s)
<1>1. /\ UNCHANGED <<Calling(s), Stamping(s), file, clock>> /\ Calling(s) = <<>>
      /\ Flushing(s) = <<>> /\ Flushing(s)' = Buffered(s) /\ Buffered(s)' = <<>>
      /\ ToSet(Calling(s)) = {} /\ ToSet(Flushing(s)) = {} /\ ToSet(Flushing(s))' = ToSet(Buffered(s))
      /\ ToSet(Buffered(s))' = {} /\ LinesAscend(Buffered(s), id)' /\ LinesAscend(Flushing(s), id)'
  BY NoLines DEF FlusherDrains, InOrder
<1>2. Held(s)' = Held(s) /\ Logged(s)' = Logged(s)
  BY <1>1 DEF Held, Logged
<1>3. /\ Before(ToSet(Buffered(s)), {} \cup {} \cup Stamping(s), id)
      /\ Before({}, Stamping(s), id) /\ Without({}, id)
  BY <1>1 DEF InOrder, Before, Without
<1> QED
  BY <1>1, <1>2, <1>3 DEF InOrder

\* A batch reaches the file before all that is younger.
LEMMA WritesInOrder ==
  ASSUME NEW s, Typed(s), Writes(s), NEW id, InOrder(s, id)
  PROVE  InOrder(s, id)' /\ Logged(s)' = Logged(s)
<1>1. UNCHANGED <<Buffered(s), Stamping(s), clock>>
  BY DEF Writes
<1>2. ASSUME NEW q \in Seq(Entry), file' = file \o q, ToSet(q) \subseteq Held(s), LinesAscend(q, id)
      PROVE  /\ ToSet(file)' = ToSet(file) \cup ToSet(q) /\ LinesAscend(file, id)'
  <2>1. file \in Seq(Entry)
    BY DEF Typed
  <2>2. Before(ToSet(file), ToSet(q), id) /\ LinesAscend(file, id)
    BY <1>2 DEF InOrder, Before
  <2>3. ToSet(file \o q) = ToSet(file) \cup ToSet(q) /\ LinesAscend(file \o q, id)
    BY <1>2, <2>1, <2>2, LinesOf, AscendJoined
  <2> QED
    BY <1>2, <2>3
<1>3. CASE file' = file \o Flushing(s) /\ Flushing(s)' = <<>> /\ Calling(s)' = Calling(s)
  <2>1. /\ ToSet(file)' = ToSet(file) \cup ToSet(Flushing(s)) /\ LinesAscend(file, id)'
    BY <1>2, <1>3 DEF Typed, Held, InOrder
  <2>2. ToSet(Flushing(s))' = {} /\ LinesAscend(Flushing(s), id)'
    BY <1>3, NoLines
  <2>3. Held(s)' = ToSet(Calling(s)) \cup ToSet(Buffered(s)) \cup Stamping(s) /\ Logged(s)' = Logged(s)
    BY <1>1, <1>3, <2>1, <2>2 DEF Held, Logged
  <2>4. /\ Before(ToSet(file) \cup ToSet(Flushing(s)), Held(s)', id)
        /\ Before({}, ToSet(Calling(s)) \cup ToSet(Buffered(s)) \cup Stamping(s), id) /\ Without({}, id)
    BY <2>3 DEF InOrder, Before, Without, Held
  <2> QED
    BY <1>1, <1>3, <2>1, <2>2, <2>3, <2>4 DEF InOrder
<1>4. CASE file' = file \o Calling(s) /\ Calling(s)' = <<>> /\ Flushing(s)' = Flushing(s)
  <2>1. /\ ToSet(file)' = ToSet(file) \cup ToSet(Calling(s)) /\ LinesAscend(file, id)'
    BY <1>2, <1>4 DEF Typed, Held, InOrder
  <2>2. ToSet(Calling(s))' = {} /\ LinesAscend(Calling(s), id)'
    BY <1>4, NoLines
  <2>3. Held(s)' = ToSet(Flushing(s)) \cup ToSet(Buffered(s)) \cup Stamping(s) /\ Logged(s)' = Logged(s)
    BY <1>1, <1>4, <2>1, <2>2 DEF Held, Logged
  <2>4. Before(ToSet(Calling(s)), ToSet(Flushing(s)) \cup ToSet(Buffered(s)) \cup Stamping(s), id)
    BY DEF InOrder, Before, Without
  <2>5. /\ Before(ToSet(file) \cup ToSet(Calling(s)), Held(s)', id)
        /\ Before(ToSet(Flushing(s)), {} \cup ToSet(Buffered(s)) \cup Stamping(s), id)
        /\ Before({}, ToSet(Buffered(s)) \cup Stamping(s), id) /\ Without({}, id)
    BY <2>3, <2>4 DEF InOrder, Before, Without, Held
  <2> QED
    BY <1>1, <1>4, <2>1, <2>2, <2>3, <2>5 DEF InOrder
<1> QED
  BY <1>3, <1>4 DEF Writes

\* Nothing moves.
LEMMA KeptInOrder ==
  ASSUME NEW s, Typed(s), Kept(s), clock' \in {clock, clock + 1}, NEW id, InOrder(s, id)
  PROVE  InOrder(s, id)' /\ Logged(s)' = Logged(s)
<1>1. Held(s)' = Held(s) /\ Logged(s)' = Logged(s)
  BY DEF Kept, Held, Logged
<1>2. ASSUME NEW e \in Logged(s), e.op.id = id PROVE e.ts <= clock'
  <2>1. e.ts <= clock /\ e.ts \in Nat /\ clock \in Nat
    BY <1>2, LoggedTypes DEF InOrder, Typed
  <2> QED
    BY <2>1
<1> QED
  BY <1>1, <1>2 DEF Kept, InOrder

\* A checkpoint leaves what is in memory.
LEMMA EmptiedInOrder ==
  ASSUME NEW s, UNCHANGED <<Flushing(s), Calling(s), Buffered(s), Stamping(s), clock>>, file' = <<>>,
         NEW id, InOrder(s, id)
  PROVE  InOrder(s, id)' /\ Logged(s)' = Held(s)
<1>1. Held(s)' = Held(s) /\ ToSet(file)' = {} /\ LinesAscend(file, id)'
  BY NoLines DEF Held
<1>2. Logged(s)' = Held(s) /\ Held(s) \subseteq Logged(s)
  BY <1>1 DEF Logged
<1>3. Before({}, Held(s), id)
  BY DEF Before
<1> QED
  BY <1>1, <1>2, <1>3 DEF InOrder

\* For an id that has nothing in memory a crash changes nothing.
LEMMA CrashInOrder ==
  ASSUME NEW s, Typed(s), NEW id, InOrder(s, id), Without(Held(s), id), clock' = clock,
         Flushing(s)' = <<>>, Calling(s)' = <<>>, Buffered(s)' = <<>>, Stamping(s)' = {},
         NEW q \in {Flushing(s), Calling(s)}, NEW n \in 0 .. Len(q), file' = file \o SubSeq(q, 1, n)
  PROVE  /\ InOrder(s, id)'
         /\ \A e : e.op.id = id => (e \in Logged(s)' <=> e \in Logged(s))
<1>1. PICK p \in Seq(Entry) : p = SubSeq(q, 1, n) /\ ToSet(p) \subseteq Held(s)
  <2>1. q \in Seq(Entry) /\ ToSet(q) \subseteq Held(s)
    BY DEF Typed, Held
  <2> QED
    BY <2>1, FirstLines
<1>2. Without(ToSet(p), id)
  BY <1>1 DEF Without
<1>3. LinesAscend(p, id) /\ Before(ToSet(file), ToSet(p), id)
  BY <1>2, AscendWithout
<1>4. file \in Seq(Entry) /\ LinesAscend(file, id)
  BY DEF Typed, InOrder
<1>5. ToSet(file)' = ToSet(file) \cup ToSet(p) /\ LinesAscend(file, id)'
  <2>1. ToSet(file \o p) = ToSet(file) \cup ToSet(p)
    BY <1>4, LinesOf
  <2>2. LinesAscend(file \o p, id)
    BY <1>3, <1>4, AscendJoined
  <2>3. file' = file \o p
    BY <1>1
  <2> QED
    BY <2>1, <2>2, <2>3
<1>6. /\ ToSet(Flushing(s))' = {} /\ ToSet(Calling(s))' = {} /\ ToSet(Buffered(s))' = {}
      /\ LinesAscend(Flushing(s), id)' /\ LinesAscend(Calling(s), id)' /\ LinesAscend(Buffered(s), id)'
  BY NoLines
<1>7. Held(s)' = {} /\ Logged(s)' = ToSet(file) \cup ToSet(p)
  BY <1>5, <1>6 DEF Held, Logged
<1>8. \A e : e.op.id = id => (e \in Logged(s)' <=> e \in Logged(s))
  BY <1>2, <1>7 DEF Without, Logged
<1>9. \A A : Before(A, {}, id) /\ Before({}, {}, id) /\ Without({}, id)
  BY DEF Before, Without
<1>10. \A e \in Logged(s)' : e.op.id = id => e.ts <= clock'
  BY <1>8 DEF InOrder
<1>11. Before(ToSet(file)', Held(s)', id) /\ Before({}, {} \cup {} \cup {}, id) /\ Before({}, {} \cup {}, id)
  BY <1>7 DEF Before
<1> QED
  BY <1>5, <1>6, <1>8, <1>9, <1>10, <1>11 DEF InOrder

-----------------------------------------------------------------------------
(***************************************************************************)
(* What table, log, file and index have of one id.  The newest insert or   *)
(* delete in the log is what the table has; what the log lacks, the file   *)
(* of the index has.                                                       *)
(***************************************************************************)
\* a and v are both there or both absent, and equal while the id has not diverged.
Agree(a, v, same) == (a = Absent <=> v = Absent) /\ (same => a = v)

Of(s, id) == {e \in Logged(s) : e.op.id = id}

Latest(X, v, same) ==
  \A e \in X : Decides(e.op) /\ (\A f \in X : Decides(f.op) => f.ts <= e.ts)
                 => Agree(Outcome(e.op), v, same)
\* Metadata is changed only before the last insert or delete.
Covered(X) == \A u \in X : ~Decides(u.op) => \E f \in X : Decides(f.op) /\ u.ts < f.ts
Obsolete(X) == \A e \in X : Decides(e.op) => e.ts <= cutoff

\* The row is committed, and the operation is not yet stamped, or not yet applied.
Unstamped(s, id) == pc[s] \in {"write", "batch"} /\ op[s].id = id /\ Decides(op[s])
Unapplied(s, id) ==
  \/ pc[s] \in {"write", "batch"} /\ op[s].id = id /\ op[s].kind = "INSERT"
  \/ pc[s] \in Opening /\ op[s].id = id /\ op[s].kind = "DELETE"

\* What a request has committed is what it will log.
Committed(s) ==
  pc[s] \in Opening =>
    IF Decides(op[s]) THEN Agree(Outcome(op[s]), db[op[s].id], op[s].id \notin diverged)
    ELSE db[op[s].id] # Absent /\ op[s].id \in diverged

LogVouches(s, id) ==
  ~Unstamped(s, id) => /\ Latest(Of(s, id), db[id], id \notin diverged)
                       /\ id \notin diverged => Covered(Of(s, id))
FileHasRest(s, k, id) ==
  ~Unstamped(s, id) /\ Loaded(snapshot[k]) /\ Obsolete(Of(s, id))
    => Agree(snapshot[k][id], db[id], id \notin diverged)
JustSaved(s, k, id) ==
  pc[s] \in {"checkpoint", "checkpointing"} => Agree(snapshot[k][id], db[id], id \notin diverged)
IndexAgrees(s, k, id) ==
  ~Unapplied(s, id) /\ Loaded(index[s][k]) => Agree(index[s][k][id], db[id], id \notin diverged)

Values(s, k, id) ==
  LogVouches(s, id) /\ FileHasRest(s, k, id) /\ JustSaved(s, k, id) /\ IndexAgrees(s, k, id)

\* A step that has nothing to do with the id.
LEMMA RowStays ==
  ASSUME NEW s, NEW k, NEW id, Values(s, k, id),
         Of(s, id)' = Of(s, id), db'[id] = db[id], id \in diverged' <=> id \in diverged,
         Unstamped(s, id) => Unstamped(s, id)', Unapplied(s, id) => Unapplied(s, id)',
         snapshot' = snapshot, cutoff' = cutoff,
         pc'[s] \in {"checkpoint", "checkpointing"} => pc[s] \in {"checkpoint", "checkpointing"},
         Loaded(index'[s][k]) => Loaded(index[s][k]) /\ index'[s][k][id] = index[s][k][id]
  PROVE  Values(s, k, id)'
<1>1. PICK X, Y : X = Of(s, id) /\ Y = Of(s, id)' /\ X = Y
  OBVIOUS
<1>2. PICK same, same2 : same = (id \notin diverged) /\ same2 = (id \notin diverged') /\ same = same2
  OBVIOUS
<1>3. LogVouches(s, id)'
  <2>1. ~Unstamped(s, id) => Latest(X, db[id], same) /\ (same => Covered(X))
    BY <1>1, <1>2 DEF Values, LogVouches
  <2> QED
    BY <1>1, <1>2, <2>1 DEF LogVouches
<1>4. Obsolete(X)' <=> Obsolete(X)
  BY DEF Obsolete
<1> QED
  BY <1>1, <1>2, <1>3, <1>4 DEF Values, FileHasRest, JustSaved, IndexAgrees

-----------------------------------------------------------------------------
(***************************************************************************)
(* Requests that write: commit, then stamp and index, or stamp and delete. *)
(***************************************************************************)
\* Without a line moved, the log has the same entries of an id.
LEMMA OfStays ==
  ASSUME NEW s, UNCHANGED <<walVars>>
  PROVE  \A id : Of(s, id)' = Of(s, id)
  BY DEF Of, Logged, Held, Flushing, Calling, Buffered, Stamping, walVars, walVolatile, walDisk

\* What the kinds of operations have.
LEMMA OpKinds ==
  ASSUME NEW o \in Operations
  PROVE  /\ o.id \in Ids /\ o.kind \in {"INSERT", "DELETE", "UPDATE_META"}
         /\ Decides(o) <=> o.kind # "UPDATE_META"
         /\ o.kind # "DELETE" => o.val \in Vals /\ Outcome(o) = o.val
         /\ o.kind = "DELETE" => Outcome(o) = Absent
  BY DEF Operations, Decides, Outcome

\* A request to insert or delete id leaves it to the entry it will log.
LEMMA BeginDecided ==
  ASSUME NEW s, Services = {s}, NEW k, OpReady, NEW o \in Operations, Decides(o),
         NEW next \in {"write", "batch"}, Begin(s, o, next), pc[s] = "idle",
         NEW v, db'[o.id] = v, Agree(Outcome(o), v, o.id \notin diverged'),
         \A i \in Ids \ {o.id} : db'[i] = db[i] /\ (i \in diverged' <=> i \in diverged)
  PROVE  /\ Committed(s)'
         /\ \A id \in Ids : Values(s, k, id) => Values(s, k, id)'
<1>1. /\ pc'[s] = next /\ op'[s] = o /\ UNCHANGED <<walVars, index, snapshot>>
  BY DEF Begin, OpReady
<1>2. cutoff' = cutoff
  BY <1>1 DEF walVars, walDisk
<1>3. Committed(s)'
  BY <1>1 DEF Committed
<1>4. ASSUME NEW id \in Ids, Values(s, k, id), id = o.id PROVE Values(s, k, id)'
  <2>1. Unstamped(s, id)' /\ Unapplied(s, id)'
    BY <1>1, <1>4, OpKinds DEF Unstamped, Unapplied, Opening
  <2> QED
    BY <1>1, <2>1 DEF Values, LogVouches, FileHasRest, JustSaved, IndexAgrees
<1>5. ASSUME NEW id \in Ids, Values(s, k, id), id # o.id PROVE Values(s, k, id)'
  <2>1. ~Unstamped(s, id) /\ ~Unapplied(s, id)
    BY DEF Unstamped, Unapplied, Opening
  <2>2. Of(s, id)' = Of(s, id)
    BY <1>1, OfStays
  <2> QED
    BY <1>1, <1>2, <1>5, <2>1, <2>2, RowStays
<1> QED
  BY <1>3, <1>4, <1>5

\* A change of metadata leaves the index and the file of the index with an older value.
LEMMA BeginMetadata ==
  ASSUME NEW s, Services = {s}, NEW k, OpReady, NEW o \in Operations, ~Decides(o),
         NEW next \in {"write", "batch"}, Begin(s, o, next), pc[s] = "idle",
         db[o.id] # Absent, db'[o.id] # Absent, o.id \in diverged',
         \A i \in Ids \ {o.id} : db'[i] = db[i] /\ (i \in diverged' <=> i \in diverged)
  PROVE  /\ Committed(s)'
         /\ \A id \in Ids : Values(s, k, id) => Values(s, k, id)'
<1>1. /\ pc'[s] = next /\ op'[s] = o /\ UNCHANGED <<walVars, index, snapshot>>
  BY DEF Begin, OpReady
<1>2. cutoff' = cutoff
  BY <1>1 DEF walVars, walDisk
<1>3. Committed(s)'
  BY <1>1 DEF Committed
<1>n. \A id \in Ids : ~Unstamped(s, id) /\ ~Unapplied(s, id)
  BY DEF Unstamped, Unapplied, Opening
<1>4. ASSUME NEW id \in Ids, Values(s, k, id), id = o.id PROVE Values(s, k, id)'
  <2>1. ASSUME NEW a, NEW same, Agree(a, db[id], same) PROVE Agree(a, db'[id], FALSE)
    BY <1>4, <2>1 DEF Agree
  <2>2. PICK X : X = Of(s, id) /\ X = Of(s, id)'
    BY <1>1, OfStays
  <2>3. (id \notin diverged') = FALSE
    BY <1>4
  <2>4. LogVouches(s, id)'
    <3>1. Latest(X, db[id], id \notin diverged)
      BY <1>4, <1>n, <2>2 DEF Values, LogVouches
    <3>2. Latest(X, db'[id], FALSE)
      BY <2>1, <3>1 DEF Latest
    <3>3. Latest(Of(s, id), db[id], id \notin diverged)'
      BY <2>2, <2>3, <3>2
    <3> QED
      BY <2>3, <3>3 DEF LogVouches
  <2>5. FileHasRest(s, k, id)'
    <3>1. Obsolete(Of(s, id))' => Obsolete(Of(s, id))
      BY <1>2, <2>2 DEF Obsolete
    <3> QED
      BY <1>1, <1>4, <1>n, <2>1, <2>3, <3>1 DEF Values, FileHasRest
  <2>6. JustSaved(s, k, id)' /\ IndexAgrees(s, k, id)'
    BY <1>1, <1>4, <1>n, <2>1, <2>3 DEF Values, JustSaved, IndexAgrees
  <2> QED
    BY <2>4, <2>5, <2>6 DEF Values
<1>5. ASSUME NEW id \in Ids, Values(s, k, id), id # o.id PROVE Values(s, k, id)'
  <2>2. Of(s, id)' = Of(s, id)
    BY <1>1, OfStays
  <2> QED
    BY <1>1, <1>2, <1>5, <1>n, <2>2, RowStays
<1> QED
  BY <1>3, <1>4, <1>5

\* Every request that begins to write commits what it will log.
LEMMA WritingValues ==
  ASSUME NEW s, Services = {s}, NEW k, RecInv, NEW i \in Ids, NEW v \in Vals,
         \/ Create(s, i, v) \/ Recreate(s, i, v) \/ BatchCreate(s, i, v) \/ UpdateMetadata(s, i, v)
  PROVE  /\ Committed(s)'
         /\ \A id \in Ids : Values(s, k, id) => Values(s, k, id)'
<1>1. PICK ins : ins = [kind |-> "INSERT", id |-> i, val |-> v]
  OBVIOUS
<1>2. PICK upd : upd = [kind |-> "UPDATE_META", id |-> i, val |-> v]
  OBVIOUS
<1>3. /\ ins \in Operations /\ Decides(ins) /\ Outcome(ins) = v /\ ins.id = i
      /\ upd \in Operations /\ ~Decides(upd) /\ upd.id = i
  BY <1>1, <1>2, OperationShapes DEF Decides, Outcome
<1>4. OpReady /\ RecTypes /\ v # Absent
  BY RecoveryAssumption DEF RecInv
<1>5. CASE Create(s, i, v) \/ BatchCreate(s, i, v)
  <2>1. /\ pc[s] = "idle" /\ diverged' = diverged /\ Commit(i, v)
        /\ \E next \in {"write", "batch"} : Begin(s, ins, next)
    BY <1>1, <1>5 DEF Create, BatchCreate, Arrives
  <2>2. db'[i] = v /\ \A j \in Ids \ {i} : db'[j] = db[j]
    BY <1>4, <2>1, CommitType
  <2>3. Agree(Outcome(ins), v, ins.id \notin diverged')
    BY <1>3 DEF Agree
  <2> QED
    BY <1>3, <1>4, <2>1, <2>2, <2>3, BeginDecided
<1>6. CASE Recreate(s, i, v)
  <2>1. /\ pc[s] = "idle" /\ diverged' = diverged \cup {i} /\ db' = db /\ db[i] # Absent
        /\ Begin(s, ins, "write")
    BY <1>1, <1>6 DEF Recreate, Arrives
  <2>2. Agree(Outcome(ins), db[i], ins.id \notin diverged')
    BY <1>3, <1>4, <2>1 DEF Agree
  <2>3. \A j \in Ids \ {i} : j \in diverged' <=> j \in diverged
    BY <2>1
  <2> QED
    BY <1>3, <1>4, <2>1, <2>2, <2>3, BeginDecided
<1>7. CASE UpdateMetadata(s, i, v)
  <2>1. /\ pc[s] = "idle" /\ diverged' = diverged \cup {i} /\ Commit(i, v) /\ db[i] # Absent
        /\ Begin(s, upd, "write")
    BY <1>2, <1>7 DEF UpdateMetadata, Arrives
  <2>2. db'[i] = v /\ \A j \in Ids \ {i} : db'[j] = db[j]
    BY <1>4, <2>1, CommitType
  <2>3. \A j \in Ids \ {i} : j \in diverged' <=> j \in diverged
    BY <2>1
  <2>4. i \in diverged'
    BY <2>1
  <2> QED
    BY <1>3, <1>4, <2>1, <2>2, <2>3, <2>4, BeginMetadata
<1> QED
  BY <1>5, <1>6, <1>7

\* A delete commits that there is no row.
LEMMA DeleteValues ==
  ASSUME NEW s, Services = {s}, NEW k, RecInv, NEW i \in Ids, Delete(s, i)
  PROVE  /\ Committed(s)'
         /\ \A id \in Ids : Values(s, k, id) => Values(s, k, id)'
<1>1. PICK del : del = [kind |-> "DELETE", id |-> i]
  OBVIOUS
<1>2. del \in Operations /\ Decides(del) /\ Outcome(del) = Absent /\ del.id = i
  BY <1>1, DeleteShape DEF Decides, Outcome
<1>3. OpReady /\ RecTypes
  BY DEF RecInv
<1>4. /\ pc[s] = "idle" /\ diverged' = diverged \ {i} /\ Commit(i, Absent) /\ Begin(s, del, "write")
  BY <1>1 DEF Delete, Arrives
<1>5. db'[i] = Absent /\ \A j \in Ids \ {i} : db'[j] = db[j]
  BY <1>3, <1>4, CommitType
<1>6. \A j \in Ids \ {i} : j \in diverged' <=> j \in diverged
  BY <1>4
<1>7. Agree(Outcome(del), Absent, del.id \notin diverged')
  BY <1>2 DEF Agree
<1> QED
  BY <1>2, <1>3, <1>4, <1>5, <1>6, <1>7, BeginDecided

\* A change that is not logged spoils no other id.
LEMMA CommitOnlyValues ==
  ASSUME NEW s, Services = {s}, NEW k, RecInv, NEW i \in Ids, NEW v \in Vals, CommitOnly(i, v), pc[s] = "idle"
  PROVE  /\ Committed(s)' /\ i \in untracked'
         /\ \A id \in Ids \ {i} : Values(s, k, id) => Values(s, k, id)'
<1>1. /\ UNCHANGED <<walVars, snapshot, index, pc, op, diverged>> /\ i \in untracked'
      /\ \A id \in Ids \ {i} : db'[id] = db[id]
  BY CommitType DEF CommitOnly, service, RecInv
<1>2. cutoff' = cutoff
  BY <1>1 DEF walVars, walDisk
<1>3. ASSUME NEW id \in Ids \ {i}, Values(s, k, id) PROVE Values(s, k, id)'
  <2>1. ~Unstamped(s, id) /\ ~Unapplied(s, id)
    BY DEF Unstamped, Unapplied, Opening
  <2>2. Of(s, id)' = Of(s, id)
    BY <1>1, OfStays
  <2> QED
    BY <1>1, <1>2, <1>3, <2>1, <2>2, RowStays
<1> QED
  BY <1>1, <1>3 DEF Committed, Opening

\* Neither does a request that fails.
LEMMA RequestFailsValues ==
  ASSUME NEW s, Services = {s}, NEW k \in Kinds, RecInv, RequestFails(s)
  PROVE  /\ Committed(s)' /\ op[s].id \in untracked' /\ untracked \subseteq untracked'
         /\ \A id \in Ids \ {op[s].id} : Values(s, k, id) => Values(s, k, id)'
<1>1. /\ UNCHANGED <<walVars, db, snapshot, diverged>> /\ op[s].id \in untracked'
      /\ untracked \subseteq untracked' /\ pc[s] \in Opening /\ s \in Services
      /\ pc' = [pc EXCEPT ![s] = "idle"]
  BY DEF RequestFails, Opening
<1>2. cutoff' = cutoff
  BY <1>1 DEF walVars, walDisk
<1>3. pc'[s] = "idle" /\ op[s] \in Operations
  BY <1>1 DEF RecInv, OpReady
<1>4. ASSUME NEW id \in Ids \ {op[s].id}, Values(s, k, id) PROVE Values(s, k, id)'
  <2>1. ~Unstamped(s, id) /\ ~Unapplied(s, id)
    BY DEF Unstamped, Unapplied
  <2>2. Of(s, id)' = Of(s, id)
    BY <1>1, OfStays
  <2>3. Loaded(index'[s][k]) => Loaded(index[s][k]) /\ index'[s][k][id] = index[s][k][id]
    <3>1. index'[s][k] \in {index[s][k], ApplyToLoaded(s, op[s])[s][k]}
      BY <1>1, FailingIndex
    <3>2. ApplyToLoaded(s, op[s])[s][k] = IF Loaded(index[s][k]) THEN Apply(index[s][k], op[s])
                                          ELSE index[s][k]
      BY <1>1, <1>3, ApplyToLoadedType DEF RecInv
    <3>3. CASE Loaded(index[s][k])
      <4>1. PICK c \in Contents : c = index[s][k]
        BY <1>1, <3>3, FileFacts DEF RecInv, RecTypes
      <4>2. Apply(c, op[s])[id] = c[id]
        BY <1>3, ApplyIs
      <4> QED
        BY <3>1, <3>2, <3>3, <4>1, <4>2
    <3>4. CASE ~Loaded(index[s][k])
      BY <3>1, <3>2, <3>4
    <3> QED
      BY <3>3, <3>4
  <2> QED
    BY <1>1, <1>2, <1>3, <1>4, <2>1, <2>2, <2>3, RowStays
<1> QED
  BY <1>1, <1>3, <1>4 DEF Committed, Opening

\* An entry that is newer than all others.
LEMMA NewestDecides ==
  ASSUME NEW X, NEW e, NEW v, NEW same, Decides(e.op), e.ts \in Nat,
         \A f \in X : f.ts \in Nat /\ f.ts < e.ts, Agree(Outcome(e.op), v, same)
  PROVE  Latest(X \cup {e}, v, same) /\ Covered(X \cup {e})
<1>1. ASSUME NEW d \in X \cup {e}, Decides(d.op), \A f \in X \cup {e} : Decides(f.op) => f.ts <= d.ts
      PROVE  d = e
  <2>1. e.ts <= d.ts
    BY <1>1
  <2> QED
    BY <1>1, <2>1
<1>2. Latest(X \cup {e}, v, same)
  BY <1>1 DEF Latest
<1>3. Covered(X \cup {e})
  BY DEF Covered
<1> QED
  BY <1>2, <1>3

\* A stamped insert is in the index and is the newest entry.
LEMMA LogStartValues ==
  ASSUME NEW s, Services = {s}, NEW k, Kinds = {k}, WalTypeInv, RecInv, Control(s), Committed(s),
         LogStart(s), NEW id \in Ids, InOrder(s, id), Values(s, k, id)
  PROVE  InOrder(s, id)' /\ Values(s, k, id)' /\ Committed(s)'
<1>1. PICK o \in Operations : o = op[s]
  BY DEF RecInv, OpReady, LogStart, Opening
<1>2. /\ pc[s] \in {"write", "batch"} /\ pc'[s] \in {"log", "logBatch"} /\ op' = op
      /\ UNCHANGED <<db, snapshot, diverged>>
      /\ index' = IF o.kind = "INSERT" THEN ApplyToLoaded(s, o) ELSE index
  BY <1>1 DEF LogStart, excuses, RecInv, OpReady
<1>3. Committed(s)'
  BY <1>2 DEF Committed, Opening
<1>4. PICK e \in Entry : /\ e.ts = clock + 1 /\ e.op = o /\ Stamping(s)' = {e}
                         /\ UNCHANGED <<Flushing(s), Calling(s), Buffered(s), file, cutoff>>
                         /\ clock' = clock + 1 /\ Stamping(s) = {}
  BY <1>1, LogStartMoves DEF RecInv
<1>5. Typed(s) /\ Starts(s)
  BY <1>4, TypedLog DEF Starts
<1>6. InOrder(s, id)' /\ Logged(s)' = Logged(s) \cup {e}
  <2>1. PICK d \in Entry : Stamping(s)' = {d} /\ Logged(s)' = Logged(s) \cup {d}
    BY <1>5, StartsInOrder
  <2>2. d = e
    BY <1>4, <2>1
  <2> QED
    BY <1>5, <2>1, <2>2, StartsInOrder
<1>7. clock \in Nat /\ cutoff \in Nat /\ cutoff <= clock
  BY DEF WalTypeInv, WalTypeOK
<1>8. PICK X : X = Of(s, id)
  OBVIOUS
<1>9. \A f \in X : f.ts \in Nat /\ f.ts < e.ts
  <2> SUFFICES ASSUME NEW f \in X PROVE f.ts \in Nat /\ f.ts < e.ts
    OBVIOUS
  <2>1. f \in Logged(s) /\ f.op.id = id
    BY <1>8 DEF Of
  <2>2. f.ts \in Nat /\ f.ts <= clock
    BY <1>5, <2>1, LoggedTypes DEF InOrder
  <2> QED
    BY <1>4, <1>7, <2>2
<1>10. \A m \in Kinds : Loaded(index'[s][m]) =>
          /\ Loaded(index[s][m])
          /\ index'[s][m][id] = IF o.kind = "INSERT" /\ o.id = id THEN o.val ELSE index[s][m][id]
  <2> SUFFICES ASSUME NEW m \in Kinds, Loaded(index'[s][m])
               PROVE  /\ Loaded(index[s][m])
                      /\ index'[s][m][id] = IF o.kind = "INSERT" /\ o.id = id THEN o.val ELSE index[s][m][id]
    OBVIOUS
  <2>1. CASE o.kind = "INSERT"
    <3>1. index'[s][m] = IF Loaded(index[s][m]) THEN Apply(index[s][m], o) ELSE index[s][m]
      BY <1>2, <2>1, ApplyToLoadedType DEF RecInv
    <3>2. Loaded(index[s][m])
      BY <3>1
    <3>3. PICK c \in Contents : c = index[s][m]
      BY <3>2, FileFacts DEF RecInv, RecTypes
    <3>4. Apply(c, o)[id] = IF id = o.id THEN Changed(c[id], o) ELSE c[id]
      BY ApplyIs
    <3> QED
      BY <2>1, <3>1, <3>2, <3>3, <3>4 DEF Changed
  <2>2. CASE o.kind # "INSERT"
    BY <1>2, <2>2
  <2> QED
    BY <2>1, <2>2
<1>11. CASE o.id # id
  <2>1. Of(s, id)' = Of(s, id)
    BY <1>4, <1>6, <1>11 DEF Of
  <2>2. ~Unstamped(s, id) /\ ~Unapplied(s, id)
    BY <1>1, <1>11 DEF Unstamped, Unapplied
  <2>3. /\ db'[id] = db[id] /\ (id \in diverged' <=> id \in diverged) /\ snapshot' = snapshot
        /\ cutoff' = cutoff /\ pc'[s] \notin {"checkpoint", "checkpointing"}
        /\ Loaded(index'[s][k]) => Loaded(index[s][k]) /\ index'[s][k][id] = index[s][k][id]
    BY <1>2, <1>4, <1>10, <1>11
  <2>4. Values(s, k, id)'
    BY <2>1, <2>2, <2>3, RowStays
  <2> QED
    BY <1>3, <1>6, <2>4
<1>12. CASE o.id = id
  <2>1. Of(s, id)' = X \cup {e}
    BY <1>4, <1>6, <1>8, <1>12 DEF Of
  <2>2. JustSaved(s, k, id)'
    BY <1>2 DEF JustSaved
  <2>3. CASE Decides(o)
    <3>1. Agree(Outcome(o), db[id], id \notin diverged)
      BY <1>1, <1>2, <1>12, <2>3 DEF Committed, Opening
    <3>2. Latest(X \cup {e}, db[id], id \notin diverged) /\ Covered(X \cup {e})
      <4>1. Decides(e.op) /\ Agree(Outcome(e.op), db[id], id \notin diverged)
        BY <1>4, <2>3, <3>1
      <4>2. e.ts \in Nat
        BY <1>4, <1>7
      <4> QED
        BY <1>9, <4>1, <4>2, NewestDecides
    <3>3. LogVouches(s, id)'
      <4>1. Latest(Of(s, id), db[id], id \notin diverged)' /\ Covered(Of(s, id))'
        BY <1>2, <2>1, <3>2
      <4> QED
        BY <4>1 DEF LogVouches
    <3>4. ~Obsolete(Of(s, id))'
      <4>1. e \in Of(s, id)' /\ Decides(e.op) /\ ~(e.ts <= cutoff')
        BY <1>4, <1>7, <2>1, <2>3
      <4> QED
        BY <4>1 DEF Obsolete
    <3>5. FileHasRest(s, k, id)'
      BY <3>4 DEF FileHasRest
    <3>6. IndexAgrees(s, k, id)'
      <4>1. CASE o.kind = "DELETE"
        <5>1. Unapplied(s, id)'
          BY <1>1, <1>2, <1>12, <4>1 DEF Unapplied, Opening
        <5> QED
          BY <5>1 DEF IndexAgrees
      <4>2. CASE o.kind = "INSERT"
        <5>1. Outcome(o) = o.val
          BY <4>2, OpKinds
        <5> QED
          BY <1>2, <1>10, <1>12, <3>1, <4>2, <5>1 DEF IndexAgrees
      <4> QED
        BY <2>3, <4>1, <4>2, OpKinds
    <3> QED
      BY <1>3, <1>6, <2>2, <3>3, <3>5, <3>6 DEF Values
  <2>4. CASE ~Decides(o)
    <3>1. ~Unstamped(s, id) /\ ~Unapplied(s, id) /\ id \in diverged
      BY <1>1, <1>2, <1>12, <2>4, OpKinds DEF Unstamped, Unapplied, Committed, Opening
    <3>2. Latest(X, db[id], FALSE)
      BY <1>8, <3>1 DEF Values, LogVouches
    <3>3. Latest(X \cup {e}, db[id], FALSE)
      BY <1>4, <2>4, <3>2 DEF Latest
    <3>4. LogVouches(s, id)'
      <4>1. Latest(Of(s, id), db[id], id \notin diverged)'
        BY <1>2, <2>1, <3>1, <3>3
      <4> QED
        BY <1>2, <3>1, <4>1 DEF LogVouches
    <3>5. Obsolete(Of(s, id))' => Obsolete(X)
      BY <1>4, <2>1 DEF Obsolete
    <3>6. FileHasRest(s, k, id)'
      BY <1>2, <1>8, <3>1, <3>5 DEF Values, FileHasRest
    <3>7. IndexAgrees(s, k, id)'
      <4>1. o.kind # "INSERT"
        BY <2>4, OpKinds
      <4> QED
        BY <1>2, <1>10, <3>1, <4>1 DEF Values, IndexAgrees
    <3> QED
      BY <1>3, <1>6, <2>2, <3>4, <3>6, <3>7 DEF Values
  <2> QED
    BY <2>3, <2>4
<1> QED
  BY <1>11, <1>12

\* A buffered delete is out of the index.
LEMMA LogEndValues ==
  ASSUME NEW s, Services = {s}, NEW k, Kinds = {k}, WalTypeInv, RecInv, Control(s), Committed(s),
         LogEnd(s), NEW id \in Ids, InOrder(s, id), Values(s, k, id)
  PROVE  InOrder(s, id)' /\ Values(s, k, id)' /\ Committed(s)'
<1>1. PICK o \in Operations : o = op[s]
  BY DEF RecInv, OpReady, LogEnd, Opening
<1>2. /\ pc[s] \in {"log", "logBatch"} /\ pc'[s] \in {"idle", "flush"}
      /\ UNCHANGED <<db, snapshot, diverged>>
      /\ index' = IF o.kind = "DELETE" THEN ApplyToLoaded(s, o) ELSE index
  BY <1>1 DEF LogEnd, excuses, RecInv, OpReady
<1>3. Committed(s)'
  BY <1>2 DEF Committed, Opening
<1>4. /\ UNCHANGED <<Flushing(s), Calling(s), file, clock, cutoff>> /\ Stamping(s)' = {}
      /\ \E e \in Entry : Stamping(s) = {e} /\ Buffered(s)' = Append(Buffered(s), e)
  BY LogEndMoves DEF RecInv
<1>5. Typed(s) /\ Buffers(s)
  BY <1>4, TypedLog DEF Buffers
<1>6. InOrder(s, id)' /\ Of(s, id)' = Of(s, id)
  BY <1>5, BuffersInOrder DEF Of
<1>7. ASSUME NEW m \in Kinds, Loaded(index'[s][m])
      PROVE  /\ Loaded(index[s][m])
             /\ index'[s][m][id] = IF o.kind = "DELETE" /\ o.id = id THEN Absent ELSE index[s][m][id]
  <2>1. CASE o.kind = "DELETE"
    <3>1. index'[s][m] = IF Loaded(index[s][m]) THEN Apply(index[s][m], o) ELSE index[s][m]
      BY <1>2, <2>1, ApplyToLoadedType DEF RecInv
    <3>2. Loaded(index[s][m])
      BY <1>7, <3>1
    <3>3. PICK c \in Contents : c = index[s][m]
      BY <3>2, FileFacts DEF RecInv, RecTypes
    <3>4. Apply(c, o)[id] = IF id = o.id THEN Changed(c[id], o) ELSE c[id]
      BY ApplyIs
    <3> QED
      BY <2>1, <3>1, <3>2, <3>3, <3>4 DEF Changed
  <2>2. CASE o.kind # "DELETE"
    BY <1>2, <1>7, <2>2
  <2> QED
    BY <2>1, <2>2
<1>8. ~Unstamped(s, id) /\ cutoff' = cutoff
  BY <1>2, <1>4 DEF Unstamped
<1>9. CASE o.kind = "DELETE" /\ o.id = id
  <2>1. Agree(Absent, db[id], id \notin diverged)
    BY <1>1, <1>2, <1>9, OpKinds DEF Committed, Opening
  <2>2. IndexAgrees(s, k, id)'
    BY <1>2, <1>7, <1>9, <2>1 DEF IndexAgrees
  <2>3. LogVouches(s, id)' /\ FileHasRest(s, k, id)' /\ JustSaved(s, k, id)'
    <3>1. PICK X : X = Of(s, id) /\ X = Of(s, id)'
      BY <1>6
    <3>2. LogVouches(s, id)'
      <4>1. Latest(X, db[id], id \notin diverged) /\ (id \notin diverged => Covered(X))
        BY <1>8, <3>1 DEF Values, LogVouches
      <4> QED
        BY <1>2, <3>1, <4>1 DEF LogVouches
    <3>3. Obsolete(Of(s, id))' => Obsolete(X)
      BY <1>8, <3>1 DEF Obsolete
    <3> QED
      BY <1>2, <1>8, <3>1, <3>2, <3>3 DEF Values, FileHasRest, JustSaved
  <2> QED
    BY <1>3, <1>6, <2>2, <2>3 DEF Values
<1>10. CASE ~(o.kind = "DELETE" /\ o.id = id)
  <2>1. ~Unapplied(s, id)
    BY <1>1, <1>2, <1>10 DEF Unapplied
  <2>2. Loaded(index'[s][k]) => Loaded(index[s][k]) /\ index'[s][k][id] = index[s][k][id]
    BY <1>7, <1>10
  <2>3. Values(s, k, id)'
    BY <1>2, <1>6, <1>8, <2>1, <2>2, RowStays
  <2> QED
    BY <1>3, <1>6, <2>3
<1> QED
  BY <1>9, <1>10

-----------------------------------------------------------------------------
(***************************************************************************)
(* Flushing, building, saving and loading.                                 *)
(***************************************************************************)
\* A step that moves entries of the log and nothing else that an id's values rest on.
LEMMA MovedValues ==
  ASSUME NEW s, NEW k, NEW id, Values(s, k, id), Logged(s)' = Logged(s),
         UNCHANGED <<db, snapshot, index, diverged, cutoff>>,
         pc'[s] \notin {"checkpoint", "checkpointing"} \/ pc[s] \in {"checkpoint", "checkpointing"},
         Unstamped(s, id) => Unstamped(s, id)', Unapplied(s, id) => Unapplied(s, id)'
  PROVE  Values(s, k, id)'
<1>1. Of(s, id)' = Of(s, id)
  BY DEF Of
<1> QED
  BY <1>1, RowStays

\* Between requests, and while an index is built, saved or loaded, no operation is open.
LEMMA NothingOpen ==
  ASSUME NEW s, pc[s] \notin Opening
  PROVE  Committed(s) /\ \A id : ~Unstamped(s, id) /\ ~Unapplied(s, id)
  BY DEF Committed, Unstamped, Unapplied, Opening

\* Flushes and the begin of a checkpoint.
LEMMA FlushValues ==
  ASSUME NEW s, Services = {s}, NEW k, WalTypeInv, RecInv, Control(s),
         BatchFlush(s) \/ BatchEnd(s) \/ SaveCheckpoint(s),
         NEW id \in Ids \ untracked', InOrder(s, id), Values(s, k, id)
  PROVE  InOrder(s, id)' /\ Values(s, k, id)' /\ Committed(s)'
<1>1. Typed(s) /\ OpReady
  BY TypedLog DEF RecInv
<1>2. /\ pc[s] \in {"flush", "flushing", "checkpoint"} /\ pc'[s] \in {"flushing", "idle", "checkpointing"}
      /\ pc'[s] = "checkpointing" => pc[s] = "checkpoint"
      /\ UNCHANGED <<db, snapshot, index, diverged>>
  BY <1>1 DEF BatchFlush, BatchEnd, SaveCheckpoint, excuses, OpReady
<1>3. pc[s] \notin Opening /\ pc'[s] \notin Opening
  BY <1>2 DEF Opening
<1>4. Committed(s)' /\ ~Unstamped(s, id) /\ ~Unapplied(s, id)
  BY <1>3, NothingOpen DEF Committed
<1>5. InOrder(s, id)' /\ Logged(s)' = Logged(s) /\ cutoff' = cutoff
  <2>1. CASE BatchFlush(s)
    <3>1. /\ UNCHANGED <<Flushing(s), Stamping(s), file, clock, cutoff>>
          /\ Calling(s) = <<>> /\ Calling(s)' = Buffered(s) /\ Buffered(s)' = <<>>
      BY <1>1, <2>1, BatchFlushMoves
    <3>2. CallerDrains(s)
      BY <3>1 DEF CallerDrains
    <3>3. Without(ToSet(Buffered(s)), id) \/ Without(ToSet(Flushing(s)), id)
      <4>1. id \notin IdsOf(Buffered(s)) \cap IdsOf(Flushing(s))
        BY <2>1 DEF BatchFlush, Buffered, Flushing
      <4> QED
        BY <4>1 DEF IdsOf, Without
    <3> QED
      BY <1>1, <3>1, <3>2, <3>3, CallerDrainsInOrder
  <2>2. CASE BatchEnd(s) \/ SaveCheckpoint(s)
    <3>1. Kept(s) /\ UNCHANGED <<clock, cutoff>>
      BY <1>1, <2>2, BatchEndMoves, SaveCheckpointMoves
    <3> QED
      BY <1>1, <3>1, KeptInOrder
  <2> QED
    BY <2>1, <2>2
<1> QED
  BY <1>2, <1>4, <1>5, MovedValues

\* The flusher and the steps of a checkpoint.
LEMMA BackgroundValues ==
  ASSUME NEW s, Services = {s}, NEW k, MaxSize = 0, WalTypeInv, RecInv, Control(s), Committed(s), Background,
         NEW id \in Ids, InOrder(s, id), Values(s, k, id)
  PROVE  InOrder(s, id)' /\ Values(s, k, id)' /\ Committed(s)'
<1>1. Typed(s) /\ OpReady
  BY TypedLog DEF RecInv
<1>2. UNCHANGED <<db, snapshot, index, diverged, pc, op>>
  BY DEF Background, recVars, service, excuses
<1>3. Committed(s)'
  BY <1>2 DEF Committed
<1>4. (Unstamped(s, id) => Unstamped(s, id)') /\ (Unapplied(s, id) => Unapplied(s, id)')
  BY <1>2 DEF Unstamped, Unapplied
<1>5. ASSUME InOrder(s, id)', Logged(s)' = Logged(s), cutoff' = cutoff
      PROVE  InOrder(s, id)' /\ Values(s, k, id)' /\ Committed(s)'
  BY <1>2, <1>3, <1>4, <1>5, MovedValues
<1>6. ASSUME NEW i \in Instances, FlusherDrain(i)
      PROVE  InOrder(s, id)' /\ Values(s, k, id)' /\ Committed(s)'
  <2>1. FlusherDrains(s) /\ cutoff' = cutoff
    BY <1>1, <1>2, <1>6, FlusherDrainMoves DEF FlusherDrains
  <2> QED
    BY <1>1, <1>5, <2>1, FlusherDrainsInOrder
<1>7. ASSUME NEW t \in Threads, WriteLines(t)
      PROVE  InOrder(s, id)' /\ Values(s, k, id)' /\ Committed(s)'
  <2>1. Writes(s) /\ cutoff' = cutoff
    BY <1>1, <1>2, <1>7, WriteMoves DEF Writes
  <2> QED
    BY <1>1, <1>5, <2>1, WritesInOrder
<1>8. ASSUME NEW t \in Threads, MaybeRotate(t) PROVE FALSE
  BY <1>8 DEF MaybeRotate, Control
<1>9. ASSUME NEW i \in Instances, CheckpointOpen(i) \/ CheckpointMark(i)
      PROVE  InOrder(s, id)' /\ Values(s, k, id)' /\ Committed(s)'
  <2>1. /\ Kept(s) /\ pc[s] = "checkpointing" /\ clock' \in {clock, clock + 1}
    BY <1>1, <1>2, <1>9, CheckpointMoves
  <2>2. InOrder(s, id)' /\ Of(s, id)' = Of(s, id)
    BY <1>1, <2>1, KeptInOrder DEF Of
  <2>3. Agree(snapshot[k][id], db[id], id \notin diverged)
    BY <2>1 DEF Values, JustSaved
  <2>4. PICK X : X = Of(s, id) /\ X = Of(s, id)'
    BY <2>2
  <2>5. LogVouches(s, id)'
    <3>1. ~Unstamped(s, id) => Latest(X, db[id], id \notin diverged) /\ (id \notin diverged => Covered(X))
      BY <2>4 DEF Values, LogVouches
    <3> QED
      BY <1>2, <1>4, <2>4, <3>1 DEF LogVouches, Unstamped
  <2>6. FileHasRest(s, k, id)' /\ JustSaved(s, k, id)'
    BY <1>2, <2>3 DEF FileHasRest, JustSaved
  <2>7. IndexAgrees(s, k, id)'
    BY <1>2, <1>4 DEF Values, IndexAgrees
  <2> QED
    BY <1>3, <2>2, <2>5, <2>6, <2>7 DEF Values
<1> QED
  BY <1>6, <1>7, <1>8, <1>9 DEF Background

\* The requests about an index leave table and log alone.
LEMMA IndexStepStays ==
  ASSUME NEW s, Services = {s}, NEW k, Kinds = {k}, RecInv,
         \/ Build(s, k) \/ Save(s, k) \/ SaveOpen(s) \/ SaveWrite(s) \/ LoadStart(s, k)
         \/ LoadReplay(s) \/ SaveOrLoadFails(s) \/ Recycle(s)
  PROVE  /\ UNCHANGED <<walVars, db, diverged>> /\ untracked \subseteq untracked' /\ s \in Services
         /\ pc[s] \notin Opening /\ pc'[s] \notin Opening
<1>1. pc \in [Services -> {"idle", "write", "batch", "log", "logBatch", "flush", "flushing",
                           "save", "dump", "checkpoint", "checkpointing", "load"}] /\ s \in Services
  BY DEF RecInv, OpReady
<1>2. /\ UNCHANGED <<walVars, db, diverged>> /\ untracked \subseteq untracked'
      /\ pc[s] \in {"idle", "save", "dump", "checkpoint", "load"}
  BY DEF Build, Save, SaveOpen, SaveWrite, LoadStart, LoadReplay, SaveOrLoadFails, Recycle, Arrives, excuses
<1>3. pc' = pc \/ \E next \in {"idle", "save", "dump", "checkpoint", "load"} : pc' = [pc EXCEPT ![s] = next]
  BY DEF Build, Save, SaveOpen, SaveWrite, LoadStart, LoadReplay, SaveOrLoadFails, Recycle
<1>4. pc'[s] \in {"idle", "save", "dump", "checkpoint", "load"}
  BY <1>1, <1>2, <1>3
<1> QED
  BY <1>1, <1>2, <1>4 DEF Opening

\* While the log and the row stay, what matters is the index and its file.
LEMMA RestValues ==
  ASSUME NEW s, NEW k, NEW id, Values(s, k, id), UNCHANGED <<walVars, db, diverged>>,
         pc[s] \notin Opening, pc'[s] \notin Opening,
         FileHasRest(s, k, id)', JustSaved(s, k, id)', IndexAgrees(s, k, id)'
  PROVE  Values(s, k, id)'
<1>1. PICK X : X = Of(s, id) /\ X = Of(s, id)'
  BY OfStays
<1>2. ~Unstamped(s, id)
  BY NothingOpen
<1>3. Latest(X, db[id], id \notin diverged) /\ (id \notin diverged => Covered(X))
  BY <1>1, <1>2 DEF Values, LogVouches
<1>4. LogVouches(s, id)'
  BY <1>1, <1>3 DEF LogVouches
<1> QED
  BY <1>4 DEF Values

-----------------------------------------------------------------------------
(***************************************************************************)
(* What a replay over the file of the index gives.                         *)
(***************************************************************************)
\* The table and the newest entry agree; so do the entry and what replay leaves.
LEMMA ReplayAgrees ==
  ASSUME NEW s, NEW k \in Kinds, Typed(s), RecTypes, cutoff \in Nat, NEW id \in Ids, InOrder(s, id),
         Values(s, k, id), ~Unstamped(s, id), Without(Held(s), id), Loaded(snapshot[k])
  PROVE  Agree(Recovered(snapshot[k])[id], db[id], id \notin diverged)
<1>1. PICK c \in Contents : c = snapshot[k]
  BY FileFacts DEF RecTypes
<1>2. PICK N \in Nat : N = Len(file) /\ file \in Seq(Entry)
  BY DEF Typed
<1>3. PICK a, b, v, same : /\ a = Recovered(c)[id] /\ b = c[id] /\ v = db[id] /\ same = (id \notin diverged)
  OBVIOUS
<1>4. Result(a, b, N, id)
  BY <1>2, <1>3, RecoveredIs
<1>5. PICK X : X = Of(s, id)
  OBVIOUS
<1>6. /\ \A n \in 1 .. N : file[n].op.id = id => file[n] \in X
      /\ \A e \in X : \E n \in 1 .. N : e = file[n] /\ file[n].op.id = id
  <2>1. ToSet(file) = {file[n] : n \in 1 .. N}
    BY <1>2 DEF ToSet
  <2>2. \A e : e \in X <=> e \in ToSet(file) /\ e.op.id = id
    BY <1>5 DEF Of, Logged, Without
  <2> QED
    BY <2>1, <2>2
<1>7. \A n \in 1 .. N : /\ file[n].ts \in Nat /\ (IsPending(file[n]) <=> file[n].ts > cutoff)
  <2>1. \A n \in 1 .. N : file[n] \in Entry
    BY <1>2
  <2> QED
    BY <2>1, EntryFacts DEF IsPending
<1>8. \A i, j \in 1 .. N : i < j /\ file[i].op.id = id /\ file[j].op.id = id => file[i].ts < file[j].ts
  BY <1>2 DEF InOrder, LinesAscend
<1>9. Latest(X, v, same) /\ (same => Covered(X))
  BY <1>3, <1>5 DEF Values, LogVouches
<1>10. CASE (\A i \in 1 .. N : ~ReplayedSet(i, id)) /\ Touched(a, b, 1, N, id)
  <2>1. ASSUME NEW e \in X, Decides(e.op) PROVE e.ts <= cutoff
    <3>1. PICK n \in 1 .. N : e = file[n] /\ file[n].op.id = id
      BY <1>6
    <3>2. ~IsPending(file[n])
      BY <1>10, <2>1, <3>1 DEF ReplayedSet, Replayed
    <3> QED
      BY <1>7, <3>1, <3>2
  <2>2. Agree(b, v, same)
    BY <1>1, <1>3, <1>5, <2>1 DEF Values, FileHasRest, Obsolete
  <2>3. ASSUME same, NEW i \in 1 .. N, Replayed(i, id) PROVE FALSE
    <3>1. file[i] \in X /\ ~Decides(file[i].op) /\ file[i].ts > cutoff /\ file[i].ts \in Nat
      BY <1>6, <1>7, <1>10, <2>3 DEF Replayed, ReplayedSet
    <3>2. PICK f \in X : Decides(f.op) /\ file[i].ts < f.ts
      BY <1>9, <2>3, <3>1 DEF Covered
    <3>3. f.ts <= cutoff /\ f.ts \in Nat
      BY <1>6, <1>7, <2>1, <3>2
    <3> QED
      BY <3>1, <3>2, <3>3
  <2> QED
    BY <1>1, <1>3, <1>10, <2>2, <2>3 DEF Touched, Agree
<1>11. ASSUME NEW j \in 1 .. N, ReplayedSet(j, id), \A i \in j + 1 .. N : ~ReplayedSet(i, id),
              Touched(a, Outcome(file[j].op), j + 1, N, id)
       PROVE  Agree(a, v, same)
  <2>1. PICK e : e = file[j]
    OBVIOUS
  <2>2. e \in X /\ Decides(e.op) /\ e.ts > cutoff /\ e.ts \in Nat /\ e.op.id = id
    BY <1>6, <1>7, <1>11, <2>1 DEF ReplayedSet, Replayed
  <2>3. ASSUME NEW f \in X, Decides(f.op) PROVE f.ts <= e.ts /\ f.ts \in Nat
    <3>1. PICK n \in 1 .. N : f = file[n] /\ file[n].op.id = id
      BY <1>6
    <3>2. CASE n <= j
      BY <1>7, <1>8, <2>1, <2>2, <3>1, <3>2
    <3>3. CASE n > j
      <4>1. n \in j + 1 .. N
        BY <3>3
      <4>2. ~IsPending(file[n])
        BY <1>11, <2>3, <3>1, <4>1 DEF ReplayedSet, Replayed
      <4> QED
        BY <1>7, <2>2, <3>1, <4>2
    <3> QED
      BY <3>2, <3>3
  <2>4. Agree(Outcome(e.op), v, same)
    BY <1>9, <2>2, <2>3 DEF Latest
  <2>5. ASSUME same, NEW i \in j + 1 .. N, Replayed(i, id) PROVE FALSE
    <3>1. i \in 1 .. N /\ j < i
      OBVIOUS
    <3>2. file[i] \in X /\ ~Decides(file[i].op) /\ file[i].ts \in Nat /\ file[i].op.id = id
      BY <1>6, <1>7, <1>11, <2>5, <3>1 DEF Replayed, ReplayedSet
    <3>3. PICK f \in X : Decides(f.op) /\ file[i].ts < f.ts
      BY <1>9, <2>5, <3>2 DEF Covered
    <3>4. e.ts < file[i].ts
      BY <1>8, <2>1, <2>2, <3>1, <3>2
    <3> QED
      BY <2>2, <2>3, <3>2, <3>3, <3>4
  <2> QED
    BY <1>11, <2>1, <2>4, <2>5 DEF Touched, Agree
<1>12. Agree(a, v, same)
  <2>1. CASE (\A i \in 1 .. N : ~ReplayedSet(i, id)) /\ Touched(a, b, 1, N, id)
    BY <1>1, <1>3, <1>10, <2>1
  <2> QED
    BY <1>4, <1>11, <2>1 DEF Result
<1> QED
  BY <1>1, <1>3, <1>12

-----------------------------------------------------------------------------
(***************************************************************************)
(* Building, saving and loading an index.                                  *)
(***************************************************************************)
\* While a load runs the file stays what it was.
Quiet(s, k) == pc[s] = "load" => draft[s] = snapshot[k]

\* Between stamps, an id that waits nowhere.
LEMMA NotWaiting ==
  ASSUME NEW s, Services = {s}, Control(s), pc[s] \notin {"log", "logBatch"}, NEW id, id \notin Waiting
  PROVE  Without(Held(s), id)
<1>1. Own(s) \in Instances
  BY OneLog
<1>2. id \notin IdsOf(Flushing(s)) /\ id \notin IdsOf(Calling(s)) /\ id \notin IdsOf(Buffered(s))
  BY <1>1 DEF Waiting, Flushing, Calling, Buffered
<1>3. Stamping(s) = {}
  BY DEF Stamping, Control
<1> QED
  BY <1>2, <1>3 DEF IdsOf, Held, Without

\* The steps that only build, save or load leave what the service has logged.
LEMMA IndexControl ==
  ASSUME NEW s, Services = {s}, NEW k, Kinds = {k}, WalTypeInv, RecInv, Control(s),
         \/ Build(s, k) \/ Save(s, k) \/ SaveOpen(s) \/ SaveWrite(s) \/ LoadStart(s, k)
         \/ LoadReplay(s) \/ SaveOrLoadFails(s) \/ Recycle(s)
  PROVE  /\ Control(s)' /\ Kept(s) /\ UNCHANGED <<clock, cutoff>>
         /\ Quiet(s, k)' /\ Committed(s)'
<1>1. /\ UNCHANGED <<walVars, db, diverged>> /\ s \in Services
      /\ pc[s] \notin Opening /\ pc'[s] \notin Opening
  BY IndexStepStays
<1>2. pc[s] \in {"idle", "save", "dump", "checkpoint", "load"} /\ OpReady
  BY DEF Build, Save, SaveOpen, SaveWrite, LoadStart, LoadReplay, SaveOrLoadFails, Recycle, Arrives, RecInv
<1>3. Control(s)' /\ Kept(s) /\ UNCHANGED <<clock, cutoff>>
  BY <1>1, <1>2, ControlStays DEF Opening
<1>4. ASSUME LoadStart(s, k) PROVE Quiet(s, k)'
  <2>1. draft' = [draft EXCEPT ![s] = snapshot[k]] /\ snapshot' = snapshot
    BY <1>4 DEF LoadStart
  <2>2. draft'[s] = snapshot'[k]
    BY <1>1, <2>1 DEF RecInv, RecTypes
  <2> QED
    BY <2>2 DEF Quiet
<1>5. ASSUME ~LoadStart(s, k) PROVE Quiet(s, k)'
  <2>1. \/ pc' = pc /\ pc[s] = "idle"
        \/ \E next \in {"idle", "save", "dump", "checkpoint"} : pc' = [pc EXCEPT ![s] = next]
    BY <1>5 DEF Build, Save, SaveOpen, SaveWrite, LoadStart, LoadReplay, SaveOrLoadFails, Recycle, Arrives
  <2>2. pc'[s] # "load"
    BY <1>1, <1>2, <2>1 DEF OpReady
  <2> QED
    BY <2>2 DEF Quiet
<1>6. Quiet(s, k)'
  BY <1>4, <1>5
<1> QED
  BY <1>1, <1>3, <1>6 DEF Committed

\* What is saved, and what is loaded and replayed, is what the table has.
LEMMA IndexValues ==
  ASSUME NEW s, Services = {s}, NEW k, Kinds = {k}, WalTypeInv, RecInv, Control(s), Quiet(s, k),
         \/ Build(s, k) \/ Save(s, k) \/ SaveOpen(s) \/ SaveWrite(s) \/ LoadStart(s, k)
         \/ LoadReplay(s) \/ SaveOrLoadFails(s) \/ Recycle(s),
         NEW id \in Ids \ untracked', InOrder(s, id), Values(s, k, id)
  PROVE  InOrder(s, id)' /\ Values(s, k, id)'
<1>1. /\ UNCHANGED <<walVars, db, diverged>> /\ s \in Services /\ k \in Kinds
      /\ pc[s] \notin Opening /\ pc'[s] \notin Opening
  BY IndexStepStays
<1>2. Kept(s) /\ UNCHANGED <<clock, cutoff>> /\ Typed(s)
  BY IndexControl, TypedLog
<1>3. InOrder(s, id)'
  BY <1>2, KeptInOrder
<1>4. ~Unstamped(s, id) /\ ~Unapplied(s, id)
  BY <1>1, NothingOpen
<1>5. RecTypes /\ OpReady /\ Working(s)
  BY <1>1 DEF RecInv
<1>6. Obsolete(Of(s, id))' <=> Obsolete(Of(s, id))
  <2>1. PICK X : X = Of(s, id) /\ X = Of(s, id)'
    BY <1>1, OfStays
  <2> QED
    BY <1>2, <2>1 DEF Obsolete
<1>7. ASSUME snapshot' = snapshot PROVE FileHasRest(s, k, id)'
  BY <1>1, <1>4, <1>6, <1>7 DEF Values, FileHasRest
<1>8. ASSUME index' = index PROVE IndexAgrees(s, k, id)'
  BY <1>1, <1>4, <1>8 DEF Values, IndexAgrees
<1>9. CASE Build(s, k)
  <2>0. PICK c \in Contents :
          index' = [index EXCEPT ![s] = [@ EXCEPT ![k] = c]] /\ c[id] = db[id]
    BY <1>1, <1>5, <1>9, BuildFacts
  <2>1. /\ snapshot' = snapshot
        /\ \E next \in {"idle", "save"} : pc' = [pc EXCEPT ![s] = next]
    BY <1>9 DEF Build
  <2>2. index'[s][k] = c /\ pc'[s] \in {"idle", "save"}
    BY <1>1, <1>5, <2>0, <2>1 DEF RecTypes, OpReady
  <2>3. IndexAgrees(s, k, id)' /\ JustSaved(s, k, id)'
    BY <1>1, <2>0, <2>2 DEF IndexAgrees, JustSaved, Agree
  <2> QED
    BY <1>1, <1>3, <1>7, <2>1, <2>3, RestValues
<1>10. CASE Save(s, k) \/ LoadStart(s, k)
  <2>1. /\ index' = index /\ snapshot' = snapshot
        /\ \E next \in {"save", "load"} : pc' = [pc EXCEPT ![s] = next]
    BY <1>10 DEF Save, LoadStart
  <2>2. pc'[s] \in {"save", "load"}
    BY <1>1, <1>5, <2>1 DEF OpReady
  <2>3. JustSaved(s, k, id)'
    BY <2>2 DEF JustSaved
  <2> QED
    BY <1>1, <1>3, <1>7, <1>8, <2>1, <2>3, RestValues
<1>11. CASE SaveOpen(s)
  <2>1. /\ index' = index /\ target[s] = k /\ snapshot' = [snapshot EXCEPT ![target[s]] = Broken]
        /\ pc' = [pc EXCEPT ![s] = "dump"]
    BY <1>5, <1>11 DEF SaveOpen, Working
  <2>2. pc'[s] = "dump" /\ snapshot'[k] = Broken
    BY <1>1, <1>5, <2>1 DEF OpReady, RecTypes
  <2>3. FileHasRest(s, k, id)' /\ JustSaved(s, k, id)'
    BY <2>2 DEF FileHasRest, JustSaved, Loaded
  <2> QED
    BY <1>1, <1>3, <1>8, <2>1, <2>3, RestValues
<1>12. CASE SaveWrite(s)
  <2>1. /\ index' = index /\ target[s] = k /\ Loaded(index[s][k])
        /\ snapshot' = [snapshot EXCEPT ![target[s]] = index[s][target[s]]]
    BY <1>5, <1>12 DEF SaveWrite, Working
  <2>2. snapshot'[k] = index[s][k]
    BY <1>1, <1>5, <2>1 DEF RecTypes
  <2>3. Agree(index[s][k][id], db[id], id \notin diverged)
    BY <1>4, <2>1 DEF Values, IndexAgrees
  <2>4. FileHasRest(s, k, id)' /\ JustSaved(s, k, id)'
    BY <1>1, <2>2, <2>3 DEF FileHasRest, JustSaved
  <2> QED
    BY <1>1, <1>3, <1>8, <2>1, <2>4, RestValues
<1>13. CASE LoadReplay(s)
  <2>1. /\ pc[s] = "load" /\ pc' = [pc EXCEPT ![s] = "idle"] /\ snapshot' = snapshot
        /\ index' = [index EXCEPT ![s][target[s]] = Recovered(draft[s])] /\ target[s] = k
    BY <1>5, <1>13 DEF LoadReplay, Working
  <2>0. id \notin Waiting
    BY <1>13 DEF LoadReplay
  <2>2. Without(Held(s), id) /\ draft[s] = snapshot[k] /\ Loaded(snapshot[k])
    BY <1>5, <2>0, <2>1, NotWaiting DEF Quiet, Working
  <2>3. index'[s][k] = Recovered(snapshot[k]) /\ pc'[s] = "idle"
    BY <1>1, <1>5, <2>1, <2>2 DEF RecTypes, OpReady
  <2>4. cutoff \in Nat
    BY DEF WalTypeInv, WalTypeOK
  <2>5. Agree(Recovered(snapshot[k])[id], db[id], id \notin diverged)
    BY <1>1, <1>2, <1>4, <1>5, <2>2, <2>4, ReplayAgrees
  <2>6. IndexAgrees(s, k, id)' /\ JustSaved(s, k, id)'
    BY <1>1, <2>3, <2>5 DEF IndexAgrees, JustSaved
  <2> QED
    BY <1>1, <1>3, <1>7, <2>1, <2>6, RestValues
<1>14. CASE Recycle(s)
  <2>1. /\ index' = [index EXCEPT ![s] = [m \in Kinds |-> Missing]] /\ snapshot' = snapshot /\ pc' = pc
        /\ pc[s] = "idle"
    BY <1>14 DEF Recycle, Arrives
  <2>2. index'[s][k] = Missing
    BY <1>1, <1>5, <2>1 DEF RecTypes
  <2>3. IndexAgrees(s, k, id)' /\ JustSaved(s, k, id)'
    BY <2>1, <2>2 DEF IndexAgrees, JustSaved, Loaded
  <2> QED
    BY <1>1, <1>3, <1>7, <2>1, <2>3, RestValues
<1>15. CASE SaveOrLoadFails(s)
  <2>1. index' = index /\ snapshot' = snapshot /\ pc' = [pc EXCEPT ![s] = "idle"]
    BY <1>15 DEF SaveOrLoadFails
  <2>2. JustSaved(s, k, id)'
    BY <1>1, <1>5, <2>1 DEF JustSaved, OpReady
  <2> QED
    BY <1>1, <1>3, <1>7, <1>8, <2>1, <2>2, RestValues
<1> QED
  BY <1>9, <1>10, <1>11, <1>12, <1>13, <1>14, <1>15

-----------------------------------------------------------------------------
(***************************************************************************)
(* The end of a save, and crashes.                                         *)
(***************************************************************************)
\* Of the entries of an id, those still in memory are the newest.
LEMMA HeldDecides ==
  ASSUME NEW X, NEW Y, Y \subseteq X, NEW v, NEW same, \A e \in X : e.ts \in Nat,
         \A e \in X \ Y, h \in Y : e.ts < h.ts, Latest(X, v, same), same => Covered(X)
  PROVE  Latest(Y, v, same) /\ (same => Covered(Y))
<1>1. ASSUME NEW e \in Y, Decides(e.op), \A f \in Y : Decides(f.op) => f.ts <= e.ts
      PROVE  Agree(Outcome(e.op), v, same)
  <2>1. \A f \in X : Decides(f.op) => f.ts <= e.ts
    BY <1>1
  <2> QED
    BY <1>1, <2>1 DEF Latest
<1>2. ASSUME same, NEW u \in Y, ~Decides(u.op) PROVE \E f \in Y : Decides(f.op) /\ u.ts < f.ts
  <2>1. PICK f \in X : Decides(f.op) /\ u.ts < f.ts
    BY <1>2 DEF Covered
  <2>2. f \in Y
    BY <2>1
  <2> QED
    BY <2>1, <2>2
<1>3. Latest(Y, v, same)
  BY <1>1 DEF Latest
<1>4. same => Covered(Y)
  BY <1>2 DEF Covered
<1> QED
  BY <1>3, <1>4

\* What the checkpoint forgets the saved file has.
LEMMA SaveEndValues ==
  ASSUME NEW s, Services = {s}, NEW k, WalTypeInv, RecInv, Control(s), SaveEnd(s),
         NEW id \in Ids, InOrder(s, id), Values(s, k, id)
  PROVE  InOrder(s, id)' /\ Values(s, k, id)'
<1>1. /\ UNCHANGED <<Flushing(s), Calling(s), Buffered(s), Stamping(s)>>
      /\ file' = <<>> /\ UNCHANGED <<clock, cutoff>> /\ OpReady /\ Typed(s)
  BY SaveEndMoves, TypedLog DEF RecInv
<1>2. InOrder(s, id)' /\ Logged(s)' = Held(s)
  BY <1>1, EmptiedInOrder
<1>3. /\ pc[s] = "checkpointing" /\ pc'[s] = "idle" /\ UNCHANGED <<db, snapshot, index, diverged>>
  BY <1>1 DEF SaveEnd, OpReady, excuses
<1>4. ~Unstamped(s, id) /\ ~Unapplied(s, id)
  BY <1>3, NothingOpen DEF Opening
<1>5. PICK X, Y : X = Of(s, id) /\ Y = Of(s, id)'
  OBVIOUS
<1>6. /\ Y \subseteq X /\ (\A e \in X : e.ts \in Nat) /\ \A e \in X \ Y, h \in Y : e.ts < h.ts
  <2>1. Y = {e \in Held(s) : e.op.id = id} /\ X = {e \in Logged(s) : e.op.id = id}
    BY <1>2, <1>5 DEF Of
  <2>2. \A e \in X \ Y : e \in ToSet(file) /\ e.op.id = id
    BY <2>1 DEF Logged
  <2>3. Before(ToSet(file), Held(s), id)
    BY DEF InOrder
  <2>4. Held(s) \subseteq Logged(s) /\ \A e \in Logged(s) : e.ts \in Nat
    BY <1>1, LoggedTypes
  <2> QED
    BY <2>1, <2>2, <2>3, <2>4 DEF Before
<1>7. PICK v, same : v = db[id] /\ same = (id \notin diverged)
  OBVIOUS
<1>8. Latest(X, v, same) /\ (same => Covered(X))
  BY <1>4, <1>5, <1>7 DEF Values, LogVouches
<1>9. Latest(Y, v, same) /\ (same => Covered(Y))
  BY <1>6, <1>8, HeldDecides
<1>10. LogVouches(s, id)'
  BY <1>3, <1>5, <1>7, <1>9 DEF LogVouches
<1>11. FileHasRest(s, k, id)' /\ JustSaved(s, k, id)' /\ IndexAgrees(s, k, id)'
  BY <1>3, <1>4 DEF Values, FileHasRest, JustSaved, IndexAgrees
<1> QED
  BY <1>2, <1>10, <1>11 DEF Values

\* An id that no request works on and no entry in memory is about.
LEMMA FreeId ==
  ASSUME NEW s, Services = {s}, OpReady, Control(s), NEW id \in Ids, id \notin InProgress \cup Waiting
  PROVE  Without(Held(s), id) /\ ~Unstamped(s, id) /\ ~Unapplied(s, id)
<1>1. Own(s) \in Instances /\ s \in Services
  BY OneLog
<1>2. pc[s] \in Opening => op[s].id # id
  <2>1. ASSUME pc[s] \in Opening PROVE op[s] # NoOp
    <3>1. op[s] \in Operations
      BY <1>1, <2>1 DEF OpReady
    <3> QED
      BY <3>1, OpKinds DEF NoOp
  <2> QED
    BY <1>1, <2>1 DEF InProgress
<1>3. ~Unstamped(s, id) /\ ~Unapplied(s, id)
  BY <1>2 DEF Unstamped, Unapplied, Opening
<1>4. id \notin IdsOf(Flushing(s)) /\ id \notin IdsOf(Calling(s)) /\ id \notin IdsOf(Buffered(s))
  BY <1>1 DEF Waiting, Flushing, Calling, Buffered
<1>5. \A e \in Stamping(s) : e.op.id # id
  BY <1>2 DEF Stamping, Control, Opening
<1>6. Without(Held(s), id)
  BY <1>4, <1>5 DEF IdsOf, Held, Without
<1> QED
  BY <1>3, <1>6

\* A crash changes nothing for an id with nothing in memory.
LEMMA CrashValues ==
  ASSUME NEW s, Services = {s}, NEW k \in Kinds, ~TornWrites, WalTypeInv, RecInv, Control(s), ProcessCrash,
         NEW id \in Ids \ untracked', InOrder(s, id), Values(s, k, id)
  PROVE  InOrder(s, id)' /\ Values(s, k, id)'
<1>1. OpReady /\ Typed(s) /\ s \in Services
  BY TypedLog DEF RecInv
<1>2. Without(Held(s), id) /\ ~Unstamped(s, id) /\ ~Unapplied(s, id)
  BY <1>1, FreeId DEF ProcessCrash
<1>3. /\ UNCHANGED <<clock, cutoff>>
      /\ Flushing(s)' = <<>> /\ Calling(s)' = <<>> /\ Buffered(s)' = <<>> /\ Stamping(s)' = {}
      /\ \E q \in {Flushing(s), Calling(s)} : \E n \in 0 .. Len(q) : file' = file \o SubSeq(q, 1, n)
  BY <1>1, CrashMoves
<1>4. PICK q \in {Flushing(s), Calling(s)} : \E n \in 0 .. Len(q) : file' = file \o SubSeq(q, 1, n)
  BY <1>3
<1>5. PICK n \in 0 .. Len(q) : file' = file \o SubSeq(q, 1, n)
  BY <1>4
<1>6. InOrder(s, id)' /\ \A e : e.op.id = id => (e \in Logged(s)' <=> e \in Logged(s))
  BY <1>1, <1>2, <1>3, <1>5, CrashInOrder
<1>7. Of(s, id)' = Of(s, id)
  BY <1>6 DEF Of
<1>8. /\ UNCHANGED <<db, snapshot, diverged>> /\ pc'[s] = "idle" /\ index'[s][k] = Missing
  BY <1>1 DEF ProcessCrash
<1>9. ~Loaded(index'[s][k])
  BY <1>8 DEF Loaded
<1>10. Values(s, k, id)'
  BY <1>2, <1>3, <1>7, <1>8, <1>9, RowStays
<1> QED
  BY <1>6, <1>10

-----------------------------------------------------------------------------
(***************************************************************************)
(* Table, log, files and indexes agree at every step.                      *)
(***************************************************************************)
Core(s, k) ==
  /\ Control(s) /\ Quiet(s, k) /\ Committed(s)
  /\ \A id \in Tracked : InOrder(s, id) /\ Values(s, k, id)

\* At the start there is nothing to disagree about.
LEMMA CoreInit ==
  ASSUME NEW s, Services = {s}, NEW k, Kinds = {k}, Init
  PROVE  Core(s, k)
<1>1. /\ Control(s) /\ file = <<>> /\ Stamping(s) = {}
      /\ Flushing(s) = <<>> /\ Calling(s) = <<>> /\ Buffered(s) = <<>>
  BY ControlInit
<1>2. /\ pc[s] = "idle" /\ index[s][k] = Missing /\ snapshot[k] = Missing
  BY DEF Init
<1>3. Quiet(s, k) /\ Committed(s) /\ ~Loaded(index[s][k]) /\ ~Loaded(snapshot[k])
  BY <1>2, NothingOpen DEF Quiet, Loaded, Opening
<1>4. Logged(s) = {} /\ Held(s) = {} /\ \A id : Of(s, id) = {}
  BY <1>1, NoLines DEF Logged, Held, Of
<1>5. ASSUME NEW id PROVE InOrder(s, id)
  BY <1>1, <1>4, NoLines DEF InOrder, Before, Without
<1>6. ASSUME NEW id PROVE Values(s, k, id)
  <2>1. LogVouches(s, id)
    BY <1>4 DEF LogVouches, Latest, Covered
  <2> QED
    BY <1>2, <1>3, <2>1 DEF Values, FileHasRest, JustSaved, IndexAgrees
<1> QED
  BY <1>1, <1>3, <1>5, <1>6 DEF Core

\* Step by step: requests that begin to write,
LEMMA WritingCore ==
  ASSUME NEW s, Services = {s}, NEW k, WalTypeInv, RecInv, Core(s, k),
         \/ \E i \in Ids, v \in Vals :
              Create(s, i, v) \/ Recreate(s, i, v) \/ BatchCreate(s, i, v) \/ UpdateMetadata(s, i, v)
         \/ \E i \in Ids : Delete(s, i)
  PROVE  Core(s, k)'
<1>1. OpReady /\ Control(s) /\ Typed(s) /\ s \in Services
  BY TypedLog DEF RecInv, Core
<1>2. /\ UNCHANGED <<walVars, untracked>> /\ pc[s] = "idle"
      /\ \E next \in {"write", "batch"} : pc' = [pc EXCEPT ![s] = next]
  BY DEF Create, Recreate, BatchCreate, UpdateMetadata, Delete, Begin, Arrives
<1>3. pc'[s] \in {"write", "batch"}
  BY <1>1, <1>2 DEF OpReady
<1>4. Control(s)' /\ Kept(s) /\ UNCHANGED <<clock, cutoff>>
  BY <1>1, <1>2, <1>3, ControlStays
<1>5. Quiet(s, k)'
  BY <1>3 DEF Quiet
<1>6. Committed(s)' /\ \A id \in Ids : Values(s, k, id) => Values(s, k, id)'
  BY WritingValues, DeleteValues
<1>7. \A id : InOrder(s, id) => InOrder(s, id)'
  BY <1>1, <1>4, KeptInOrder
<1> QED
  BY <1>2, <1>4, <1>5, <1>6, <1>7 DEF Core, Tracked

\* changes that are not logged,
LEMMA CommitOnlyCore ==
  ASSUME NEW s, Services = {s}, NEW k, WalTypeInv, RecInv, Core(s, k), NEW i \in Ids, NEW v \in Vals,
         BatchCreateUnindexed(s, i, v) \/ RewriteVector(s, i, v)
  PROVE  Core(s, k)'
<1>1. OpReady /\ Control(s) /\ Typed(s) /\ s \in Services
  BY TypedLog DEF RecInv, Core
<1>3. CommitOnly(i, v) /\ pc[s] = "idle"
  BY DEF BatchCreateUnindexed, RewriteVector, Arrives
<1>4. UNCHANGED <<walVars, pc>> /\ untracked' = untracked \cup {i}
  BY <1>3 DEF CommitOnly, service
<1>5. Control(s)' /\ Kept(s) /\ UNCHANGED <<clock, cutoff>>
  BY <1>1, <1>3, <1>4, ControlStays
<1>6. Quiet(s, k)'
  BY <1>3, <1>4 DEF Quiet
<1>7. Committed(s)' /\ \A id \in Ids \ {i} : Values(s, k, id) => Values(s, k, id)'
  BY <1>3, CommitOnlyValues
<1>8. \A id : InOrder(s, id) => InOrder(s, id)'
  BY <1>1, <1>5, KeptInOrder
<1> QED
  BY <1>4, <1>5, <1>6, <1>7, <1>8 DEF Core, Tracked

\* requests that fail,
LEMMA RequestFailsCore ==
  ASSUME NEW s, Services = {s}, NEW k \in Kinds, WalTypeInv, RecInv, Core(s, k), RequestFails(s)
  PROVE  Core(s, k)'
<1>1. OpReady /\ Control(s) /\ Typed(s) /\ s \in Services
  BY TypedLog DEF RecInv, Core
<1>2. UNCHANGED walVars /\ pc[s] \in {"write", "batch"} /\ pc' = [pc EXCEPT ![s] = "idle"]
  BY DEF RequestFails
<1>3. pc'[s] = "idle"
  BY <1>1, <1>2 DEF OpReady
<1>4. Control(s)' /\ Kept(s) /\ UNCHANGED <<clock, cutoff>>
  BY <1>1, <1>2, <1>3, ControlStays
<1>5. Quiet(s, k)'
  BY <1>3 DEF Quiet
<1>6. /\ Committed(s)' /\ op[s].id \in untracked' /\ untracked \subseteq untracked'
      /\ \A id \in Ids \ {op[s].id} : Values(s, k, id) => Values(s, k, id)'
  BY RequestFailsValues
<1>7. \A id : InOrder(s, id) => InOrder(s, id)'
  BY <1>1, <1>4, KeptInOrder
<1> QED
  BY <1>4, <1>5, <1>6, <1>7 DEF Core, Tracked

\* stamps and appends,
LEMMA LoggingCore ==
  ASSUME NEW s, Services = {s}, NEW k, Kinds = {k}, WalTypeInv, RecInv, Core(s, k), LogStart(s) \/ LogEnd(s)
  PROVE  Core(s, k)'
<1>1. OpReady /\ Control(s) /\ Committed(s) /\ s \in Services
  BY DEF RecInv, Core
<1>2. Control(s)' /\ untracked' = untracked
  BY <1>1, LogStartMoves, LogEndMoves DEF LogStart, LogEnd, excuses
<1>3. \E next \in {"log", "logBatch", "flush", "idle"} : pc' = [pc EXCEPT ![s] = next]
  BY DEF LogStart, LogEnd
<1>4. pc'[s] \in {"log", "logBatch", "flush", "idle"}
  BY <1>1, <1>3 DEF OpReady
<1>5. Quiet(s, k)'
  BY <1>4 DEF Quiet
<1>6. \A id \in Tracked : InOrder(s, id)' /\ Values(s, k, id)'
  BY <1>1, LogStartValues, LogEndValues DEF Core, Tracked
<1>7. Committed(s)'
  <2>1. CASE LogStart(s)
    <3>1. op' = op /\ db' = db /\ diverged' = diverged /\ pc[s] \in Opening
      BY <2>1 DEF LogStart, excuses, Opening
    <3> QED
      BY <1>1, <3>1 DEF Committed
  <2>2. CASE LogEnd(s)
    <3>1. pc[s] \in {"log", "logBatch"} /\ pc' = [pc EXCEPT ![s] = IF @ = "logBatch" THEN "flush" ELSE "idle"]
      BY <2>2 DEF LogEnd
    <3>2. pc'[s] \notin Opening
      BY <1>1, <3>1 DEF OpReady, Opening
    <3> QED
      BY <3>2 DEF Committed
  <2> QED
    BY <2>1, <2>2
<1> QED
  BY <1>2, <1>5, <1>6, <1>7 DEF Core, Tracked

\* flushes,
LEMMA FlushCore ==
  ASSUME NEW s, Services = {s}, NEW k, WalTypeInv, RecInv, Core(s, k),
         BatchFlush(s) \/ BatchEnd(s) \/ SaveCheckpoint(s)
  PROVE  Core(s, k)'
<1>1. OpReady /\ Control(s) /\ s \in Services
  BY DEF RecInv, Core
<1>2. Control(s)'
  BY <1>1, BatchFlushMoves, BatchEndMoves, SaveCheckpointMoves
<1>3. /\ \E next \in {"flushing", "idle", "checkpointing"} : pc' = [pc EXCEPT ![s] = next]
      /\ untracked \subseteq untracked'
  BY DEF BatchFlush, BatchEnd, SaveCheckpoint, excuses
<1>4. pc'[s] \in {"flushing", "idle", "checkpointing"}
  BY <1>1, <1>3 DEF OpReady
<1>5. Quiet(s, k)' /\ Committed(s)'
  BY <1>4 DEF Quiet, Committed, Opening
<1>6. ASSUME NEW id \in Ids \ untracked' PROVE InOrder(s, id)' /\ Values(s, k, id)'
  <2>1. InOrder(s, id) /\ Values(s, k, id)
    BY <1>3 DEF Core, Tracked
  <2> QED
    BY <1>1, <2>1, FlushValues
<1> QED
  BY <1>2, <1>5, <1>6 DEF Core, Tracked

\* requests about the index,
LEMMA IndexCore ==
  ASSUME NEW s, Services = {s}, NEW k, Kinds = {k}, WalTypeInv, RecInv, Core(s, k),
         \/ Build(s, k) \/ Save(s, k) \/ SaveOpen(s) \/ SaveWrite(s) \/ LoadStart(s, k)
         \/ LoadReplay(s) \/ SaveOrLoadFails(s) \/ Recycle(s)
  PROVE  Core(s, k)'
<1>1. Control(s) /\ Quiet(s, k)
  BY DEF Core
<1>2. Control(s)' /\ Quiet(s, k)' /\ Committed(s)'
  BY <1>1, IndexControl
<1>3. untracked \subseteq untracked'
  BY IndexStepStays
<1>4. ASSUME NEW id \in Ids \ untracked' PROVE InOrder(s, id)' /\ Values(s, k, id)'
  <2>1. InOrder(s, id) /\ Values(s, k, id)
    BY <1>3 DEF Core, Tracked
  <2> QED
    BY <1>1, <2>1, IndexValues
<1> QED
  BY <1>2, <1>4 DEF Core, Tracked

\* the end of a save,
LEMMA SaveEndCore ==
  ASSUME NEW s, Services = {s}, NEW k, WalTypeInv, RecInv, Core(s, k), SaveEnd(s)
  PROVE  Core(s, k)'
<1>1. OpReady /\ Control(s) /\ s \in Services
  BY DEF RecInv, Core
<1>2. Control(s)' /\ untracked' = untracked /\ pc'[s] = "idle"
  BY <1>1, SaveEndMoves DEF SaveEnd, excuses, OpReady
<1>3. Quiet(s, k)' /\ Committed(s)'
  BY <1>2 DEF Quiet, Committed, Opening
<1>4. \A id \in Tracked : InOrder(s, id)' /\ Values(s, k, id)'
  BY <1>1, SaveEndValues DEF Core, Tracked
<1> QED
  BY <1>2, <1>3, <1>4 DEF Core, Tracked

\* threads and checkpoints,
LEMMA BackgroundCore ==
  ASSUME NEW s, Services = {s}, NEW k, MaxSize = 0, WalTypeInv, RecInv, Core(s, k), Background
  PROVE  Core(s, k)'
<1>1. OpReady /\ Control(s) /\ Committed(s) /\ Quiet(s, k)
  BY DEF RecInv, Core
<1>2. UNCHANGED <<db, snapshot, draft, pc, op, untracked, diverged>>
  BY DEF Background, recVars, service, excuses
<1>3. Committed(s)'
  BY <1>1, <1>2 DEF Committed
<1>4. \A id \in Tracked : InOrder(s, id)' /\ Values(s, k, id)'
  BY <1>1, BackgroundValues DEF Core, Tracked
<1>5. ASSUME NEW i \in Instances, FlusherDrain(i) PROVE Control(s)'
  BY <1>1, <1>2, <1>5, FlusherDrainMoves
<1>6. ASSUME NEW t \in Threads, WriteLines(t) PROVE Control(s)'
  BY <1>1, <1>2, <1>6, WriteMoves
<1>7. ASSUME NEW t \in Threads, MaybeRotate(t) PROVE FALSE
  BY <1>1, <1>7 DEF MaybeRotate, Control
<1>8. ASSUME NEW i \in Instances, CheckpointOpen(i) \/ CheckpointMark(i) PROVE Control(s)'
  BY <1>1, <1>2, <1>8, CheckpointMoves
<1>9. Control(s)' /\ Quiet(s, k)'
  BY <1>1, <1>2, <1>5, <1>6, <1>7, <1>8 DEF Background, Quiet
<1> QED
  BY <1>2, <1>3, <1>4, <1>9 DEF Core, Tracked

\* crashes,
LEMMA CrashCore ==
  ASSUME NEW s, Services = {s}, NEW k \in Kinds, ~TornWrites, WalTypeInv, RecInv, Core(s, k), ProcessCrash
  PROVE  Core(s, k)'
<1>1. OpReady /\ Control(s) /\ s \in Services
  BY DEF RecInv, Core
<1>2. Control(s)'
  BY <1>1, CrashMoves
<1>3. pc'[s] = "idle" /\ untracked \subseteq untracked'
  BY <1>1 DEF ProcessCrash
<1>4. Quiet(s, k)' /\ Committed(s)'
  BY <1>3 DEF Quiet, Committed, Opening
<1>5. ASSUME NEW id \in Ids \ untracked' PROVE InOrder(s, id)' /\ Values(s, k, id)'
  <2>1. InOrder(s, id) /\ Values(s, k, id)
    BY <1>3 DEF Core, Tracked
  <2> QED
    BY <1>1, <2>1, CrashValues
<1> QED
  BY <1>2, <1>4, <1>5 DEF Core, Tracked

\* and no step at all.
LEMMA StutterCore ==
  ASSUME NEW s, Services = {s}, NEW k, WalTypeInv, Core(s, k), UNCHANGED allVars
  PROVE  Core(s, k)'
<1>1. UNCHANGED <<walVars, db, index, snapshot, pc, op, target, draft, untracked, diverged>>
  BY DEF allVars, recVars, service, excuses
<1>2. UNCHANGED <<clock, call, stamped, buffer, drained, file, torn, toRotate, cutoff>>
  BY <1>1 DEF walVars, walVolatile, walDisk
<1>3. Kept(s)
  BY <1>2 DEF Kept, Flushing, Calling, Buffered, Stamping
<1>4. Control(s)' /\ Quiet(s, k)' /\ Committed(s)'
  BY <1>1, <1>2, <1>3 DEF Core, Control, Quiet, Committed, Kept
<1>5. Typed(s)
  BY TypedLog DEF Core
<1>6. \A id : InOrder(s, id) => InOrder(s, id)'
  BY <1>2, <1>3, <1>5, KeptInOrder
<1>7. ASSUME NEW id, Values(s, k, id) PROVE Values(s, k, id)'
  <2>1. Of(s, id)' = Of(s, id)
    BY <1>1, OfStays
  <2>2. (Unstamped(s, id) => Unstamped(s, id)') /\ (Unapplied(s, id) => Unapplied(s, id)')
    BY <1>1 DEF Unstamped, Unapplied
  <2> QED
    BY <1>1, <1>2, <1>7, <2>1, <2>2, RowStays
<1> QED
  BY <1>1, <1>4, <1>6, <1>7 DEF Core, Tracked

\* Every step.
LEMMA CoreStep ==
  ASSUME NEW s, Services = {s}, NEW k, Kinds = {k}, MaxSize = 0, ~TornWrites,
         WalTypeInv, RecInv, Core(s, k), [Next]_allVars
  PROVE  Core(s, k)'
<1>1. CASE Background \/ ProcessCrash \/ UNCHANGED allVars
  BY <1>1, BackgroundCore, CrashCore, StutterCore
<1>2. ASSUME NEW i \in Ids, NEW v \in Vals,
             \/ Create(s, i, v) \/ Recreate(s, i, v) \/ BatchCreate(s, i, v) \/ UpdateMetadata(s, i, v)
             \/ BatchCreateUnindexed(s, i, v) \/ RewriteVector(s, i, v)
      PROVE  Core(s, k)'
  BY <1>2, WritingCore, CommitOnlyCore
<1>3. ASSUME NEW i \in Ids, Delete(s, i) PROVE Core(s, k)'
  BY <1>3, WritingCore
<1>4. CASE LogStart(s) \/ LogEnd(s) \/ BatchFlush(s) \/ BatchEnd(s) \/ SaveCheckpoint(s) \/ SaveEnd(s)
  BY <1>4, LoggingCore, FlushCore, SaveEndCore
<1>5. CASE \/ Build(s, k) \/ Save(s, k) \/ SaveOpen(s) \/ SaveWrite(s) \/ LoadStart(s, k)
           \/ LoadReplay(s) \/ SaveOrLoadFails(s) \/ Recycle(s)
  BY <1>5, IndexCore
<1>8. CASE RequestFails(s)
  BY <1>8, RequestFailsCore
<1>6. \A r \in Services : r = s
  OBVIOUS
<1>7. \A m \in Kinds : m = k
  OBVIOUS
<1> QED
  BY <1>1, <1>2, <1>3, <1>4, <1>5, <1>6, <1>7, <1>8 DEF Next

\* The invariant of the composition.
Agreeing(s, k) == WalTypeInv /\ RecInv /\ Core(s, k)

\* The invariant holds.
LEMMA AgreeingAlways ==
  ASSUME NEW CONSTANT s, Services = {s}, NEW CONSTANT k, Kinds = {k}, MaxSize = 0, ~TornWrites
  PROVE  Spec => []Agreeing(s, k)
<1>1. Init => Agreeing(s, k)
  BY WalTypeInit, RecInit, CoreInit DEF Agreeing, Init
<1>2. Agreeing(s, k) /\ [Next]_allVars => Agreeing(s, k)'
  <2> SUFFICES ASSUME Agreeing(s, k), [Next]_allVars PROVE Agreeing(s, k)'
    OBVIOUS
  <2>1. WalTypeInv /\ RecInv /\ Core(s, k) /\ OpReady /\ file \in Seq(Entry)
    BY DEF Agreeing, RecInv, Core, Control
  <2>2. WalTypeInv'
    BY <2>1, StepsAreWalSteps, WalTypeStep
  <2>3. RecInv'
    BY <2>1, RecStep
  <2>4. Core(s, k)'
    BY <2>1, CoreStep
  <2> QED
    BY <2>2, <2>3, <2>4 DEF Agreeing
<1> QED
  BY <1>1, <1>2, PTL DEF Spec

\* With one service of vector_service.py at work, an index file and the log recover the
\* table (hnsw_database.py:200 and :233): whatever was requested, in whatever order the
\* entries were buffered, drained and written, through every checkpoint and crash, and
\* whatever requests, saves and loads failed, for all ids and values.
THEOREM DiskRecovers ==
  ASSUME NEW CONSTANT s, Services = {s}, NEW CONSTANT k, Kinds = {k}, MaxSize = 0, ~TornWrites
  PROVE  Spec => []DiskRecoversDb
<1>1. Agreeing(s, k) => DiskRecoversDb
  <2> SUFFICES ASSUME Agreeing(s, k), Loaded(snapshot[k]),
                      NEW id \in Tracked \ (diverged \cup InProgress \cup Waiting)
               PROVE  Recovered(snapshot[k])[id] = db[id]
    BY DEF DiskRecoversDb
  <2>1. Control(s) /\ OpReady /\ RecTypes /\ Typed(s) /\ id \in Ids /\ k \in Kinds
    BY TypedLog DEF Agreeing, RecInv, Core, Tracked
  <2>2. InOrder(s, id) /\ Values(s, k, id)
    BY DEF Agreeing, Core
  <2>3. Without(Held(s), id) /\ ~Unstamped(s, id)
    BY <2>1, FreeId
  <2>4. cutoff \in Nat
    BY DEF Agreeing, WalTypeInv, WalTypeOK
  <2>5. Agree(Recovered(snapshot[k])[id], db[id], id \notin diverged)
    BY <2>1, <2>2, <2>3, <2>4, ReplayAgrees
  <2> QED
    BY <2>5 DEF Agree
<1> QED
  BY <1>1, AgreeingAlways, PTL

\* The index a service has between two requests, built, loaded and replayed or kept up
\* by its own requests, has the rows of the table, for every id whose changes it got.
THEOREM LoadedIndexAgrees ==
  ASSUME NEW CONSTANT s, Services = {s}, NEW CONSTANT k, Kinds = {k}, MaxSize = 0, ~TornWrites
  PROVE  Spec => []LoadedIndexMatchesDb
<1>1. Agreeing(s, k) => LoadedIndexMatchesDb
  <2> SUFFICES ASSUME Agreeing(s, k), Loaded(index[s][k]), pc[s] = "idle", NEW id \in Tracked
               PROVE  /\ index[s][k][id] = Absent <=> db[id] = Absent
                      /\ id \notin diverged => index[s][k][id] = db[id]
    BY DEF LoadedIndexMatchesDb
  <2>1. Values(s, k, id) /\ ~Unapplied(s, id)
    BY NothingOpen DEF Agreeing, Core, Opening
  <2>2. Agree(index[s][k][id], db[id], id \notin diverged)
    BY <2>1 DEF Values, IndexAgrees
  <2> QED
    BY <2>2 DEF Agree
<1> QED
  BY <1>1, AgreeingAlways, PTL
=============================================================================
