-------------------------- MODULE MultilevelCache --------------------------
(***************************************************************************)
(* The three-level cache, services/multilevel_cache.py: a bounded LRU      *)
(* dictionary (L1), a bounded set of files (L2) and a bucket of an object  *)
(* store (L3, external).  The levels have locks of their own and the files *)
(* and the bucket have none, so a call is several steps, and the eviction  *)
(* a call causes works on the key of another call.  Disk writes and the    *)
(* object store may fail, and a file may not read back; the code goes on.  *)
(***************************************************************************)
EXTENDS Integers, Sequences, SequencesExt, FiniteSets

CONSTANTS
  Keys,
  Clients,   \* threads that share the cache
  MaxL1,     \* capacities
  MaxL2,
  MaxPuts,   \* bound: puts in a behaviour; a value is the number of its put
  MaxBoots,  \* bound: restarts in a behaviour
  Opaque,    \* values whose file reads as a miss: None; with dim, JSON not of a multiple of 4 bytes
  NoKey

ASSUME CacheAssumption ==
  /\ MaxL1 \in Nat \ {0} /\ MaxL2 \in Nat \ {0} /\ MaxPuts \in Nat /\ MaxBoots \in Nat
  /\ Opaque \subseteq Nat
  /\ NoKey \notin Keys \cup Clients

VARIABLES
  l1,       \* _l1: entries, the least recently used first
  l2keys,   \* _l2_keys, the oldest first
  l2owner,  \* the client that holds _l2_lock, or NoKey
  files,    \* files[k]: content of k's file, 0 when there is none
  l3,       \* l3[k]: content of k's object, 0 when there is none
  cacheCall, \* cacheCall[c]: the call client c is in and how far it is
  puts,     \* puts so far
  boots,    \* restarts so far
  newest,   \* history: newest[k], the last value put and not deleted since
  doubtful  \* history: keys that met a failure, a race, a clear that missed a copy, or an
            \* opaque value over an older object

cacheVars == <<l1, l2keys, l2owner, files, l3, cacheCall, puts, boots, newest, doubtful>>

Idle == [op |-> "none", key |-> NoKey, val |-> 0, pc |-> "idle", victim |-> NoKey]

CacheInit ==
  /\ l1 = <<>> /\ l2keys = <<>> /\ l2owner = NoKey
  /\ files = [k \in Keys |-> 0] /\ l3 = [k \in Keys |-> 0]
  /\ cacheCall = [c \in Clients |-> Idle]
  /\ puts = 0 /\ boots = 0 /\ newest = [k \in Keys |-> 0] /\ doubtful = {}

\* A key is at most once in a level.
Without(s, k) == RemoveFirstMatch(s, LAMBDA e : e.key = k)
InL1(k) == \E i \in DOMAIN l1 : l1[i].key = k
L1Value(k) == LET i == CHOOSE i \in DOMAIN l1 : l1[i].key = k IN l1[i].val
Readable(k) == files[k] \notin Opaque \cup {0}
At(c, pc) == cacheCall[c].pc = pc
GoOn(c, pc) == cacheCall' = [cacheCall EXCEPT ![c].pc = pc]
Finish(c) == cacheCall' = [cacheCall EXCEPT ![c] = Idle]

\* The calls on a key that run beside client c's.
Beside(c, k) == {d \in Clients \ {c} : cacheCall[d].key = k \/ cacheCall[d].op = "clear"}

\* Two calls on a key may leave levels that disagree, unless both only read.
Begin(c, op, k, val, pc) ==
  /\ cacheCall[c] = Idle
  /\ cacheCall' = [cacheCall EXCEPT ![c] = [op |-> op, key |-> k, val |-> val, pc |-> pc,
                                            victim |-> NoKey]]
  /\ doubtful' = doubtful \cup
       {j \in Keys : (j = k \/ op = "clear")
                     /\ \E d \in Beside(c, j) : op # "get" \/ cacheCall[d].op # "get"}

-----------------------------------------------------------------------------
(* The calls *)

Get(c, k) ==
  /\ ~InL1(k)
  /\ Begin(c, "get", k, 0, "readFile")
  /\ UNCHANGED <<l1, l2keys, l2owner, files, l3, puts, boots, newest>>

GetHit(c, k) ==
  /\ cacheCall[c] = Idle /\ InL1(k)
  /\ l1' = Append(Without(l1, k), [key |-> k, val |-> L1Value(k)])
  /\ UNCHANGED <<l2keys, l2owner, files, l3, cacheCall, puts, boots, newest, doubtful>>

Put(c, k) ==
  /\ puts < MaxPuts
  /\ puts' = puts + 1
  /\ newest' = [newest EXCEPT ![k] = puts + 1]
  /\ Begin(c, "put", k, puts + 1, "promote")
  /\ UNCHANGED <<l1, l2keys, l2owner, files, l3, boots>>

\* delete() and clear() first empty their part of L1.
Delete(c, k) ==
  /\ Begin(c, "delete", k, 0, "untrack")
  /\ l1' = Without(l1, k)
  /\ newest' = [newest EXCEPT ![k] = 0]
  /\ UNCHANGED <<l2keys, l2owner, files, l3, puts, boots>>

Clear(c) ==
  /\ Begin(c, "clear", NoKey, 0, "clearFiles")
  /\ l1' = <<>>
  /\ newest' = [k \in Keys |-> 0]
  /\ UNCHANGED <<l2keys, l2owner, files, l3, puts, boots>>

-----------------------------------------------------------------------------
(* Levels *)

\* _promote_to_l1: what it evicts is only dropped.  The last step of a get, the first of a put.
Promote(c) ==
  LET k == cacheCall[c].key
      s == Append(Without(l1, k), [key |-> k, val |-> cacheCall[c].val])
  IN /\ At(c, "promote")
     /\ l1' = IF Len(s) > MaxL1 THEN Tail(s) ELSE s
     /\ IF cacheCall[c].op = "get" THEN Finish(c) ELSE GoOn(c, "writeFile")
     /\ UNCHANGED <<l2keys, l2owner, files, l3, puts, boots, newest, doubtful>>

\* A file that cannot be read or decoded is a miss, and what L3 then serves may be older.
ReadFile(c) ==
  LET k == cacheCall[c].key
  IN /\ At(c, "readFile")
     /\ \/ /\ Readable(k)
           /\ cacheCall' = [cacheCall EXCEPT ![c].val = files[k], ![c].pc = "promote"]
           /\ UNCHANGED doubtful
        \/ /\ GoOn(c, "readObject")
           /\ doubtful' = (IF files[k] = 0 \/ l3[k] \in {0, files[k]} THEN doubtful
                           ELSE doubtful \cup {k})
     /\ UNCHANGED <<l1, l2keys, l2owner, files, l3, puts, boots, newest>>

\* A failing object store reads as a miss.
ReadObject(c) ==
  LET v == l3[cacheCall[c].key]
  IN /\ At(c, "readObject")
     /\ \/ v # 0 /\ cacheCall' = [cacheCall EXCEPT ![c].val = v, ![c].pc = "writeFile"]
        \/ Finish(c)
     /\ UNCHANGED <<l1, l2keys, l2owner, files, l3, puts, boots, newest, doubtful>>

AfterFile(c) == IF cacheCall[c].op = "get" THEN GoOn(c, "promote") ELSE Finish(c)

\* Buggy variant: a file that is there is not written again.
WriteFileOnce(c) ==
  LET k == cacheCall[c].key
  IN /\ At(c, "writeFile")
     /\ \/ /\ files' = [files EXCEPT ![k] = IF @ = 0 THEN cacheCall[c].val ELSE @]
           /\ GoOn(c, "track") /\ UNCHANGED doubtful
        \/ /\ AfterFile(c) /\ doubtful' = doubtful \cup {k}
           /\ UNCHANGED files
     /\ UNCHANGED <<l1, l2keys, l2owner, l3, puts, boots, newest>>

\* _l2_put writes and renames a temporary file; when that fails the key is not tracked
\* and its old file stays.  A directory that cannot be made raises out of the call.
WriteFile(c) ==
  LET k == cacheCall[c].key
      hides == cacheCall[c].val \in Opaque /\ l3[k] \notin {0, cacheCall[c].val}
  IN /\ At(c, "writeFile")
     /\ \/ /\ files' = [files EXCEPT ![k] = cacheCall[c].val]
           /\ GoOn(c, "track")
           /\ doubtful' = IF hides THEN doubtful \cup {k} ELSE doubtful
        \/ /\ AfterFile(c) \/ Finish(c)
           /\ doubtful' = doubtful \cup {k}
           /\ UNCHANGED files
     /\ UNCHANGED <<l1, l2keys, l2owner, l3, puts, boots, newest>>

\* With too many files the oldest goes: the lock is held while it is moved to L3.
Track(c) ==
  LET k == cacheCall[c].key
      s == Append(RemoveFirst(l2keys, k), k)
  IN /\ At(c, "track") /\ l2owner = NoKey
     /\ IF Len(s) <= MaxL2 THEN l2keys' = s /\ AfterFile(c) /\ UNCHANGED l2owner
        ELSE /\ l2keys' = Tail(s) /\ l2owner' = c
             /\ cacheCall' = [cacheCall EXCEPT ![c].pc = "demote", ![c].victim = Head(s)]
     /\ UNCHANGED <<l1, files, l3, puts, boots, newest, doubtful>>

\* When the file does not read back or the object store refuses the copy, what the store
\* holds may be older.
Demote(c) ==
  LET k == cacheCall[c].victim
  IN /\ At(c, "demote")
     /\ \/ /\ Readable(k)
           /\ l3' = [l3 EXCEPT ![k] = files[k]] /\ UNCHANGED doubtful
        \/ /\ doubtful' = (IF files[k] = 0 \/ l3[k] \in {0, files[k]} THEN doubtful
                           ELSE doubtful \cup {k})
           /\ UNCHANGED l3
     /\ GoOn(c, "evict")
     /\ UNCHANGED <<l1, l2keys, l2owner, files, puts, boots, newest>>

\* Buggy variant: the file stays.
EvictKeepsFile(c) ==
  /\ At(c, "evict")
  /\ l2owner' = NoKey
  /\ AfterFile(c)
  /\ UNCHANGED <<l1, l2keys, files, l3, puts, boots, newest, doubtful>>

\* _l2_delete_file: a file that cannot be removed stays, untracked and readable.
RemoveFile(k, raced) ==
  \/ /\ files' = [files EXCEPT ![k] = 0]
     /\ doubtful' = IF raced THEN doubtful \cup {k} ELSE doubtful
  \/ /\ files[k] # 0 /\ UNCHANGED files
     /\ doubtful' = doubtful \cup {k}

\* A put of the victim may have replaced the file since it was copied.
EvictFile(c) ==
  LET k == cacheCall[c].victim
  IN /\ At(c, "evict")
     /\ RemoveFile(k, \E d \in Beside(c, k) : cacheCall[d].op # "get")
     /\ l2owner' = NoKey
     /\ AfterFile(c)
     /\ UNCHANGED <<l1, l2keys, l3, puts, boots, newest>>

\* _l2_delete
Untrack(c) ==
  /\ At(c, "untrack") /\ l2owner = NoKey
  /\ l2keys' = RemoveFirst(l2keys, cacheCall[c].key)
  /\ GoOn(c, "unlink")
  /\ UNCHANGED <<l1, l2owner, files, l3, puts, boots, newest, doubtful>>

Unlink(c) ==
  /\ At(c, "unlink")
  /\ RemoveFile(cacheCall[c].key, FALSE)
  /\ GoOn(c, "deleteObject")
  /\ UNCHANGED <<l1, l2keys, l2owner, l3, puts, boots, newest>>

DeleteObject(c) ==
  LET k == cacheCall[c].key
  IN /\ At(c, "deleteObject")
     /\ \/ l3' = [l3 EXCEPT ![k] = 0] /\ UNCHANGED doubtful
        \/ doubtful' = (IF l3[k] = 0 THEN doubtful ELSE doubtful \cup {k}) /\ UNCHANGED l3
     /\ Finish(c)
     /\ UNCHANGED <<l1, l2keys, l2owner, files, puts, boots, newest>>

\* clear() removes the files it knows of, those it can, and no objects.
ClearFiles(c) ==
  /\ At(c, "clearFiles") /\ l2owner = NoKey
  /\ \E gone \in SUBSET ToSet(l2keys) :
       /\ files' = [k \in Keys |-> IF k \in gone THEN 0 ELSE files[k]]
       /\ doubtful' = doubtful \cup {k \in Keys : files'[k] # 0 \/ l3[k] # 0}
  /\ l2keys' = <<>>
  /\ Finish(c)
  /\ UNCHANGED <<l1, l2owner, l3, puts, boots, newest>>

\* A new process has an empty L1 and tracks none of the files that are there.
Boot ==
  /\ boots < MaxBoots
  /\ boots' = boots + 1
  /\ l1' = <<>> /\ l2keys' = <<>> /\ l2owner' = NoKey
  /\ cacheCall' = [c \in Clients |-> Idle]
  /\ doubtful' = doubtful \cup
       (({cacheCall[c].key : c \in Clients} \cup {cacheCall[c].victim : c \in Clients}) \ {NoKey})
       \cup (IF \E c \in Clients : cacheCall[c].op = "clear" THEN Keys ELSE {})
  /\ UNCHANGED <<files, l3, puts, newest>>

CacheStep(c) ==
  \/ Promote(c) \/ ReadFile(c) \/ ReadObject(c) \/ WriteFile(c) \/ Track(c) \/ Demote(c)
  \/ EvictFile(c) \/ Untrack(c) \/ Unlink(c) \/ DeleteObject(c) \/ ClearFiles(c)

CacheNext ==
  \/ \E c \in Clients, k \in Keys : Get(c, k) \/ GetHit(c, k) \/ Put(c, k) \/ Delete(c, k)
  \/ \E c \in Clients : Clear(c) \/ CacheStep(c)
  \/ Boot

CacheSpec == CacheInit /\ [][CacheNext]_cacheVars

-----------------------------------------------------------------------------
(* Properties *)

\* What a get that nobody disturbs would return.
Served(k) == IF InL1(k) THEN L1Value(k) ELSE IF Readable(k) THEN files[k] ELSE l3[k]
Busy(k) == \E c \in Clients : cacheCall[c].key = k \/ cacheCall[c].op = "clear"

\* The levels never bring back an old value: a key nobody works on is served with what was
\* put last, or not at all, unless it met one of the failures and races in doubtful.
CacheServesNewest ==
  \A k \in Keys \ doubtful : ~Busy(k) => Served(k) \in {0, newest[k]}

\* Every file is one the eviction can find, or the code forgot it in a restart or after
\* a failure: otherwise the disk would fill beyond max_l2.
CacheFilesTracked ==
  /\ Len(l1) <= MaxL1
  /\ boots = 0 =>
       \A k \in Keys \ doubtful :
         files[k] # 0 => Busy(k) \/ k \in ToSet(l2keys)
                         \/ \E c \in Clients : cacheCall[c].victim = k
=============================================================================
