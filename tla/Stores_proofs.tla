--------------------------- MODULE Stores_proofs ----------------------------
(***************************************************************************)
(* Proofs about the parts that keep files of their own, for any number of  *)
(* threads, keys, items, events, snapshots, failures and restarts:         *)
(* MultilevelCache never brings an old value back, PitrSnapshots restores  *)
(* what it snapshot, RealtimeConnector ingests nothing twice, AuditLog     *)
(* loses no event silently.  Lemmas about lists come first.                *)
(***************************************************************************)
EXTENDS MultilevelCache, PitrSnapshots, RealtimeConnector, AuditLog,
        SequenceTheorems, FiniteSetTheorems, TLAPS

-----------------------------------------------------------------------------
(* Lists without repetition: an element leaves, is appended, or the first one goes. *)

NoRepeat(s) == \A i, j \in DOMAIN s : s[i] = s[j] => i = j

\* What is left of a list when its i-th element goes.
LEMMA RemovedAt ==
  ASSUME NEW S, NEW s \in Seq(S), NEW i \in DOMAIN s
  PROVE  /\ RemoveAt(s, i) \in Seq(S) /\ Len(RemoveAt(s, i)) = Len(s) - 1
         /\ \A j \in 1 .. Len(s) - 1 : RemoveAt(s, i)[j] = s[IF j < i THEN j ELSE j + 1]
<1> DEFINE front == SubSeq(s, 1, i - 1)  back == SubSeq(s, i + 1, Len(s))
<1>1. /\ i \in 1 .. Len(s) /\ Len(s) \in Nat
  OBVIOUS
<1>2. front \in Seq(S) /\ Len(front) = i - 1 /\ \A j \in 1 .. i - 1 : front[j] = s[j]
  BY <1>1
<1>3. back \in Seq(S) /\ Len(back) = Len(s) - i /\ \A j \in 1 .. Len(s) - i : back[j] = s[i + j]
  BY <1>1
<1>4. RemoveAt(s, i) = front \o back
  BY DEF RemoveAt
<1> HIDE DEF front, back
<1>7. \A j \in 1 .. Len(front) + Len(back) :
        (front \o back)[j] = IF j <= Len(front) THEN front[j] ELSE back[j - Len(front)]
  BY <1>2, <1>3, ConcatProperties
<1>5. front \o back \in Seq(S) /\ Len(front \o back) = Len(s) - 1
  BY <1>1, <1>2, <1>3
<1>6. ASSUME NEW j \in 1 .. Len(s) - 1 PROVE (front \o back)[j] = s[IF j < i THEN j ELSE j + 1]
  <2>1. CASE j < i
    BY <1>1, <1>2, <1>3, <2>1
  <2>2. CASE ~(j < i)
    <3>1. j - (i - 1) \in 1 .. Len(s) - i
      BY <1>1, <2>2
    <3>3. j \in 1 .. Len(front) + Len(back) /\ ~(j <= Len(front))
      BY <1>1, <1>2, <1>3, <2>2
    <3>4. (front \o back)[j] = back[j - Len(front)]
      BY <1>7, <3>3
    <3>2. i + (j - (i - 1)) = j + 1
      BY <1>1
    <3> QED
      BY <1>2, <1>3, <2>2, <3>1, <3>2, <3>4
  <2> QED
    BY <2>1, <2>2
<1> QED
  BY <1>4, <1>5, <1>6

\* A list without repetition that loses one element.
OneLess(r, s, i) ==
  /\ \A j \in DOMAIN r : \E n \in DOMAIN s : n # i /\ r[j] = s[n]
  /\ \A n \in DOMAIN s : n # i => \E j \in DOMAIN r : r[j] = s[n]
  /\ \A j, m \in DOMAIN r : j # m => \E n, o \in DOMAIN s : n # o /\ r[j] = s[n] /\ r[m] = s[o]

LEMMA LosesOne ==
  ASSUME NEW S, NEW s \in Seq(S), NEW i \in DOMAIN s
  PROVE  OneLess(RemoveAt(s, i), s, i)
<1> DEFINE r == RemoveAt(s, i)
<1>1. /\ r \in Seq(S) /\ Len(r) = Len(s) - 1 /\ Len(s) \in Nat /\ i \in 1 .. Len(s)
      /\ \A j \in 1 .. Len(s) - 1 : r[j] = s[IF j < i THEN j ELSE j + 1]
  <2>1. /\ RemoveAt(s, i) \in Seq(S) /\ Len(RemoveAt(s, i)) = Len(s) - 1
        /\ \A j \in 1 .. Len(s) - 1 : RemoveAt(s, i)[j] = s[IF j < i THEN j ELSE j + 1]
    BY RemovedAt, Zenon
  <2>2. Len(s) \in Nat /\ i \in 1 .. Len(s)
    OBVIOUS
  <2> QED
    BY <2>1, <2>2
<1> HIDE DEF r
<1>2. DOMAIN r = 1 .. Len(s) - 1 /\ DOMAIN s = 1 .. Len(s)
  BY <1>1
<1>3. ASSUME NEW j \in DOMAIN r PROVE \E n \in DOMAIN s : n # i /\ r[j] = s[n]
  <2>1. (IF j < i THEN j ELSE j + 1) \in DOMAIN s \ {i}
    BY <1>1, <1>2
  <2> QED
    BY <1>1, <1>2, <2>1
<1>4. ASSUME NEW n \in DOMAIN s, n # i PROVE \E j \in DOMAIN r : r[j] = s[n]
  <2>1. CASE n < i
    BY <1>1, <1>2, <2>1
  <2>2. CASE n > i
    <3>1. n - 1 \in DOMAIN r /\ ~(n - 1 < i) /\ (n - 1) + 1 = n
      BY <1>1, <1>2, <2>2
    <3> QED
      BY <1>1, <1>2, <3>1
  <2> QED
    BY <1>1, <1>2, <1>4, <2>1, <2>2
<1>5. ASSUME NEW j \in DOMAIN r, NEW m \in DOMAIN r, j # m
      PROVE  \E n, o \in DOMAIN s : n # o /\ r[j] = s[n] /\ r[m] = s[o]
  <2> DEFINE at(x) == IF x < i THEN x ELSE x + 1
  <2>1. at(j) \in DOMAIN s /\ at(m) \in DOMAIN s /\ at(j) # at(m)
    BY <1>1, <1>2, <1>5
  <2>2. r[j] = s[at(j)] /\ r[m] = s[at(m)]
    BY <1>1, <1>2
  <2> QED
    BY <2>1, <2>2
<1> QED
  BY <1>3, <1>4, <1>5 DEF OneLess, r

\* A set of one number, whose smallest is that number.
LEMMA MinOfOne ==
  ASSUME NEW i \in Nat
  PROVE  Min({i}) = i
  BY DEF Min

\* An element that is taken off a list without repetition.
LEMMA FirstRemoved ==
  ASSUME NEW S, NEW s \in Seq(S), NEW k, NoRepeat(s)
  PROVE  /\ RemoveFirst(s, k) \in Seq(S) /\ NoRepeat(RemoveFirst(s, k))
         /\ ToSet(RemoveFirst(s, k)) = ToSet(s) \ {k}
<1>1. CASE \E i \in 1 .. Len(s) : s[i] = k
  <2>1. PICK i \in DOMAIN s : s[i] = k
    BY <1>1
  <2>2. {j \in 1 .. Len(s) : s[j] = k} = {i} /\ i \in Nat
    BY <2>1 DEF NoRepeat
  <2>3. RemoveFirst(s, k) = RemoveAt(s, i)
    BY <1>1, <2>2, MinOfOne DEF RemoveFirst, SelectInSeq
  <2>4. RemoveAt(s, i) \in Seq(S) /\ OneLess(RemoveAt(s, i), s, i)
    BY RemovedAt, LosesOne
  <2>5. NoRepeat(RemoveAt(s, i)) /\ ToSet(RemoveAt(s, i)) = ToSet(s) \ {k}
    BY <2>1, <2>4 DEF OneLess, NoRepeat, ToSet
  <2> QED
    BY <2>3, <2>4, <2>5
<1>2. CASE ~\E i \in 1 .. Len(s) : s[i] = k
  BY <1>2 DEF RemoveFirst, ToSet
<1> QED
  BY <1>1, <1>2

\* An element that is put at the end.
LEMMA Appended ==
  ASSUME NEW S, NEW s \in Seq(S), NEW k \in S
  PROVE  /\ Append(s, k) \in Seq(S) /\ Append(s, k) # <<>> /\ ToSet(Append(s, k)) = ToSet(s) \cup {k}
         /\ NoRepeat(s) /\ k \notin ToSet(s) => NoRepeat(Append(s, k))
<1> DEFINE a == Append(s, k)
<1>1. /\ a \in Seq(S) /\ Len(a) = Len(s) + 1 /\ a[Len(s) + 1] = k /\ \A i \in 1 .. Len(s) : a[i] = s[i]
  BY AppendProperties
<1> HIDE DEF a
<1>2. DOMAIN s = 1 .. Len(s) /\ DOMAIN a = 1 .. Len(s) + 1 /\ Len(s) \in Nat
  BY <1>1
<1>3. ToSet(a) = ToSet(s) \cup {k}
  BY <1>1, <1>2 DEF ToSet
<1>4. ASSUME NoRepeat(s), k \notin ToSet(s) PROVE NoRepeat(a)
  <2>1. \A i \in DOMAIN s : s[i] # k
    BY <1>4 DEF ToSet
  <2> QED
    BY <1>1, <1>2, <1>4, <2>1 DEF NoRepeat
<1>5. a # <<>>
  BY <1>1, <1>2
<1> QED
  BY <1>1, <1>3, <1>4, <1>5 DEF a

\* A list that loses its first element.
LEMMA Shortened ==
  ASSUME NEW S, NEW s \in Seq(S), s # <<>>
  PROVE  /\ Head(s) \in S /\ Tail(s) \in Seq(S) /\ ToSet(s) = ToSet(Tail(s)) \cup {Head(s)}
         /\ NoRepeat(s) => NoRepeat(Tail(s)) /\ Head(s) \notin ToSet(Tail(s))
<1>1. /\ Len(s) \in Nat \ {0} /\ DOMAIN s = 1 .. Len(s) /\ Head(s) = s[1]
      /\ Tail(s) \in Seq(S) /\ Len(Tail(s)) = Len(s) - 1
      /\ \A i \in 1 .. Len(s) - 1 : Tail(s)[i] = s[i + 1]
  OBVIOUS
<1>2. DOMAIN Tail(s) = 1 .. Len(s) - 1
  BY <1>1
<1>3. ASSUME NoRepeat(s) PROVE NoRepeat(Tail(s)) /\ Head(s) \notin ToSet(Tail(s))
  BY <1>1, <1>2, <1>3 DEF NoRepeat, ToSet
<1>4. ASSUME NEW i \in DOMAIN s, i # 1 PROVE s[i] \in ToSet(Tail(s))
  <2>1. i - 1 \in DOMAIN Tail(s) /\ Tail(s)[i - 1] = s[(i - 1) + 1] /\ (i - 1) + 1 = i
    BY <1>1, <1>2, <1>4
  <2> QED
    BY <2>1 DEF ToSet
<1>5. ToSet(Tail(s)) \subseteq ToSet(s)
  BY <1>1, <1>2 DEF ToSet
<1>6. ToSet(s) = ToSet(Tail(s)) \cup {Head(s)}
  BY <1>1, <1>4, <1>5 DEF ToSet
<1> QED
  BY <1>1, <1>3, <1>6

\* Something put at the end of the second of two lists is put at the end of both.
LEMMA AppendedAfter ==
  ASSUME NEW S, NEW s \in Seq(S), NEW t \in Seq(S), NEW k \in S
  PROVE  s \o Append(t, k) = Append(s \o t, k)
<1>1. Append(t, k) = t \o <<k>> /\ <<k>> \in Seq(S)
  BY AppendIsConcat
<1>2. (s \o t) \o <<k>> = s \o (t \o <<k>>)
  BY <1>1, ConcatAssociative
<1>3. s \o t \in Seq(S)
  OBVIOUS
<1>4. Append(s \o t, k) = (s \o t) \o <<k>>
  BY <1>3, AppendIsConcat
<1> QED
  BY <1>1, <1>2, <1>4

\* The first element of a list that moves to the end of the one before it.
LEMMA MovedOver ==
  ASSUME NEW S, NEW s \in Seq(S), NEW t \in Seq(S), t # <<>>
  PROVE  Append(s, Head(t)) \o Tail(t) = s \o t
<1>1. Head(t) \in S /\ Tail(t) \in Seq(S) /\ <<Head(t)>> \in Seq(S)
  BY HeadTailProperties
<1>2. Append(s, Head(t)) = s \o <<Head(t)>>
  BY <1>1, AppendIsConcat
<1>3. (s \o <<Head(t)>>) \o Tail(t) = s \o (<<Head(t)>> \o Tail(t))
  BY <1>1, ConcatAssociative
<1>4. <<Head(t)>> \o Tail(t) = t
  <2> DEFINE u == <<Head(t)>> \o Tail(t)
  <2>1. Len(t) \in Nat \ {0} /\ Len(Tail(t)) = Len(t) - 1 /\ Head(t) = t[1]
        /\ \A i \in 1 .. Len(t) - 1 : Tail(t)[i] = t[i + 1]
    BY HeadTailProperties
  <2>2. u \in Seq(S) /\ Len(u) = 1 + Len(Tail(t))
        /\ \A i \in 1 .. 1 + Len(Tail(t)) : u[i] = IF i <= 1 THEN <<Head(t)>>[i] ELSE Tail(t)[i - 1]
    BY <1>1, ConcatProperties
  <2> HIDE DEF u
  <2>3. Len(u) = Len(t)
    BY <2>1, <2>2
  <2>4. ASSUME NEW i \in 1 .. Len(u) PROVE u[i] = t[i]
    <3>1. CASE i = 1
      BY <2>1, <2>2, <3>1
    <3>2. CASE i > 1
      <4>1. i - 1 \in 1 .. Len(t) - 1 /\ i \in 1 .. 1 + Len(Tail(t))
        BY <2>1, <2>3, <2>4, <3>2
      <4>2. u[i] = Tail(t)[i - 1]
        BY <2>2, <3>2, <4>1
      <4> QED
        BY <2>1, <4>1, <4>2
    <3> QED
      BY <2>1, <2>3, <3>1, <3>2
  <2>5. u = t
    BY <2>2, <2>3, <2>4, SeqEqual
  <2> QED
    BY <2>5 DEF u
<1> QED
  BY <1>2, <1>3, <1>4

\* How often a list without repetition holds a number.
LEMMA HeldOnce ==
  ASSUME NEW S, NEW s \in Seq(S), NEW k, NoRepeat(s)
  PROVE  Cardinality({i \in DOMAIN s : s[i] = k}) = IF k \in ToSet(s) THEN 1 ELSE 0
<1>1. CASE k \in ToSet(s)
  <2>1. PICK i \in DOMAIN s : s[i] = k
    BY <1>1 DEF ToSet
  <2>2. {j \in DOMAIN s : s[j] = k} = {i}
    BY <2>1 DEF NoRepeat
  <2> QED
    BY <1>1, <2>2, FS_Singleton
<1>2. CASE k \notin ToSet(s)
  <2>1. {j \in DOMAIN s : s[j] = k} = {}
    BY <1>2 DEF ToSet
  <2> QED
    BY <1>2, <2>1, FS_EmptySet
<1> QED
  BY <1>1, <1>2

-----------------------------------------------------------------------------
(***************************************************************************)
(* MultilevelCache: the inductive invariant.  The argument is per key:     *)
(* KeyServed says what every level may hold of a key that met no failure   *)
(* and no race, while calls on it are under way and between them.          *)
(***************************************************************************)

L1Entry == [key : Keys, val : Nat]
Evicting == {"demote", "evict"}
Deleting == {"untrack", "unlink", "deleteObject"}
CacheCallType ==
  [op : {"none", "get", "put", "delete", "clear"}, key : Keys \cup {NoKey}, val : Nat,
   pc : {"idle", "readFile", "readObject", "promote", "writeFile", "track", "clearFiles"}
          \cup Evicting \cup Deleting,
   victim : Keys \cup {NoKey}]

\* A list of entries that repeats no key.
EntriesOnce(s) == \A i, j \in DOMAIN s : s[i].key = s[j].key => i = j

CacheTypes ==
  /\ l1 \in Seq(L1Entry) /\ EntriesOnce(l1) /\ l2keys \in Seq(Keys) /\ NoRepeat(l2keys)
  /\ l2owner \in Clients \cup {NoKey} /\ Len(l1) <= MaxL1
  /\ files \in [Keys -> Nat] /\ l3 \in [Keys -> Nat] /\ newest \in [Keys -> Nat]
  /\ cacheCall \in [Clients -> CacheCallType]
  /\ puts \in Nat /\ boots \in Nat /\ doubtful \subseteq Keys

Evicts(c, k) == cacheCall[c].victim = k /\ cacheCall[c].pc \in Evicting

\* How a call goes: the key it has, and the lock it holds while it evicts.
CallShape(c) ==
  LET op == cacheCall[c].op
      pc == cacheCall[c].pc
  IN /\ op = "none" <=> pc = "idle"
     /\ op = "clear" <=> pc = "clearFiles"
     /\ op = "delete" <=> pc \in Deleting
     /\ pc \in {"readFile", "readObject"} => op = "get"
     /\ cacheCall[c].key = NoKey <=> op \in {"none", "clear"}
     /\ pc \in Evicting => cacheCall[c].victim \in Keys /\ l2owner = c

\* A file that is there is known, or a call will evict, track or unlink it.
Handles(c, k) ==
  Evicts(c, k) \/ (cacheCall[c].key = k /\ cacheCall[c].pc \in {"track", "unlink"})
FileKnown(k) ==
  files[k] # 0 => k \in ToSet(l2keys) \/ \E c \in Clients : Handles(c, k)

Concerns(c, k) == cacheCall[c].key = k \/ cacheCall[c].op = "clear"
Quiet(k) == \A c \in Clients : Concerns(c, k) => cacheCall[c].op = "get"
L1Newest(k) == \A i \in DOMAIN l1 : l1[i].key = k => l1[i].val = newest[k]
BelowNewest(k) ==
  files[k] \in {0, newest[k]} /\ (files[k] \in Opaque \cup {0} => l3[k] \in {0, newest[k]})

\* What is known of the key of a call, besides what is known of it between calls.
CallOn(c, k) ==
  /\ cacheCall[c].op = "get" =>
       IF cacheCall[c].pc = "readObject" THEN l3[k] \in {0, newest[k]}
       ELSE cacheCall[c].pc = "readFile" \/ cacheCall[c].val = newest[k]
  /\ cacheCall[c].op = "put" =>
       /\ cacheCall[c].val = newest[k] /\ newest[k] # 0
       /\ cacheCall[c].pc # "promote" => L1Newest(k)
       /\ cacheCall[c].pc \in {"track", "demote", "evict"} => BelowNewest(k)
  /\ cacheCall[c].op \in {"delete", "clear"} =>
       /\ newest[k] = 0 /\ ~InL1(k)
       /\ cacheCall[c].pc = "deleteObject" => files[k] = 0

\* A call on k that cannot end before the lock is free, or that removes k everywhere.
Overrules(c, k) ==
  /\ Concerns(c, k)
  /\ \/ cacheCall[c].op \in {"delete", "clear"}
     \/ cacheCall[c].op = "put" /\ cacheCall[c].pc \in {"promote", "writeFile", "track"}

\* A key that met no race and no failure.
KeyServed(k) ==
  /\ \A c, d \in Clients : c # d /\ Concerns(c, k) /\ Concerns(d, k) => cacheCall[c].op = "get"
  /\ Quiet(k) => L1Newest(k) /\ BelowNewest(k)
  /\ \A c \in Clients : Concerns(c, k) => CallOn(c, k)
  /\ \A c \in Clients : Evicts(c, k) /\ cacheCall[c].pc = "evict" =>
       l3[k] \in {0, newest[k]} \/ \E d \in Clients : Overrules(d, k)

CacheInv ==
  /\ CacheTypes
  /\ \A c \in Clients : CallShape(c)
  /\ \A k \in Keys \ doubtful : KeyServed(k) /\ (boots = 0 => FileKnown(k))

-----------------------------------------------------------------------------
(* Lists of keys. *)

\* A key taken off _l1.
LEMMA EntryRemoved ==
  ASSUME NEW s \in Seq(L1Entry), NEW k \in Keys, EntriesOnce(s)
  PROVE  /\ Without(s, k) \in Seq(L1Entry) /\ EntriesOnce(Without(s, k))
         /\ \A i \in DOMAIN Without(s, k) :
              Without(s, k)[i].key # k /\ \E j \in DOMAIN s : s[j] = Without(s, k)[i]
         /\ Len(Without(s, k)) = IF \E i \in DOMAIN s : s[i].key = k THEN Len(s) - 1 ELSE Len(s)
<1>1. CASE \E i \in 1 .. Len(s) : s[i].key = k
  <2>1. PICK i \in DOMAIN s : s[i].key = k
    BY <1>1
  <2>2. {j \in 1 .. Len(s) : s[j].key = k} = {i} /\ i \in Nat
    BY <2>1 DEF EntriesOnce
  <2>3. Without(s, k) = RemoveAt(s, i)
    BY <1>1, <2>2, MinOfOne DEF Without, RemoveFirstMatch, SelectInSeq
  <2>4. /\ RemoveAt(s, i) \in Seq(L1Entry) /\ OneLess(RemoveAt(s, i), s, i)
        /\ Len(RemoveAt(s, i)) = Len(s) - 1
    BY RemovedAt, LosesOne
  <2>5. EntriesOnce(RemoveAt(s, i))
    <3> SUFFICES ASSUME NEW j \in DOMAIN RemoveAt(s, i), NEW m \in DOMAIN RemoveAt(s, i), j # m
                 PROVE  RemoveAt(s, i)[j].key # RemoveAt(s, i)[m].key
      BY DEF EntriesOnce
    <3>1. PICK n \in DOMAIN s, o \in DOMAIN s :
            n # o /\ RemoveAt(s, i)[j] = s[n] /\ RemoveAt(s, i)[m] = s[o]
      BY <2>4 DEF OneLess
    <3> QED
      BY <3>1 DEF EntriesOnce
  <2>6. \A j \in DOMAIN RemoveAt(s, i) :
          RemoveAt(s, i)[j].key # k /\ \E n \in DOMAIN s : s[n] = RemoveAt(s, i)[j]
    BY <2>1, <2>4 DEF OneLess, EntriesOnce
  <2> QED
    BY <2>1, <2>3, <2>4, <2>5, <2>6
<1>2. CASE ~\E i \in 1 .. Len(s) : s[i].key = k
  BY <1>2 DEF Without, RemoveFirstMatch
<1> QED
  BY <1>1, <1>2

-----------------------------------------------------------------------------
(* What a step leaves alone. *)

LEMMA CacheInvInit == CacheInit => CacheInv
<1> SUFFICES ASSUME CacheInit PROVE CacheInv
  OBVIOUS
<1> USE CacheAssumption
<1>1. CacheTypes
  BY DEF CacheInit, CacheTypes, Idle, CacheCallType, EntriesOnce, NoRepeat
<1>2. \A c \in Clients : CallShape(c)
  BY DEF CacheInit, CallShape, Idle, Evicting, Deleting
<1>3. ASSUME NEW k \in Keys PROVE KeyServed(k) /\ FileKnown(k)
  <2>1. \A c \in Clients : ~Concerns(c, k) /\ cacheCall[c].pc = "idle"
    BY DEF CacheInit, Concerns, Idle
  <2> QED
    BY <2>1 DEF CacheInit, KeyServed, Quiet, L1Newest, BelowNewest, FileKnown
<1> QED
  BY <1>1, <1>2, <1>3 DEF CacheInv

\* A call that moves on.
LEMMA CallMoves ==
  ASSUME CacheInv, NEW c \in Clients, NEW call \in CacheCallType,
         cacheCall' = [cacheCall EXCEPT ![c] = call]
  PROVE  /\ cacheCall' \in [Clients -> CacheCallType] /\ cacheCall'[c] = call
         /\ \A d \in Clients \ {c} : cacheCall'[d] = cacheCall[d]
  BY DEF CacheInv, CacheTypes

\* The levels keep what they have of k, or L1 loses it.
SameLevels(k) ==
  /\ files'[k] = files[k] /\ l3'[k] = l3[k] /\ newest'[k] = newest[k]
  /\ \A i \in DOMAIN l1' : l1'[i].key = k => \E j \in DOMAIN l1 : l1[j] = l1'[i]

\* A key that a call neither works on nor will.
LEMMA Elsewhere ==
  ASSUME CacheInv, NEW c \in Clients, NEW k \in Keys \ doubtful, SameLevels(k),
         \A d \in Clients \ {c} : cacheCall'[d] = cacheCall[d],
         ~Concerns(c, k), ~Concerns(c, k)',
         cacheCall'[c].victim = k /\ cacheCall'[c].pc = "evict" =>
           l3[k] \in {0, newest[k]} \/ \E d \in Clients : Overrules(d, k)
  PROVE  KeyServed(k)'
<1>1. KeyServed(k)
  BY DEF CacheInv
<1>2. \A d \in Clients : Concerns(d, k)' => d # c
  OBVIOUS
<1>3. \A d \in Clients \ {c} : Concerns(d, k)' = Concerns(d, k) /\ cacheCall'[d].op = cacheCall[d].op
  BY DEF Concerns
<1>4. Quiet(k)' => Quiet(k)
  BY <1>2, <1>3 DEF Quiet
<1>5. (L1Newest(k) => L1Newest(k)') /\ (BelowNewest(k) => BelowNewest(k)') /\ (InL1(k)' => InL1(k))
  BY DEF SameLevels, L1Newest, BelowNewest, InL1
<1>6. \A d \in Clients \ {c} : Concerns(d, k)' => CallOn(d, k)'
  <2> SUFFICES ASSUME NEW d \in Clients \ {c}, Concerns(d, k)' PROVE CallOn(d, k)'
    OBVIOUS
  <2>1. CallOn(d, k) /\ cacheCall'[d] = cacheCall[d]
    BY <1>1, <1>3 DEF KeyServed
  <2> QED
    BY <1>5, <2>1 DEF CallOn, SameLevels
<1>7. (\E d \in Clients : Overrules(d, k)) => \E d \in Clients : Overrules(d, k)'
  BY <1>3 DEF Overrules
<1>8. \A d \in Clients : Evicts(d, k)' /\ cacheCall'[d].pc = "evict" =>
        l3'[k] \in {0, newest'[k]} \/ \E e \in Clients : Overrules(e, k)'
  BY <1>1, <1>7 DEF KeyServed, Evicts, SameLevels
<1> QED
  BY <1>1, <1>2, <1>3, <1>4, <1>5, <1>6, <1>8 DEF KeyServed

\* A file that stays known.
LEMMA StaysKnown ==
  ASSUME NEW c \in Clients, NEW k \in Keys, FileKnown(k), files'[k] \in {0, files[k]},
         \A d \in Clients \ {c} : cacheCall'[d] = cacheCall[d],
         k \in ToSet(l2keys) \/ Handles(c, k) => k \in ToSet(l2keys') \/ Handles(c, k)'
  PROVE  FileKnown(k)'
<1>1. \A d \in Clients \ {c} : Handles(d, k) => Handles(d, k)'
  BY DEF Handles, Evicts
<1> QED
  BY <1>1 DEF FileKnown

\* A call that begins.
Begun(c, o, key, call) ==
  /\ cacheCall[c] = Idle /\ \A k \in Keys : ~Concerns(c, k)
  /\ cacheCall' \in [Clients -> CacheCallType] /\ cacheCall'[c] = call
  /\ \A d \in Clients \ {c} : cacheCall'[d] = cacheCall[d]
  /\ doubtful \subseteq doubtful' /\ doubtful' \subseteq Keys
  /\ \A k \in Keys \ doubtful' : k = key \/ o = "clear" =>
       \A d \in Clients \ {c} : Concerns(d, k) => o = "get" /\ cacheCall[d].op = "get"

LEMMA CallBegins ==
  ASSUME CacheInv, NEW c \in Clients, NEW o \in {"get", "put", "delete", "clear"},
         NEW key \in Keys \cup {NoKey}, NEW val \in Nat,
         NEW pc \in {"readFile", "promote", "untrack", "clearFiles"}, Begin(c, o, key, val, pc)
  PROVE  Begun(c, o, key, [op |-> o, key |-> key, val |-> val, pc |-> pc, victim |-> NoKey])
<1> DEFINE call == [op |-> o, key |-> key, val |-> val, pc |-> pc, victim |-> NoKey]
<1>1. cacheCall[c] = Idle /\ cacheCall' = [cacheCall EXCEPT ![c] = call]
  BY DEF Begin
<1>2. \A k \in Keys : ~Concerns(c, k)
  BY <1>1, CacheAssumption DEF Concerns, Idle
<1>3. call \in CacheCallType
  BY DEF CacheCallType, Evicting, Deleting
<1>4. doubtful \subseteq doubtful' /\ doubtful' \subseteq Keys
  BY DEF Begin, CacheInv, CacheTypes
<1>5. \A k \in Keys \ doubtful' : k = key \/ o = "clear" =>
        \A d \in Clients \ {c} : Concerns(d, k) => o = "get" /\ cacheCall[d].op = "get"
  BY DEF Begin, Beside, Concerns
<1> HIDE DEF call
<1>6. /\ cacheCall' \in [Clients -> CacheCallType] /\ cacheCall'[c] = call
      /\ \A d \in Clients \ {c} : cacheCall'[d] = cacheCall[d]
  BY <1>1, <1>3, CallMoves
<1> QED
  BY <1>1, <1>2, <1>4, <1>5, <1>6 DEF Begun, call

\* A key of which a call begins whose own conditions hold.
LEMMA BegunOn ==
  ASSUME CacheInv, NEW c \in Clients, NEW k \in Keys \ doubtful, ~Concerns(c, k),
         SameLevels(k) \/ cacheCall'[c].op # "get", Concerns(c, k)',
         \A d \in Clients \ {c} : /\ cacheCall'[d] = cacheCall[d]
                                  /\ Concerns(d, k) => cacheCall'[c].op = "get" /\ cacheCall[d].op = "get",
         cacheCall'[c].op \in {"get", "put", "delete", "clear"},
         CallOn(c, k)', cacheCall'[c].pc # "evict", cacheCall'[c].op # "get" => Overrules(c, k)'
  PROVE  KeyServed(k)'
<1>1. KeyServed(k)
  BY DEF CacheInv
<1>2. \A d \in Clients \ {c} : Concerns(d, k)' = Concerns(d, k) /\ cacheCall'[d].op = cacheCall[d].op
  BY DEF Concerns
<1>3. \A d, e \in Clients : d # e /\ Concerns(d, k)' /\ Concerns(e, k)' => cacheCall'[d].op = "get"
  BY <1>2
<1>4. CASE cacheCall'[c].op = "get"
  <2>1. Quiet(k) /\ SameLevels(k)
    BY <1>4 DEF Quiet
  <2>2. L1Newest(k)' /\ BelowNewest(k)'
    BY <1>1, <2>1 DEF SameLevels, L1Newest, BelowNewest, KeyServed
  <2>3. \A d \in Clients : ~Overrules(d, k)
    BY <2>1 DEF Overrules, Quiet
  <2>4. \A d \in Clients \ {c} : Concerns(d, k)' => CallOn(d, k)'
    BY <1>1, <1>2, <2>1 DEF KeyServed, CallOn, SameLevels
  <2>5. \A d \in Clients : Evicts(d, k)' /\ cacheCall'[d].pc = "evict" => l3'[k] \in {0, newest'[k]}
    BY <1>1, <2>1, <2>3 DEF KeyServed, SameLevels, Evicts
  <2> QED
    BY <1>3, <2>2, <2>4, <2>5 DEF KeyServed
<1>5. CASE cacheCall'[c].op # "get"
  <2>1. ~Quiet(k)' /\ Overrules(c, k)'
    BY <1>5 DEF Quiet
  <2>2. \A d \in Clients \ {c} : ~Concerns(d, k)'
    BY <1>2, <1>5
  <2> QED
    BY <1>3, <2>1, <2>2 DEF KeyServed
<1> QED
  BY <1>4, <1>5

\* The parts of the invariant that do not speak of single keys.
LEMMA BegunShapes ==
  ASSUME CacheInv, NEW c \in Clients, NEW o \in {"get", "put", "delete", "clear"},
         NEW key \in Keys \cup {NoKey}, NEW val \in Nat,
         NEW pc \in {"readFile", "promote", "untrack", "clearFiles"}, Begin(c, o, key, val, pc),
         l2owner' = l2owner, key = NoKey <=> o = "clear",
         <<o, pc>> \in {<<"get", "readFile">>, <<"put", "promote">>, <<"delete", "untrack">>,
                        <<"clear", "clearFiles">>}
  PROVE  \A d \in Clients : CallShape(d)'
<1>0. Begun(c, o, key, [op |-> o, key |-> key, val |-> val, pc |-> pc, victim |-> NoKey])
  BY CallBegins, Zenon
<1>1. /\ cacheCall'[c] = [op |-> o, key |-> key, val |-> val, pc |-> pc, victim |-> NoKey]
      /\ \A d \in Clients \ {c} : cacheCall'[d] = cacheCall[d]
  BY <1>0 DEF Begun
<1>2. /\ cacheCall'[c].op = o /\ cacheCall'[c].key = key /\ cacheCall'[c].pc = pc
      /\ o \notin {"none"} /\ pc \notin Evicting
  BY <1>1 DEF Evicting
<1>3. CallShape(c)'
  BY <1>2 DEF CallShape, Evicting, Deleting
<1>4. ASSUME NEW d \in Clients \ {c} PROVE CallShape(d)'
  <2>1. CallShape(d) /\ cacheCall'[d] = cacheCall[d]
    BY <1>1 DEF CacheInv
  <2> QED
    BY <2>1 DEF CallShape
<1> QED
  BY <1>3, <1>4

-----------------------------------------------------------------------------
(* One lemma per call. *)

LEMMA GetKeeps ==
  ASSUME CacheInv, NEW c \in Clients, NEW k \in Keys, Get(c, k)
  PROVE  CacheInv'
<1>1. /\ Begin(c, "get", k, 0, "readFile")
      /\ UNCHANGED <<l1, l2keys, l2owner, files, l3, puts, boots, newest>>
  BY DEF Get
<1>2. Begun(c, "get", k, [op |-> "get", key |-> k, val |-> 0, pc |-> "readFile", victim |-> NoKey])
  BY <1>1, CallBegins, Zenon
<1>3. \A d \in Clients : CallShape(d)'
  <2>1. k = NoKey <=> "get" = "clear"
    BY CacheAssumption
  <2> QED
    BY <1>1, <2>1, BegunShapes
<1>4. CacheTypes'
  BY <1>1, <1>2 DEF CacheInv, CacheTypes, Begun, InL1
<1>5. ASSUME NEW j \in Keys \ doubtful' PROVE KeyServed(j)'
  <2>1. SameLevels(j) /\ j \in Keys \ doubtful
    BY <1>1, <1>2 DEF SameLevels, Begun
  <2>2. CASE j # k
    BY <1>2, <2>1, <2>2, Elsewhere DEF Begun, Concerns
  <2>3. CASE j = k
    <3>1. Concerns(c, j)' /\ CallOn(c, j)' /\ cacheCall'[c].op = "get" /\ cacheCall'[c].pc = "readFile"
      BY <1>2, <2>3 DEF Begun, Concerns, CallOn
    <3> QED
      BY <1>2, <2>1, <2>3, <3>1, BegunOn DEF Begun
  <2> QED
    BY <2>2, <2>3
<1>6. ASSUME NEW j \in Keys \ doubtful', boots' = 0 PROVE FileKnown(j)'
  <2>1. FileKnown(j) /\ ~Handles(c, j)
    BY <1>1, <1>2, <1>6, CacheAssumption DEF CacheInv, Begun, Handles, Evicts, Idle
  <2> QED
    BY <1>1, <1>2, <2>1, StaysKnown DEF Begun
<1> QED
  BY <1>3, <1>4, <1>5, <1>6 DEF CacheInv

\* L1 after k got the value v: the entry of k is its last.
Promoted(r, k, v) ==
  /\ r \in Seq(L1Entry) /\ EntriesOnce(r) /\ Len(r) <= MaxL1
  /\ \A i \in DOMAIN r : IF r[i].key = k THEN r[i].val = v ELSE \E j \in DOMAIN l1 : l1[j] = r[i]

LEMMA L1Promotes ==
  ASSUME CacheInv, NEW k \in Keys, NEW v \in Nat,
         NEW s, s = Append(Without(l1, k), [key |-> k, val |-> v])
  PROVE  /\ (InL1(k) => Promoted(s, k, v))
         /\ Promoted(IF Len(s) > MaxL1 THEN Tail(s) ELSE s, k, v)
<1> DEFINE w == Without(l1, k)  e == [key |-> k, val |-> v]
<1>1. l1 \in Seq(L1Entry) /\ EntriesOnce(l1) /\ Len(l1) <= MaxL1 /\ MaxL1 \in Nat \ {0}
  BY CacheAssumption DEF CacheInv, CacheTypes
<1>2. /\ w \in Seq(L1Entry) /\ EntriesOnce(w)
      /\ \A i \in DOMAIN w : w[i].key # k /\ \E j \in DOMAIN l1 : l1[j] = w[i]
      /\ Len(w) = IF \E i \in DOMAIN l1 : l1[i].key = k THEN Len(l1) - 1 ELSE Len(l1)
  BY <1>1, EntryRemoved
<1>3. e \in L1Entry /\ e.key = k /\ e.val = v
  BY DEF L1Entry
<1> HIDE DEF w, e
<1>4. s = Append(w, e)
  BY DEF w, e
<1>5. /\ s \in Seq(L1Entry) /\ Len(s) = Len(w) + 1 /\ DOMAIN s = 1 .. Len(w) + 1
      /\ s[Len(w) + 1] = e /\ \A i \in 1 .. Len(w) : s[i] = w[i]
  <2>1. w \in Seq(L1Entry) /\ e \in L1Entry
    BY <1>2, <1>3
  <2>2. /\ Append(w, e) \in Seq(L1Entry) /\ Len(Append(w, e)) = Len(w) + 1
        /\ Append(w, e)[Len(w) + 1] = e /\ \A i \in 1 .. Len(w) : Append(w, e)[i] = w[i]
    BY <2>1, AppendProperties
  <2>3. DOMAIN Append(w, e) = 1 .. Len(w) + 1
    BY <2>2
  <2> QED
    BY <1>4, <2>2, <2>3
<1>11. DOMAIN w = 1 .. Len(w) /\ Len(w) \in Nat
  BY <1>2
<1>12. \A i \in DOMAIN s : i = Len(w) + 1 \/ i \in DOMAIN w
  BY <1>5, <1>11
<1>13. \A i \in DOMAIN s : IF i = Len(w) + 1 THEN s[i] = e ELSE i \in DOMAIN w /\ s[i] = w[i]
  BY <1>5, <1>11, <1>12
<1>6. EntriesOnce(s)
  <2> SUFFICES ASSUME NEW i \in DOMAIN s, NEW j \in DOMAIN s, s[i].key = s[j].key PROVE i = j
    BY DEF EntriesOnce
  <2>1. CASE i = Len(w) + 1
    BY <1>2, <1>3, <1>13, <2>1
  <2>2. CASE j = Len(w) + 1
    BY <1>2, <1>3, <1>13, <2>2
  <2>3. CASE i # Len(w) + 1 /\ j # Len(w) + 1
    BY <1>2, <1>13, <2>3 DEF EntriesOnce
  <2> QED
    BY <2>1, <2>2, <2>3
<1>7. \A i \in DOMAIN s : IF s[i].key = k THEN s[i].val = v ELSE \E j \in DOMAIN l1 : l1[j] = s[i]
  <2> TAKE i \in DOMAIN s
  <2>1. CASE i = Len(w) + 1
    <3>1. s[i] = e
      BY <1>13, <2>1
    <3> QED
      BY <1>3, <3>1
  <2>2. CASE i # Len(w) + 1
    <3>1. i \in DOMAIN w /\ s[i] = w[i]
      BY <1>13, <2>2
    <3> QED
      BY <1>2, <3>1
  <2> QED
    BY <2>1, <2>2
<1>8. Len(s) <= MaxL1 => Promoted(s, k, v)
  BY <1>5, <1>6, <1>7 DEF Promoted
<1>9. Len(s) <= MaxL1 + 1 /\ (InL1(k) => Len(s) <= MaxL1)
  BY <1>1, <1>2, <1>5 DEF InL1
<1>10. ASSUME Len(s) > MaxL1 PROVE Promoted(Tail(s), k, v)
  <2>1. /\ Tail(s) \in Seq(L1Entry) /\ Len(Tail(s)) = Len(s) - 1
        /\ \A i \in 1 .. Len(s) - 1 : Tail(s)[i] = s[i + 1]
    BY <1>5
  <2>2. DOMAIN Tail(s) = 1 .. Len(s) - 1 /\ \A i \in DOMAIN Tail(s) : i + 1 \in DOMAIN s
    BY <1>5, <2>1
  <2>3. EntriesOnce(Tail(s))
    BY <1>6, <2>1, <2>2 DEF EntriesOnce
  <2>4. Len(Tail(s)) <= MaxL1
    BY <1>1, <1>5, <1>9, <2>1
  <2> QED
    BY <1>7, <2>1, <2>2, <2>3, <2>4 DEF Promoted
<1> QED
  BY <1>1, <1>5, <1>8, <1>9, <1>10

LEMMA GetHitKeeps ==
  ASSUME CacheInv, NEW c \in Clients, NEW k \in Keys, GetHit(c, k)
  PROVE  CacheInv'
<1>1. /\ InL1(k) /\ l1' = Append(Without(l1, k), [key |-> k, val |-> L1Value(k)])
      /\ UNCHANGED <<l2keys, l2owner, files, l3, cacheCall, puts, boots, newest, doubtful>>
  BY DEF GetHit
<1>2. PICK n \in DOMAIN l1 : l1[n].key = k /\ L1Value(k) = l1[n].val /\ L1Value(k) \in Nat
  <2> DEFINE n == CHOOSE i \in DOMAIN l1 : l1[i].key = k
  <2>1. n \in DOMAIN l1 /\ l1[n].key = k
    BY <1>1 DEF InL1
  <2>2. L1Value(k) = l1[n].val
    BY DEF L1Value
  <2>3. l1[n] \in L1Entry
    BY <2>1 DEF CacheInv, CacheTypes
  <2> QED
    BY <2>1, <2>2, <2>3 DEF L1Entry
<1>3. Promoted(l1', k, L1Value(k))
  BY <1>1, <1>2, L1Promotes
<1>4. CacheTypes'
  BY <1>1, <1>3 DEF CacheInv, CacheTypes, Promoted
<1>5. \A j \in Keys : (L1Newest(j) => L1Newest(j)') /\ (InL1(j)' => InL1(j))
  BY <1>1, <1>2, <1>3 DEF Promoted, L1Newest, InL1
<1>6. ASSUME NEW j \in Keys \ doubtful' PROVE KeyServed(j)'
  <2>1. \A d \in Clients : CallOn(d, j) => CallOn(d, j)'
    BY <1>1, <1>5 DEF CallOn, BelowNewest
  <2>2. KeyServed(j)
    BY <1>1 DEF CacheInv
  <2> QED
    BY <1>1, <1>5, <2>1, <2>2 DEF KeyServed, Quiet, Concerns, BelowNewest, Evicts, Overrules
<1>7. \A d \in Clients : CallShape(d)'
  BY <1>1 DEF CacheInv, CallShape
<1>8. \A j \in Keys \ doubtful' : boots' = 0 => FileKnown(j)'
  BY <1>1 DEF CacheInv, FileKnown, Handles, Evicts
<1> QED
  BY <1>4, <1>6, <1>7, <1>8 DEF CacheInv

LEMMA PutKeeps ==
  ASSUME CacheInv, NEW c \in Clients, NEW k \in Keys, Put(c, k)
  PROVE  CacheInv'
<1>1. /\ Begin(c, "put", k, puts + 1, "promote") /\ puts' = puts + 1 /\ puts + 1 \in Nat \ {0}
      /\ newest' = [newest EXCEPT ![k] = puts + 1]
      /\ UNCHANGED <<l1, l2keys, l2owner, files, l3, boots>>
  BY DEF Put, CacheInv, CacheTypes
<1>2. Begun(c, "put", k, [op |-> "put", key |-> k, val |-> puts + 1, pc |-> "promote", victim |-> NoKey])
  BY <1>1, CallBegins, Zenon
<1>3. \A d \in Clients : CallShape(d)'
  <2>1. k = NoKey <=> "put" = "clear"
    BY CacheAssumption
  <2> QED
    BY <1>1, <2>1, BegunShapes
<1>4. CacheTypes'
  BY <1>1, <1>2 DEF CacheInv, CacheTypes, Begun
<1>5. ASSUME NEW j \in Keys \ doubtful' PROVE KeyServed(j)'
  <2>1. j \in Keys \ doubtful
    BY <1>2 DEF Begun
  <2>2. CASE j # k
    <3>1. SameLevels(j)
      BY <1>1, <2>2 DEF SameLevels, CacheInv, CacheTypes
    <3> QED
      BY <1>2, <2>1, <2>2, <3>1, Elsewhere DEF Begun, Concerns
  <2>3. CASE j = k
    <3>1. newest'[j] = puts + 1 /\ puts + 1 # 0
      BY <1>1, <2>3 DEF CacheInv, CacheTypes
    <3>2. /\ Concerns(c, j)' /\ CallOn(c, j)' /\ cacheCall'[c].op = "put" /\ cacheCall'[c].pc = "promote"
          /\ Overrules(c, j)'
      BY <1>2, <2>3, <3>1 DEF Begun, Concerns, CallOn, Overrules, Evicting
    <3> QED
      BY <1>2, <2>1, <2>3, <3>2, BegunOn DEF Begun
  <2> QED
    BY <2>2, <2>3
<1>6. ASSUME NEW j \in Keys \ doubtful', boots' = 0 PROVE FileKnown(j)'
  <2>1. FileKnown(j) /\ ~Handles(c, j)
    BY <1>1, <1>2, <1>6, CacheAssumption DEF CacheInv, Begun, Handles, Evicts, Idle
  <2> QED
    BY <1>1, <1>2, <2>1, StaysKnown DEF Begun
<1> QED
  BY <1>3, <1>4, <1>5, <1>6 DEF CacheInv

LEMMA DeleteKeeps ==
  ASSUME CacheInv, NEW c \in Clients, NEW k \in Keys, Delete(c, k)
  PROVE  CacheInv'
<1>1. /\ Begin(c, "delete", k, 0, "untrack") /\ l1' = Without(l1, k)
      /\ newest' = [newest EXCEPT ![k] = 0]
      /\ UNCHANGED <<l2keys, l2owner, files, l3, puts, boots>>
  BY DEF Delete
<1>2. Begun(c, "delete", k, [op |-> "delete", key |-> k, val |-> 0, pc |-> "untrack", victim |-> NoKey])
  BY <1>1, CallBegins, Zenon
<1>3. \A d \in Clients : CallShape(d)'
  <2>1. k = NoKey <=> "delete" = "clear"
    BY CacheAssumption
  <2> QED
    BY <1>1, <2>1, BegunShapes
<1>4. /\ l1' \in Seq(L1Entry) /\ EntriesOnce(l1') /\ Len(l1') <= MaxL1
      /\ \A i \in DOMAIN l1' : l1'[i].key # k /\ \E j \in DOMAIN l1 : l1[j] = l1'[i]
  <2>1. l1 \in Seq(L1Entry) /\ EntriesOnce(l1) /\ Len(l1) \in Nat /\ Len(l1) <= MaxL1 /\ MaxL1 \in Nat
    BY CacheAssumption DEF CacheInv, CacheTypes
  <2>2. /\ Without(l1, k) \in Seq(L1Entry) /\ EntriesOnce(Without(l1, k))
        /\ \A i \in DOMAIN Without(l1, k) :
             Without(l1, k)[i].key # k /\ \E j \in DOMAIN l1 : l1[j] = Without(l1, k)[i]
        /\ Len(Without(l1, k)) = IF \E i \in DOMAIN l1 : l1[i].key = k THEN Len(l1) - 1 ELSE Len(l1)
    BY <2>1, EntryRemoved
  <2> QED
    BY <1>1, <2>1, <2>2
<1>5. CacheTypes'
  BY <1>1, <1>2, <1>4 DEF CacheInv, CacheTypes, Begun
<1>6. ASSUME NEW j \in Keys \ doubtful' PROVE KeyServed(j)'
  <2>1. j \in Keys \ doubtful
    BY <1>2 DEF Begun
  <2>2. CASE j # k
    <3>1. SameLevels(j)
      BY <1>1, <1>4, <2>2 DEF SameLevels, CacheInv, CacheTypes
    <3> QED
      BY <1>2, <2>1, <2>2, <3>1, Elsewhere DEF Begun, Concerns
  <2>3. CASE j = k
    <3>1. newest'[j] = 0 /\ ~InL1(j)'
      BY <1>1, <1>4, <2>3 DEF CacheInv, CacheTypes, InL1
    <3>2. /\ Concerns(c, j)' /\ CallOn(c, j)' /\ cacheCall'[c].op = "delete"
          /\ cacheCall'[c].pc = "untrack" /\ Overrules(c, j)'
      BY <1>2, <2>3, <3>1 DEF Begun, Concerns, CallOn, Overrules
    <3> QED
      BY <1>2, <2>1, <2>3, <3>2, BegunOn DEF Begun
  <2> QED
    BY <2>2, <2>3
<1>7. ASSUME NEW j \in Keys \ doubtful', boots' = 0 PROVE FileKnown(j)'
  <2>1. FileKnown(j) /\ ~Handles(c, j)
    BY <1>1, <1>2, <1>7, CacheAssumption DEF CacheInv, Begun, Handles, Evicts, Idle
  <2> QED
    BY <1>1, <1>2, <2>1, StaysKnown DEF Begun
<1> QED
  BY <1>3, <1>5, <1>6, <1>7 DEF CacheInv

LEMMA ClearKeeps ==
  ASSUME CacheInv, NEW c \in Clients, Clear(c)
  PROVE  CacheInv'
<1>1. /\ Begin(c, "clear", NoKey, 0, "clearFiles") /\ l1' = <<>> /\ newest' = [k \in Keys |-> 0]
      /\ UNCHANGED <<l2keys, l2owner, files, l3, puts, boots>>
  BY DEF Clear
<1>2. Begun(c, "clear", NoKey,
            [op |-> "clear", key |-> NoKey, val |-> 0, pc |-> "clearFiles", victim |-> NoKey])
  BY <1>1, CallBegins, Zenon
<1>3. \A d \in Clients : CallShape(d)'
  BY <1>1, BegunShapes
<1>4. CacheTypes'
  BY <1>1, <1>2, CacheAssumption DEF CacheInv, CacheTypes, Begun, EntriesOnce
<1>5. ASSUME NEW j \in Keys \ doubtful' PROVE KeyServed(j)'
  <2>1. j \in Keys \ doubtful
    BY <1>2 DEF Begun
  <2>2. newest'[j] = 0 /\ ~InL1(j)'
    BY <1>1 DEF InL1
  <2>3. /\ Concerns(c, j)' /\ CallOn(c, j)' /\ cacheCall'[c].op = "clear"
        /\ cacheCall'[c].pc = "clearFiles" /\ Overrules(c, j)'
    BY <1>2, <2>2 DEF Begun, Concerns, CallOn, Overrules
  <2> QED
    BY <1>2, <2>1, <2>3, BegunOn DEF Begun
<1>6. ASSUME NEW j \in Keys \ doubtful', boots' = 0 PROVE FileKnown(j)'
  <2>1. FileKnown(j) /\ ~Handles(c, j)
    BY <1>1, <1>2, <1>6, CacheAssumption DEF CacheInv, Begun, Handles, Evicts, Idle
  <2> QED
    BY <1>1, <1>2, <2>1, StaysKnown DEF Begun
<1> QED
  BY <1>3, <1>4, <1>5, <1>6 DEF CacheInv

-----------------------------------------------------------------------------
(* The step of a call, on its own key and on the others. *)

Moved(c, call) ==
  /\ cacheCall' \in [Clients -> CacheCallType] /\ cacheCall'[c] = call
  /\ \A d \in Clients \ {c} : cacheCall'[d] = cacheCall[d]

LEMMA GoesOn ==
  ASSUME CacheInv, NEW c \in Clients,
         NEW pc \in {"promote", "writeFile", "track", "evict", "unlink", "deleteObject"}, GoOn(c, pc)
  PROVE  Moved(c, [cacheCall[c] EXCEPT !.pc = pc])
  BY ZenonT(40) DEF GoOn, Moved, CacheInv, CacheTypes, CacheCallType, Evicting, Deleting

LEMMA Finishes ==
  ASSUME CacheInv, NEW c \in Clients, Finish(c)
  PROVE  Moved(c, Idle)
  BY DEF Finish, Moved, Idle, CacheInv, CacheTypes, CacheCallType

\* What a step makes of its call: it ends, or goes on with the same operation and key.
LEMMA AfterFileMoves ==
  ASSUME CacheInv, NEW c \in Clients, AfterFile(c), cacheCall[c].op \in {"get", "put"}
  PROVE  IF cacheCall[c].op = "get" THEN Moved(c, [cacheCall[c] EXCEPT !.pc = "promote"])
         ELSE Moved(c, Idle)
  BY GoesOn, Finishes DEF AfterFile

LEMMA ShapesKept ==
  ASSUME CacheInv, NEW c \in Clients, NEW call, Moved(c, call),
         l2owner' = l2owner \/ \A d \in Clients \ {c} : cacheCall[d].pc \notin Evicting,
         call = Idle \/
           /\ call.op = cacheCall[c].op /\ call.key = cacheCall[c].key
           /\ \/ call.op \in {"get", "put"} /\ call.pc \in {"promote", "writeFile", "track"}
              \/ call.op = "get" /\ call.pc = "readObject"
              \/ call.op \in {"get", "put"} /\ call.pc \in Evicting /\ call.victim \in Keys /\ l2owner' = c
              \/ call.op = "delete" /\ call.pc \in {"unlink", "deleteObject"}
  PROVE  \A d \in Clients : CallShape(d)'
<1>1. CallShape(c)'
  <2>1. cacheCall'[c] = call /\ CallShape(c)
    BY DEF Moved, CacheInv
  <2>2. CASE call = Idle
    BY <2>1, <2>2 DEF CallShape, Idle, Evicting, Deleting
  <2>3. CASE call # Idle
    BY <2>1, <2>3 DEF CallShape, Evicting, Deleting
  <2> QED
    BY <2>2, <2>3
<1>2. ASSUME NEW d \in Clients \ {c} PROVE CallShape(d)'
  <2>1. CallShape(d) /\ cacheCall'[d] = cacheCall[d]
    BY DEF CacheInv, Moved
  <2> QED
    BY <2>1 DEF CallShape
<1> QED
  BY <1>1, <1>2

\* What is known of the key of a get: all calls on it are gets.
LEMMA OnGet ==
  ASSUME CacheInv, NEW c \in Clients, NEW k \in Keys \ doubtful, cacheCall[c].key = k,
         cacheCall[c].op = "get"
  PROVE  /\ Quiet(k) /\ L1Newest(k) /\ BelowNewest(k) /\ CallOn(c, k)
         /\ \A d \in Clients : ~Overrules(d, k)
<1>1. KeyServed(k) /\ Concerns(c, k)
  BY DEF CacheInv, Concerns
<1>2. Quiet(k)
  BY <1>1 DEF KeyServed, Quiet
<1> QED
  BY <1>1, <1>2 DEF KeyServed, Quiet, Overrules

\* The calls on a key of which only gets are under way, one of them taking a step.
LEMMA GetGoesOn ==
  ASSUME CacheInv, NEW c \in Clients, NEW k \in Keys \ doubtful, cacheCall[c].key = k,
         cacheCall[c].op = "get", NEW call, Moved(c, call), newest'[k] = newest[k],
         L1Newest(k)', BelowNewest(k)', l3[k] \in {0, newest[k]} => l3'[k] \in {0, newest[k]},
         call = Idle \/ (call.op = "get" /\ call.key = k /\ CallOn(c, k)'),
         call.victim = k /\ call.pc = "evict" => l3'[k] \in {0, newest[k]}
  PROVE  KeyServed(k)'
<1>1. Quiet(k) /\ \A d \in Clients : ~Overrules(d, k)
  BY OnGet
<1>2. KeyServed(k) /\ \A d \in Clients \ {c} : cacheCall'[d] = cacheCall[d]
  BY DEF CacheInv, Moved
<1>3. Concerns(c, k)' => cacheCall'[c].op = "get" /\ CallOn(c, k)'
  BY CacheAssumption DEF Moved, Concerns, Idle
<1>4. ASSUME NEW d \in Clients, Concerns(d, k)' PROVE cacheCall'[d].op = "get" /\ CallOn(d, k)'
  <2>1. CASE d = c
    BY <1>3, <1>4, <2>1
  <2>2. CASE d # c
    <3>1. Concerns(d, k) /\ cacheCall'[d] = cacheCall[d]
      BY <1>2, <1>4, <2>2 DEF Concerns
    <3>2. cacheCall[d].op = "get" /\ CallOn(d, k)
      BY <1>1, <1>2, <3>1 DEF Quiet, KeyServed
    <3> QED
      BY <3>1, <3>2 DEF CallOn
  <2> QED
    BY <2>1, <2>2
<1>5. ASSUME NEW d \in Clients, Evicts(d, k)', cacheCall'[d].pc = "evict"
      PROVE  l3'[k] \in {0, newest'[k]}
  <2>1. CASE d = c
    BY <1>5, <2>1 DEF Evicts, Moved
  <2>2. CASE d # c
    BY <1>1, <1>2, <1>5, <2>2 DEF Evicts, KeyServed
  <2> QED
    BY <2>1, <2>2
<1> QED
  BY <1>4, <1>5 DEF KeyServed

\* What is known of a key that is written or removed: no other call is on it.
LEMMA OnChange ==
  ASSUME CacheInv, NEW c \in Clients, NEW k \in Keys \ doubtful, Concerns(c, k),
         cacheCall[c].op # "get"
  PROVE  /\ CallOn(c, k) /\ \A d \in Clients \ {c} : ~Concerns(d, k) /\ ~Overrules(d, k)
         /\ \A d \in Clients : Evicts(d, k) /\ cacheCall[d].pc = "evict" =>
              l3[k] \in {0, newest[k]} \/ Overrules(c, k)
<1>1. KeyServed(k)
  BY DEF CacheInv
<1>2. \A d \in Clients \ {c} : ~Concerns(d, k)
  BY <1>1 DEF KeyServed
<1> QED
  BY <1>1, <1>2 DEF KeyServed, Overrules

LEMMA ChangeGoesOn ==
  ASSUME CacheInv, NEW c \in Clients, NEW k \in Keys \ doubtful, Concerns(c, k),
         cacheCall[c].op # "get", NEW call, Moved(c, call),
         \/ call = Idle /\ L1Newest(k)' /\ BelowNewest(k)'
         \/ Concerns(c, k)' /\ call.op = cacheCall[c].op /\ CallOn(c, k)',
         \A d \in Clients : Evicts(d, k)' /\ cacheCall'[d].pc = "evict" =>
           l3'[k] \in {0, newest'[k]} \/ Overrules(c, k)'
  PROVE  KeyServed(k)'
<1>1. \A d \in Clients \ {c} : ~Concerns(d, k)'
  <2>1. \A d \in Clients \ {c} : ~Concerns(d, k)
    BY OnChange
  <2> QED
    BY <2>1 DEF Concerns, Moved
<1>2. Concerns(c, k)' => CallOn(c, k)' /\ ~Quiet(k)'
  BY CacheAssumption DEF Moved, Concerns, Idle, Quiet
<1>3. Quiet(k)' => L1Newest(k)' /\ BelowNewest(k)'
  BY <1>2 DEF Moved
<1> QED
  BY <1>1, <1>2, <1>3 DEF KeyServed

LEMMA PromoteKeeps ==
  ASSUME CacheInv, NEW c \in Clients, Promote(c)
  PROVE  CacheInv'
<1> DEFINE k == cacheCall[c].key  v == cacheCall[c].val
           s == Append(Without(l1, k), [key |-> k, val |-> v])
<1>1. /\ cacheCall[c].pc = "promote" /\ l1' = IF Len(s) > MaxL1 THEN Tail(s) ELSE s
      /\ IF cacheCall[c].op = "get" THEN Finish(c) ELSE GoOn(c, "writeFile")
      /\ UNCHANGED <<l2keys, l2owner, files, l3, puts, boots, newest, doubtful>>
  BY DEF Promote, At
<1>2. CallShape(c) /\ cacheCall[c] \in CacheCallType /\ doubtful \subseteq Keys
  BY DEF CacheInv, CacheTypes
<1>3. cacheCall[c].op \in {"get", "put"} /\ k \in Keys /\ v \in Nat
  BY <1>1, <1>2 DEF CallShape, CacheCallType, Deleting
<1>4. Promoted(IF Len(s) > MaxL1 THEN Tail(s) ELSE s, k, v)
  BY <1>3, L1Promotes
<1> HIDE DEF s
<1>5. Promoted(l1', k, v)
  BY <1>1, <1>4
<1> DEFINE call == IF cacheCall[c].op = "get" THEN Idle ELSE [cacheCall[c] EXCEPT !.pc = "writeFile"]
<1>6. Moved(c, call)
  BY <1>1, GoesOn, Finishes
<1>7. \A d \in Clients : CallShape(d)'
  <2>1. call = Idle \/ (call.op = "put" /\ call.op = cacheCall[c].op /\ call.key = k /\ call.pc = "writeFile")
    BY <1>2, <1>3 DEF CacheCallType
  <2> HIDE DEF call
  <2> QED
    BY <1>1, <1>6, <2>1, ShapesKept
<1>8. CacheTypes'
  BY <1>1, <1>5, <1>6 DEF CacheInv, CacheTypes, Moved, Promoted
<1>9. ASSUME NEW j \in Keys \ doubtful' PROVE KeyServed(j)'
  <2>1. CASE j # k
    <3>1. SameLevels(j)
      BY <1>1, <1>5, <2>1 DEF SameLevels, Promoted
    <3>2. ~Concerns(c, j) /\ ~Concerns(c, j)' /\ cacheCall'[c].pc # "evict"
      BY <1>2, <1>3, <1>6, <2>1, CacheAssumption DEF Concerns, Moved, Idle, CacheCallType
    <3> QED
      BY <1>1, <1>6, <3>1, <3>2, Elsewhere DEF Moved
  <2>2. CASE j = k /\ cacheCall[c].op = "get"
    <3>1. Quiet(j) /\ L1Newest(j) /\ BelowNewest(j) /\ CallOn(c, j)
      BY <1>1, <2>2, OnGet
    <3>2. v = newest[j]
      BY <1>1, <2>2, <3>1 DEF CallOn
    <3>3. L1Newest(j)' /\ BelowNewest(j)' /\ newest'[j] = newest[j] /\ l3'[j] = l3[j]
      BY <1>1, <1>5, <2>2, <3>1, <3>2 DEF L1Newest, Promoted, BelowNewest
    <3>4. Moved(c, Idle) /\ Idle.victim # j
      BY <1>6, <2>2, CacheAssumption DEF Idle
    <3> QED
      BY <1>1, <2>2, <3>3, <3>4, GetGoesOn
  <2>3. CASE j = k /\ cacheCall[c].op = "put"
    <3>1. /\ Concerns(c, j) /\ CallOn(c, j)
          /\ \A d \in Clients : Evicts(d, j) /\ cacheCall[d].pc = "evict" =>
               l3[j] \in {0, newest[j]} \/ Overrules(c, j)
      BY <1>1, <2>3, OnChange DEF Concerns
    <3>2. v = newest[j] /\ newest[j] # 0
      BY <2>3, <3>1 DEF CallOn
    <3>3. L1Newest(j)'
      BY <1>1, <1>5, <2>3, <3>2 DEF L1Newest, Promoted
    <3>4. /\ cacheCall'[c].op = "put" /\ cacheCall'[c].key = j /\ cacheCall'[c].pc = "writeFile"
          /\ cacheCall'[c].val = v
      BY <1>2, <1>6, <2>3 DEF Moved, CacheCallType
    <3>5. Concerns(c, j)' /\ Overrules(c, j)' /\ CallOn(c, j)'
      BY <1>1, <3>2, <3>3, <3>4 DEF Concerns, Overrules, CallOn, Evicting
    <3>6. cacheCall[c].op # "get" /\ j \in Keys \ doubtful /\ call.op = cacheCall[c].op
      BY <1>1, <1>6, <2>3, <3>4 DEF Moved
    <3> QED
      BY <1>6, <3>1, <3>5, <3>6, ChangeGoesOn
  <2> QED
    BY <1>3, <2>1, <2>2, <2>3
<1>10. ASSUME NEW j \in Keys \ doubtful', boots' = 0 PROVE FileKnown(j)'
  <2>1. FileKnown(j) /\ ~Handles(c, j)
    BY <1>1, <1>10 DEF CacheInv, Handles, Evicts, Evicting
  <2> QED
    BY <1>1, <1>6, <2>1, StaysKnown DEF Moved
<1> QED
  BY <1>1, <1>7, <1>8, <1>9, <1>10 DEF CacheInv

LEMMA ReadFileKeeps ==
  ASSUME CacheInv, NEW c \in Clients, ReadFile(c)
  PROVE  CacheInv'
<1> DEFINE k == cacheCall[c].key  v == files[k]
           read == [cacheCall[c] EXCEPT !.val = v, !.pc = "promote"]
           missed == [cacheCall[c] EXCEPT !.pc = "readObject"]
<1>1. /\ cacheCall[c].pc = "readFile"
      /\ \/ /\ v # 0 /\ doubtful' = doubtful
            /\ cacheCall' = [cacheCall EXCEPT ![c].val = v, ![c].pc = "promote"]
         \/ /\ GoOn(c, "readObject")
            /\ \/ doubtful' = doubtful /\ (v = 0 \/ l3[k] \in {0, v})
               \/ doubtful' = doubtful \cup {k}
      /\ UNCHANGED <<l1, l2keys, l2owner, files, l3, puts, boots, newest>>
  BY DEF ReadFile, At, Readable
<1>2. CallShape(c) /\ cacheCall[c] \in CacheCallType /\ doubtful \subseteq Keys
  BY DEF CacheInv, CacheTypes
<1>3. cacheCall[c].op = "get" /\ k \in Keys /\ v \in Nat
  BY <1>1, <1>2 DEF CallShape, CacheCallType, CacheInv, CacheTypes
<1>4. read \in CacheCallType /\ missed \in CacheCallType
  BY <1>2, <1>3 DEF CacheCallType
<1>5. PICK call :
        /\ Moved(c, call)
        /\ \/ call = read /\ v # 0 /\ doubtful' = doubtful
           \/ /\ call = missed
              /\ \/ doubtful' = doubtful /\ (v = 0 \/ l3[k] \in {0, v})
                 \/ doubtful' = doubtful \cup {k}
  <2>1. CASE /\ v # 0 /\ doubtful' = doubtful
             /\ cacheCall' = [cacheCall EXCEPT ![c].val = v, ![c].pc = "promote"]
    <3>1. cacheCall' = [cacheCall EXCEPT ![c] = read]
      BY <1>2, <2>1 DEF CacheCallType
    <3> HIDE DEF read
    <3>2. Moved(c, read)
      BY <1>4, <3>1, CallMoves DEF Moved
    <3> QED
      BY <2>1, <3>2
  <2>2. CASE /\ GoOn(c, "readObject")
             /\ \/ doubtful' = doubtful /\ (v = 0 \/ l3[k] \in {0, v})
                \/ doubtful' = doubtful \cup {k}
    <3>1. cacheCall' = [cacheCall EXCEPT ![c] = missed]
      BY <1>2, <2>2 DEF GoOn, CacheCallType
    <3> HIDE DEF missed
    <3>2. Moved(c, missed)
      BY <1>4, <3>1, CallMoves DEF Moved
    <3> QED
      BY <2>2, <3>2
  <2> QED
    BY <1>1, <2>1, <2>2
<1>6. /\ call.op = "get" /\ call.key = k /\ call.victim = cacheCall[c].victim
      /\ \/ call.pc = "promote" /\ call.val = v /\ v # 0
         \/ call.pc = "readObject" /\ (v = 0 \/ l3[k] \in {0, v} \/ k \in doubtful')
  <2>1. /\ read.op = "get" /\ read.key = k /\ read.victim = cacheCall[c].victim
        /\ read.pc = "promote" /\ read.val = v
        /\ missed.op = "get" /\ missed.key = k /\ missed.victim = cacheCall[c].victim
        /\ missed.pc = "readObject"
    BY <1>2, <1>3 DEF CacheCallType
  <2> HIDE DEF read, missed
  <2> QED
    BY <1>5, <2>1
<1>7. \A d \in Clients : CallShape(d)'
  BY <1>1, <1>3, <1>5, <1>6, ShapesKept
<1>8. CacheTypes'
  BY <1>1, <1>2, <1>3, <1>5 DEF CacheInv, CacheTypes, Moved
<1>0. doubtful \subseteq doubtful'
  BY <1>5
<1>9. ASSUME NEW j \in Keys \ doubtful' PROVE KeyServed(j)'
  <2>1. CASE j # k
    <3>1. SameLevels(j)
      BY <1>1 DEF SameLevels
    <3>2. ~Concerns(c, j) /\ ~Concerns(c, j)' /\ cacheCall'[c].pc # "evict"
      BY <1>3, <1>5, <1>6, <2>1 DEF Concerns, Moved
    <3> QED
      BY <1>0, <1>5, <3>1, <3>2, Elsewhere DEF Moved
  <2>2. CASE j = k
    <3>1. L1Newest(j) /\ BelowNewest(j)
      BY <1>0, <1>3, <2>2, OnGet
    <3>2. L1Newest(j)' /\ BelowNewest(j)' /\ newest'[j] = newest[j] /\ l3'[j] = l3[j]
      BY <1>1, <3>1 DEF L1Newest, BelowNewest
    <3>3. CallOn(c, j)'
      <4>1. cacheCall'[c] = call
        BY <1>5 DEF Moved
      <4>2. v \in {0, newest[j]} /\ (v = 0 => l3[j] \in {0, newest[j]})
        BY <2>2, <3>1 DEF BelowNewest
      <4>3. CASE call.pc = "promote"
        BY <1>6, <3>2, <4>1, <4>2, <4>3 DEF CallOn
      <4>4. CASE call.pc = "readObject"
        <5>1. l3'[j] \in {0, newest'[j]}
          BY <1>6, <2>2, <3>2, <4>2, <4>4
        <5> QED
          BY <1>6, <4>1, <4>4, <5>1 DEF CallOn
      <4> QED
        BY <1>6, <4>3, <4>4
    <3> QED
      BY <1>0, <1>3, <1>5, <1>6, <2>2, <3>2, <3>3, GetGoesOn
  <2> QED
    BY <2>1, <2>2
<1>10. ASSUME NEW j \in Keys \ doubtful', boots' = 0 PROVE FileKnown(j)'
  <2>1. FileKnown(j) /\ ~Handles(c, j)
    BY <1>0, <1>1, <1>10 DEF CacheInv, Handles, Evicts, Evicting
  <2> QED
    BY <1>1, <1>5, <2>1, StaysKnown DEF Moved
<1> QED
  BY <1>7, <1>8, <1>9, <1>10 DEF CacheInv

LEMMA ReadObjectKeeps ==
  ASSUME CacheInv, NEW c \in Clients, ReadObject(c)
  PROVE  CacheInv'
<1> DEFINE k == cacheCall[c].key  v == l3[k]
           on == [cacheCall[c] EXCEPT !.val = v, !.pc = "writeFile"]
<1>1. /\ cacheCall[c].pc = "readObject"
      /\ Finish(c) \/ (v # 0 /\ cacheCall' = [cacheCall EXCEPT ![c].val = v, ![c].pc = "writeFile"])
      /\ UNCHANGED <<l1, l2keys, l2owner, files, l3, puts, boots, newest, doubtful>>
  BY DEF ReadObject, At
<1>2. CallShape(c) /\ cacheCall[c] \in CacheCallType
  BY DEF CacheInv, CacheTypes
<1>3. cacheCall[c].op = "get" /\ k \in Keys /\ v \in Nat
  BY <1>1, <1>2 DEF CallShape, CacheCallType, CacheInv, CacheTypes
<1>4. on \in CacheCallType /\ on.op = "get" /\ on.key = k /\ on.pc = "writeFile" /\ on.val = v
  BY <1>2, <1>3 DEF CacheCallType
<1>5. Moved(c, Idle) \/ (v # 0 /\ Moved(c, on))
  <2>1. CASE Finish(c)
    BY <2>1, Finishes
  <2>2. CASE v # 0 /\ cacheCall' = [cacheCall EXCEPT ![c].val = v, ![c].pc = "writeFile"]
    <3>1. DOMAIN cacheCall = Clients /\ \A d \in Clients : cacheCall[d] \in CacheCallType
      BY DEF CacheInv, CacheTypes
    <3>2. cacheCall'[c] = on /\ \A d \in Clients \ {c} : cacheCall'[d] = cacheCall[d]
      BY <2>2, <3>1
    <3>3. cacheCall' = [d \in Clients |-> cacheCall'[d]]
      BY <2>2, <3>1
    <3> HIDE DEF on
    <3>4. \A d \in Clients : cacheCall'[d] \in CacheCallType
      BY <1>4, <3>1, <3>2
    <3>5. cacheCall' \in [Clients -> CacheCallType]
      BY <3>3, <3>4
    <3> QED
      BY <2>2, <3>2, <3>5 DEF Moved
  <2> QED
    BY <1>1, <2>1, <2>2
<1>6. PICK call \in {Idle, on} : Moved(c, call) /\ (call # Idle => v # 0)
  BY <1>5
<1>7. call = Idle \/ (call.op = "get" /\ call.key = k /\ call.pc = "writeFile" /\ call.val = v)
  BY <1>4, <1>6
<1>8. call.pc # "evict" /\ call.pc \in {"idle", "writeFile"} /\ call.op \in {"get", "none"} /\ call.key \in {k, NoKey}
  BY <1>7 DEF Idle
<1> HIDE DEF on
<1>9. \A d \in Clients : CallShape(d)'
  BY <1>1, <1>3, <1>6, <1>7, ShapesKept
<1>10. CacheTypes'
  BY <1>1, <1>6 DEF CacheInv, CacheTypes, Moved
<1>11. ASSUME NEW j \in Keys \ doubtful' PROVE KeyServed(j)'
  <2>1. CASE j # k
    <3>1. SameLevels(j)
      BY <1>1 DEF SameLevels
    <3>2. ~Concerns(c, j) /\ ~Concerns(c, j)' /\ cacheCall'[c].pc # "evict"
      BY <1>3, <1>6, <1>8, <2>1, CacheAssumption DEF Concerns, Moved
    <3> QED
      BY <1>1, <1>6, <3>1, <3>2, Elsewhere DEF Moved
  <2>2. CASE j = k
    <3>1. L1Newest(j) /\ BelowNewest(j) /\ CallOn(c, j)
      BY <1>1, <1>3, <2>2, OnGet
    <3>2. L1Newest(j)' /\ BelowNewest(j)' /\ newest'[j] = newest[j] /\ l3'[j] = l3[j]
      BY <1>1, <3>1 DEF L1Newest, BelowNewest
    <3>3. v \in {0, newest[j]}
      BY <1>1, <1>3, <2>2, <3>1 DEF CallOn
    <3>5. call # Idle => CallOn(c, j)'
      BY <1>1, <1>6, <1>7, <2>2, <3>3 DEF CallOn, Moved
    <3> QED
      BY <1>1, <1>3, <1>6, <1>7, <1>8, <2>2, <3>2, <3>5, GetGoesOn
  <2> QED
    BY <2>1, <2>2
<1>12. ASSUME NEW j \in Keys \ doubtful', boots' = 0 PROVE FileKnown(j)'
  <2>1. FileKnown(j) /\ ~Handles(c, j)
    BY <1>1, <1>12 DEF CacheInv, Handles, Evicts, Evicting
  <2> QED
    BY <1>1, <1>6, <2>1, StaysKnown DEF Moved
<1> QED
  BY <1>1, <1>9, <1>10, <1>11, <1>12 DEF CacheInv

LEMMA WriteFileKeeps ==
  ASSUME CacheInv, NEW c \in Clients, WriteFile(c)
  PROVE  CacheInv'
<1> DEFINE k == cacheCall[c].key  v == cacheCall[c].val
           on == [cacheCall[c] EXCEPT !.pc = "track"]
<1>1. /\ cacheCall[c].pc = "writeFile"
      /\ \/ /\ files' = [files EXCEPT ![k] = v] /\ GoOn(c, "track")
            /\ \/ doubtful' = doubtful /\ (v \in Opaque => l3[k] \in {0, v})
               \/ doubtful' = doubtful \cup {k}
         \/ AfterFile(c) /\ doubtful' = doubtful \cup {k} /\ UNCHANGED files
         \/ Finish(c) /\ doubtful' = doubtful \cup {k} /\ UNCHANGED files
      /\ UNCHANGED <<l1, l2keys, l2owner, l3, puts, boots, newest>>
  BY DEF WriteFile, At
<1>2. CallShape(c) /\ cacheCall[c] \in CacheCallType /\ doubtful \subseteq Keys
  BY DEF CacheInv, CacheTypes
<1>3. cacheCall[c].op \in {"get", "put"} /\ k \in Keys /\ v \in Nat
  BY <1>1, <1>2 DEF CallShape, CacheCallType, Deleting
<1>4. PICK call : /\ Moved(c, call)
                  /\ \/ /\ call = on /\ files' = [files EXCEPT ![k] = v]
                        /\ \/ doubtful' = doubtful /\ (v \in Opaque => l3[k] \in {0, v})
                           \/ doubtful' = doubtful \cup {k}
                     \/ /\ call = Idle \/ (call = [cacheCall[c] EXCEPT !.pc = "promote"])
                        /\ doubtful' = doubtful \cup {k} /\ files' = files
  <2>1. CASE /\ files' = [files EXCEPT ![k] = v] /\ GoOn(c, "track")
             /\ \/ doubtful' = doubtful /\ (v \in Opaque => l3[k] \in {0, v})
                \/ doubtful' = doubtful \cup {k}
    BY <2>1, GoesOn
  <2>2. CASE AfterFile(c) /\ doubtful' = doubtful \cup {k} /\ UNCHANGED files
    BY <1>3, <2>2, AfterFileMoves
  <2>3. CASE Finish(c) /\ doubtful' = doubtful \cup {k} /\ UNCHANGED files
    BY <2>3, Finishes
  <2> QED
    BY <1>1, <2>1, <2>2, <2>3
<1>5. /\ call = Idle \/ (call.op = cacheCall[c].op /\ call.key = k /\ call.val = v /\ call.pc \in {"promote", "track"})
      /\ call.key \in {k, NoKey} /\ call.pc # "evict" /\ call.op # "clear"
      /\ call = on => call.pc = "track" /\ call # Idle
  BY <1>2, <1>3, <1>4 DEF CacheCallType, Idle
<1> HIDE DEF on
<1>6. \A d \in Clients : CallShape(d)'
  BY <1>1, <1>3, <1>4, <1>5, ShapesKept
<1>7. CacheTypes'
  BY <1>1, <1>2, <1>3, <1>4 DEF CacheInv, CacheTypes, Moved
<1>8. ASSUME NEW j \in Keys \ doubtful' PROVE KeyServed(j)'
  <2>1. CASE j # k
    <3>1. SameLevels(j) /\ j \in Keys \ doubtful
      BY <1>1, <1>4, <2>1 DEF SameLevels, CacheInv, CacheTypes
    <3>2. ~Concerns(c, j) /\ ~Concerns(c, j)' /\ cacheCall'[c].pc # "evict"
      BY <1>3, <1>4, <1>5, <2>1, CacheAssumption DEF Concerns, Moved
    <3> QED
      BY <1>1, <1>4, <3>1, <3>2, Elsewhere DEF Moved
  <2>2. ASSUME j = k
        PROVE  /\ j \in Keys \ doubtful /\ call = on /\ files'[j] = v
               /\ (v \in Opaque => l3[j] \in {0, v})
               /\ l1' = l1 /\ l3'[j] = l3[j] /\ newest'[j] = newest[j]
    BY <1>1, <1>4, <2>2 DEF CacheInv, CacheTypes
  <2>3. /\ cacheCall'[c].op = cacheCall[c].op /\ cacheCall'[c].pc = "track"
        /\ cacheCall'[c].val = v /\ cacheCall'[c].key = k
      \/ j # k
    BY <1>4, <1>5, <2>2 DEF Moved
  <2>4. CASE j = k /\ cacheCall[c].op = "get"
    <3>1. L1Newest(j) /\ BelowNewest(j) /\ CallOn(c, j)
      BY <2>2, <2>4, OnGet
    <3>2. v = newest[j]
      BY <1>1, <2>4, <3>1 DEF CallOn
    <3>3. L1Newest(j)' /\ BelowNewest(j)'
      <4>1. L1Newest(j)'
        BY <2>2, <2>4, <3>1 DEF L1Newest
      <4>2. files[j] \in {0, newest[j]} /\ (files[j] \in Opaque \cup {0} => l3[j] \in {0, newest[j]})
        BY <3>1 DEF BelowNewest
      <4>3. files'[j] = newest[j] /\ newest'[j] = newest[j] /\ l3'[j] = l3[j]
        BY <2>2, <2>4, <3>2
      <4>4. newest[j] \in Opaque \cup {0} => l3[j] \in {0, newest[j]}
        BY <2>2, <2>4, <3>2, <4>2
      <4> QED
        BY <4>1, <4>3, <4>4 DEF BelowNewest
    <3>4. CallOn(c, j)'
      BY <2>2, <2>3, <2>4, <3>2 DEF CallOn
    <3> QED
      BY <1>4, <1>5, <2>2, <2>4, <3>3, <3>4, GetGoesOn
  <2>5. CASE j = k /\ cacheCall[c].op = "put"
    <3>1. /\ Concerns(c, j) /\ CallOn(c, j)
          /\ \A d \in Clients : Evicts(d, j) /\ cacheCall[d].pc = "evict" =>
               l3[j] \in {0, newest[j]} \/ Overrules(c, j)
      BY <2>2, <2>5, OnChange DEF Concerns
    <3>2. v = newest[j] /\ newest[j] # 0 /\ L1Newest(j)
      BY <1>1, <2>5, <3>1 DEF CallOn
    <3>3. L1Newest(j)' /\ BelowNewest(j)'
      BY <2>2, <2>5, <3>2 DEF L1Newest, BelowNewest
    <3>4. Concerns(c, j)' /\ Overrules(c, j)' /\ CallOn(c, j)'
      BY <2>2, <2>3, <2>5, <3>2, <3>3 DEF Concerns, Overrules, CallOn
    <3>5. cacheCall[c].op # "get" /\ call.op = cacheCall[c].op
      BY <1>4, <2>3, <2>5 DEF Moved
    <3> QED
      BY <1>4, <2>2, <2>5, <3>1, <3>4, <3>5, ChangeGoesOn
  <2> QED
    BY <1>3, <2>1, <2>4, <2>5
<1>9. ASSUME NEW j \in Keys \ doubtful', boots' = 0 PROVE FileKnown(j)'
  <2>1. FileKnown(j) /\ ~Handles(c, j) /\ j \in Keys \ doubtful
    BY <1>1, <1>4, <1>9 DEF CacheInv, Handles, Evicts, Evicting
  <2>2. CASE j # k \/ call # on
    <3>1. files'[j] = files[j]
      BY <1>4, <2>2 DEF CacheInv, CacheTypes
    <3> QED
      BY <1>1, <1>4, <2>1, <3>1, StaysKnown DEF Moved
  <2>3. CASE j = k /\ call = on
    <3>1. Handles(c, j)'
      BY <1>4, <1>5, <2>3 DEF Handles, Moved
    <3> QED
      BY <3>1 DEF FileKnown
  <2> QED
    BY <2>2, <2>3
<1> QED
  BY <1>6, <1>7, <1>8, <1>9 DEF CacheInv

\* With the lock free nobody evicts.
LEMMA LockFree ==
  ASSUME CacheInv, l2owner = NoKey
  PROVE  \A c \in Clients : cacheCall[c].pc \notin Evicting
  BY CacheAssumption DEF CacheInv, CallShape

LEMMA TrackKeeps ==
  ASSUME CacheInv, NEW c \in Clients, Track(c)
  PROVE  CacheInv'
<1> DEFINE k == cacheCall[c].key  v == cacheCall[c].val
           s == Append(RemoveFirst(l2keys, k), k)
           on == [cacheCall[c] EXCEPT !.pc = "demote", !.victim = Head(s)]
<1>1. /\ cacheCall[c].pc = "track" /\ l2owner = NoKey
      /\ \/ l2keys' = s /\ AfterFile(c) /\ UNCHANGED l2owner
         \/ /\ Len(s) > MaxL2 /\ l2keys' = Tail(s) /\ l2owner' = c
            /\ cacheCall' = [cacheCall EXCEPT ![c].pc = "demote", ![c].victim = Head(s)]
      /\ UNCHANGED <<l1, files, l3, puts, boots, newest, doubtful>>
  <2>1. RemoveFirst(l2keys, k) \in Seq(Keys)
    <3>1. CallShape(c) /\ cacheCall[c].pc = "track" /\ cacheCall[c] \in CacheCallType
      BY DEF Track, At, CacheInv, CacheTypes
    <3>2. k \in Keys
      BY <3>1 DEF CallShape, CacheCallType, Deleting
    <3> QED
      BY <3>2, FirstRemoved DEF CacheInv, CacheTypes
  <2>2. Len(s) \in Nat /\ MaxL2 \in Nat
    BY CacheAssumption, <2>1, AppendProperties
  <2>3. At(c, "track") /\ l2owner = NoKey
    BY DEF Track
  <2>4. IF Len(s) <= MaxL2 THEN l2keys' = s /\ AfterFile(c) /\ UNCHANGED l2owner
        ELSE /\ l2keys' = Tail(s) /\ l2owner' = c
             /\ cacheCall' = [cacheCall EXCEPT ![c].pc = "demote", ![c].victim = Head(s)]
    BY DEF Track
  <2>5. UNCHANGED <<l1, files, l3, puts, boots, newest, doubtful>>
    BY DEF Track
  <2> HIDE DEF s
  <2> QED
    BY <2>2, <2>3, <2>4, <2>5 DEF At
<1>2. CallShape(c) /\ cacheCall[c] \in CacheCallType /\ l2keys \in Seq(Keys) /\ NoRepeat(l2keys)
  BY DEF CacheInv, CacheTypes
<1>3. cacheCall[c].op \in {"get", "put"} /\ k \in Keys /\ v \in Nat
  BY <1>1, <1>2 DEF CallShape, CacheCallType, Deleting
<1>4. s \in Seq(Keys) /\ NoRepeat(s) /\ s # <<>> /\ ToSet(l2keys) \cup {k} \subseteq ToSet(s)
  <2> DEFINE w == RemoveFirst(l2keys, k)
  <2>1. w \in Seq(Keys) /\ NoRepeat(w) /\ ToSet(w) = ToSet(l2keys) \ {k}
    BY <1>2, FirstRemoved
  <2> HIDE DEF w
  <2>2. /\ Append(w, k) \in Seq(Keys) /\ Append(w, k) # <<>> /\ ToSet(Append(w, k)) = ToSet(w) \cup {k}
        /\ NoRepeat(Append(w, k))
    BY <1>3, <2>1, Appended
  <2>3. s = Append(w, k)
    BY DEF w
  <2> QED
    BY <2>1, <2>2, <2>3
<1> HIDE DEF s
<1>5. /\ Head(s) \in Keys /\ Tail(s) \in Seq(Keys) /\ NoRepeat(Tail(s))
      /\ ToSet(s) \subseteq ToSet(Tail(s)) \cup {Head(s)}
  BY <1>4, Shortened
<1>6. PICK call :
        /\ Moved(c, call)
        /\ \/ /\ \/ call = Idle /\ cacheCall[c].op = "put"
                 \/ call = [cacheCall[c] EXCEPT !.pc = "promote"]
              /\ l2keys' = s /\ l2owner' = l2owner
           \/ call = on /\ l2keys' = Tail(s) /\ l2owner' = c
  <2>1. CASE l2keys' = s /\ AfterFile(c) /\ UNCHANGED l2owner
    BY <1>3, <2>1, AfterFileMoves
  <2>2. CASE /\ Len(s) > MaxL2 /\ l2keys' = Tail(s) /\ l2owner' = c
             /\ cacheCall' = [cacheCall EXCEPT ![c].pc = "demote", ![c].victim = Head(s)]
    <3>1. DOMAIN cacheCall = Clients /\ \A d \in Clients : cacheCall[d] \in CacheCallType
      BY DEF CacheInv, CacheTypes
    <3>2. cacheCall'[c] = on /\ \A d \in Clients \ {c} : cacheCall'[d] = cacheCall[d]
      BY <2>2, <3>1
    <3>3. cacheCall' = [d \in Clients |-> cacheCall'[d]]
      BY <2>2, <3>1
    <3>6. on \in CacheCallType
      BY <1>2, <1>5 DEF CacheCallType, Evicting
    <3> HIDE DEF on
    <3>4. \A d \in Clients : cacheCall'[d] \in CacheCallType
      BY <3>1, <3>2, <3>6
    <3>5. cacheCall' \in [Clients -> CacheCallType]
      BY <3>3, <3>4
    <3> QED
      BY <2>2, <3>2, <3>5 DEF Moved
  <2> QED
    BY <1>1, <2>1, <2>2
<1>7. /\ \/ call = Idle /\ cacheCall[c].op = "put" /\ l2keys' = s /\ l2owner' = NoKey
         \/ /\ call.op = cacheCall[c].op /\ call.key = k /\ call.val = v
            /\ \/ call.pc = "promote" /\ l2keys' = s /\ l2owner' = NoKey
               \/ /\ call.pc = "demote" /\ call.victim = Head(s) /\ l2keys' = Tail(s) /\ l2owner' = c
      /\ call.pc # "evict" /\ call.key \in {k, NoKey} /\ call.op # "clear"
  <2>1. /\ on.op = cacheCall[c].op /\ on.key = k /\ on.val = v /\ on.pc = "demote" /\ on.victim = Head(s)
    BY <1>2 DEF CacheCallType
  <2>2. LET next == [cacheCall[c] EXCEPT !.pc = "promote"]
        IN next.op = cacheCall[c].op /\ next.key = k /\ next.val = v /\ next.pc = "promote"
    BY <1>2 DEF CacheCallType
  <2> HIDE DEF on
  <2>3. CASE call = Idle
    BY <1>1, <1>6, <2>1, <2>3 DEF Idle
  <2>4. CASE call # Idle
    BY <1>1, <1>3, <1>6, <2>1, <2>2, <2>4
  <2> QED
    BY <2>3, <2>4
<1> HIDE DEF on
<1>8. \A d \in Clients : cacheCall[d].pc \notin Evicting
  BY <1>1, LockFree
<1>9. \A d \in Clients : CallShape(d)'
  BY <1>3, <1>5, <1>6, <1>7, <1>8, ShapesKept DEF Evicting
<1>10. CacheTypes'
  BY <1>1, <1>4, <1>5, <1>6 DEF CacheInv, CacheTypes, Moved
<1>11. ASSUME NEW j \in Keys \ doubtful' PROVE KeyServed(j)'
  <2>0. /\ j \in Keys \ doubtful /\ SameLevels(j) /\ (L1Newest(j) => L1Newest(j)')
        /\ (BelowNewest(j) => BelowNewest(j)')
    BY <1>1 DEF SameLevels, L1Newest, BelowNewest
  <2>1. CASE j # k
    <3>1. ~Concerns(c, j) /\ ~Concerns(c, j)' /\ cacheCall'[c].pc # "evict"
      BY <1>3, <1>6, <1>7, <2>1, CacheAssumption DEF Concerns, Moved
    <3> QED
      BY <1>6, <2>0, <3>1, Elsewhere DEF Moved
  <2>2. call # Idle => /\ cacheCall'[c].op = cacheCall[c].op /\ cacheCall'[c].val = v /\ cacheCall'[c].key = k
                       /\ cacheCall'[c].pc \in {"promote", "demote"}
    BY <1>6, <1>7 DEF Moved
  <2>3. CASE j = k /\ cacheCall[c].op = "get"
    <3>1. L1Newest(j) /\ BelowNewest(j) /\ CallOn(c, j)
      BY <2>0, <2>3, OnGet
    <3>2. v = newest[j] /\ call # Idle
      BY <1>1, <1>6, <1>7, <2>3, <3>1 DEF CallOn, Idle
    <3>3. CallOn(c, j)'
      BY <2>0, <2>2, <2>3, <3>2 DEF CallOn, SameLevels
    <3>4. newest'[j] = newest[j] /\ l3'[j] = l3[j]
      BY <2>0 DEF SameLevels
    <3> QED
      BY <1>6, <1>7, <2>0, <2>3, <3>1, <3>2, <3>3, <3>4, GetGoesOn
  <2>4. CASE j = k /\ cacheCall[c].op = "put"
    <3>1. Concerns(c, j) /\ CallOn(c, j)
      BY <2>0, <2>4, OnChange DEF Concerns
    <3>2. v = newest[j] /\ newest[j] # 0 /\ L1Newest(j) /\ BelowNewest(j)
      BY <1>1, <2>4, <3>1 DEF CallOn
    <3>3. \A d \in Clients : cacheCall'[d].pc # "evict"
      BY <1>6, <1>7, <1>8 DEF Moved, Evicting
    <3>4. CASE call = Idle
      BY <1>6, <2>0, <2>4, <3>1, <3>2, <3>3, <3>4, ChangeGoesOn
    <3>5. CASE call # Idle
      <4>1. /\ cacheCall'[c].op = "put" /\ cacheCall'[c].val = newest'[j] /\ newest'[j] # 0
            /\ cacheCall'[c].key = j /\ L1Newest(j)' /\ BelowNewest(j)'
        BY <2>0, <2>2, <2>4, <3>2, <3>5 DEF SameLevels
      <4>2. Concerns(c, j)' /\ CallOn(c, j)' /\ call.op = cacheCall[c].op /\ cacheCall[c].op # "get"
        BY <1>6, <2>4, <4>1 DEF Concerns, CallOn, Moved
      <4> QED
        BY <1>6, <2>0, <3>1, <3>3, <4>2, ChangeGoesOn
    <3> QED
      BY <3>4, <3>5
  <2> QED
    BY <1>3, <2>1, <2>3, <2>4
<1>12. ASSUME NEW j \in Keys \ doubtful', boots' = 0 PROVE FileKnown(j)'
  <2>1. FileKnown(j) /\ files'[j] = files[j]
    BY <1>1, <1>12 DEF CacheInv
  <2>2. Handles(c, j) => j = k
    BY <1>1 DEF Handles, Evicts, Evicting
  <2>3. j \in ToSet(s) => j \in ToSet(l2keys') \/ Handles(c, j)'
    BY <1>5, <1>6, <1>7 DEF Handles, Evicts, Evicting, Moved
  <2> QED
    BY <1>4, <1>6, <2>1, <2>2, <2>3, StaysKnown DEF Moved
<1> QED
  BY <1>9, <1>10, <1>11, <1>12 DEF CacheInv

\* Only the holder of the lock evicts.
LEMMA OneEvicts ==
  ASSUME CacheInv, NEW c \in Clients, cacheCall[c].pc \in Evicting
  PROVE  /\ cacheCall[c].op \in {"get", "put"} /\ cacheCall[c].key \in Keys
         /\ cacheCall[c].victim \in Keys /\ l2owner = c
         /\ \A d \in Clients \ {c} : cacheCall[d].pc \notin Evicting
<1>1. CallShape(c) /\ cacheCall[c] \in CacheCallType
  BY DEF CacheInv, CacheTypes
<1>2. ASSUME NEW d \in Clients \ {c} PROVE cacheCall[d].pc \notin Evicting
  BY <1>1 DEF CacheInv, CallShape
<1>3. cacheCall[c].op \in {"get", "put"} /\ cacheCall[c].key \in Keys
  BY <1>1 DEF CallShape, CacheCallType, Evicting, Deleting
<1> QED
  BY <1>1, <1>2, <1>3 DEF CallShape

\* A call that will not replace k everywhere: k has what it should in the levels below L1, or
\* there is another call that will.
LEMMA DemotedOrOverruled ==
  ASSUME CacheInv, NEW c \in Clients, cacheCall[c].pc = "demote", NEW k \in Keys \ doubtful
  PROVE  BelowNewest(k) \/ \E d \in Clients \ {c} : Overrules(d, k)
<1>1. KeyServed(k)
  BY DEF CacheInv
<1>2. CASE Quiet(k)
  BY <1>1, <1>2 DEF KeyServed
<1>3. CASE ~Quiet(k)
  <2>1. PICK d \in Clients : Concerns(d, k) /\ cacheCall[d].op # "get"
    BY <1>3 DEF Quiet
  <2>2. CallShape(d) /\ cacheCall[d] \in CacheCallType /\ CallOn(d, k)
    BY <1>1, <2>1 DEF CacheInv, CacheTypes, KeyServed
  <2>3. cacheCall[d].op # "none"
    BY <2>1, <2>2, CacheAssumption DEF CallShape, Concerns
  <2>4. CASE cacheCall[d].op \in {"delete", "clear"}
    <3>1. d # c
      BY <2>4, OneEvicts DEF Evicting
    <3> QED
      BY <2>1, <2>4, <3>1 DEF Overrules
  <2>5. CASE cacheCall[d].op = "put"
    <3>1. cacheCall[d].pc \in {"promote", "writeFile", "track"} \cup Evicting
      BY <2>2, <2>5 DEF CallShape, CacheCallType
    <3>2. CASE cacheCall[d].pc \in Evicting
      BY <2>2, <2>5, <3>2 DEF CallOn, Evicting
    <3>3. CASE cacheCall[d].pc \in {"promote", "writeFile", "track"}
      BY <2>1, <2>5, <3>3 DEF Overrules
    <3> QED
      BY <3>1, <3>2, <3>3
  <2> QED
    BY <2>1, <2>2, <2>3, <2>4, <2>5 DEF CacheCallType
<1> QED
  BY <1>2, <1>3

LEMMA DemoteKeeps ==
  ASSUME CacheInv, NEW c \in Clients, Demote(c)
  PROVE  CacheInv'
<1> DEFINE x == cacheCall[c].victim
           on == [cacheCall[c] EXCEPT !.pc = "evict"]
<1>1. /\ cacheCall[c].pc = "demote" /\ GoOn(c, "evict")
      /\ \/ l3' = l3 /\ doubtful' = doubtful /\ (files[x] = 0 \/ l3[x] \in {0, files[x]})
         \/ l3' = l3 /\ doubtful' = doubtful \cup {x}
         \/ l3' = [l3 EXCEPT ![x] = files[x]] /\ doubtful' = doubtful /\ files[x] # 0
      /\ UNCHANGED <<l1, l2keys, l2owner, files, puts, boots, newest>>
  BY DEF Demote, At, Readable
<1>2. /\ cacheCall[c].op \in {"get", "put"} /\ cacheCall[c].key \in Keys /\ x \in Keys /\ l2owner = c
      /\ \A d \in Clients \ {c} : cacheCall[d].pc \notin Evicting
  BY <1>1, OneEvicts DEF Evicting
<1>3. cacheCall[c] \in CacheCallType /\ doubtful \subseteq Keys /\ l3 \in [Keys -> Nat] /\ files \in [Keys -> Nat]
  BY DEF CacheInv, CacheTypes
<1>4. Moved(c, on)
  BY <1>1, GoesOn
<1>5. /\ on.op = cacheCall[c].op /\ on.key = cacheCall[c].key /\ on.pc = "evict" /\ on.victim = x
      /\ on.val = cacheCall[c].val
  BY <1>3 DEF CacheCallType
<1> HIDE DEF on
<1>6. \A d \in Clients : CallShape(d)'
  BY <1>1, <1>2, <1>4, <1>5, ShapesKept DEF Evicting
<1>7. CacheTypes'
  BY <1>1, <1>2, <1>3, <1>4 DEF CacheInv, CacheTypes, Moved
<1>8. ASSUME NEW j \in Keys \ doubtful' PROVE KeyServed(j)'
  <2>1. j \in Keys \ doubtful /\ KeyServed(j)
    BY <1>1 DEF CacheInv
  <2>2. /\ cacheCall'[c] = on /\ \A d \in Clients \ {c} : cacheCall'[d] = cacheCall[d]
        /\ \A d \in Clients : cacheCall'[d].op = cacheCall[d].op /\ cacheCall'[d].key = cacheCall[d].key
    BY <1>4, <1>5 DEF Moved
  <2>3. \A d \in Clients : Concerns(d, j)' <=> Concerns(d, j)
    BY <2>2 DEF Concerns
  <2>4. files'[j] = files[j] /\ newest'[j] = newest[j] /\ l1' = l1
    BY <1>1
  <2>5. BelowNewest(j) =>
          BelowNewest(j)' /\ (j = x \/ l3[j] \in {0, newest[j]} => l3'[j] \in {0, newest[j]})
    <3>1. l3'[j] = l3[j] \/ (j = x /\ l3'[j] = files[j] /\ files[j] # 0)
      BY <1>1, <1>2, <1>3
    <3>2. j = x => l3'[j] = files[j] \/ files[j] = 0 \/ l3[j] \in {0, files[j]}
      BY <1>1, <1>2, <1>3
    <3> QED
      BY <2>4, <3>1, <3>2 DEF BelowNewest
  <2>6. L1Newest(j)' <=> L1Newest(j)
    BY <2>4 DEF L1Newest
  <2>7. Quiet(j)' => L1Newest(j)' /\ BelowNewest(j)'
    BY <2>1, <2>2, <2>3, <2>5, <2>6 DEF KeyServed, Quiet
  <2>8. ASSUME NEW d \in Clients, Concerns(d, j) PROVE CallOn(d, j)'
    <3>1. CallOn(d, j) /\ cacheCall'[d].val = cacheCall[d].val
      BY <1>5, <2>1, <2>2, <2>8 DEF KeyServed
    <3>2. cacheCall'[d].pc = cacheCall[d].pc \/ (cacheCall[d].pc = "demote" /\ cacheCall'[d].pc = "evict")
      BY <1>1, <1>5, <2>2
    <3>3. InL1(j)' <=> InL1(j)
      BY <2>4 DEF InL1
    <3>4. CASE cacheCall[d].op = "get"
      <4>1. cacheCall[d].key = j /\ BelowNewest(j)
        <5>1. cacheCall[d].key = j
          BY <2>8, <3>4 DEF Concerns
        <5> QED
          BY <2>1, <3>4, <5>1, OnGet
      <4> QED
        BY <2>2, <2>4, <2>5, <3>1, <3>2, <3>4, <4>1 DEF CallOn
    <3>5. CASE cacheCall[d].op # "get"
      BY <2>2, <2>4, <2>5, <2>6, <3>1, <3>2, <3>3, <3>5 DEF CallOn
    <3> QED
      BY <3>4, <3>5
  <2>9. ASSUME NEW d \in Clients, Evicts(d, j)', cacheCall'[d].pc = "evict"
        PROVE  l3'[j] \in {0, newest'[j]} \/ \E e \in Clients : Overrules(e, j)'
    <3>1. d = c /\ j = x
      BY <1>2, <1>5, <2>2, <2>9 DEF Evicts, Evicting
    <3>2. BelowNewest(j) \/ \E e \in Clients \ {c} : Overrules(e, j)
      BY <1>1, <2>1, DemotedOrOverruled
    <3>3. \A e \in Clients \ {c} : Overrules(e, j) => Overrules(e, j)'
      BY <2>2, <2>3 DEF Overrules
    <3> QED
      BY <2>4, <2>5, <3>1, <3>2, <3>3
  <2> QED
    BY <2>1, <2>2, <2>3, <2>7, <2>8, <2>9 DEF KeyServed
<1>9. ASSUME NEW j \in Keys \ doubtful', boots' = 0 PROVE FileKnown(j)'
  <2>1. FileKnown(j) /\ files'[j] = files[j] /\ l2keys' = l2keys
    BY <1>1, <1>9 DEF CacheInv
  <2>2. Handles(c, j) => Handles(c, j)'
    BY <1>1, <1>4, <1>5 DEF Handles, Evicts, Evicting, Moved
  <2> QED
    BY <1>4, <2>1, <2>2, StaysKnown DEF Moved
<1> QED
  BY <1>6, <1>7, <1>8, <1>9 DEF CacheInv

LEMMA EvictFileKeeps ==
  ASSUME CacheInv, NEW c \in Clients, EvictFile(c)
  PROVE  CacheInv'
<1> DEFINE x == cacheCall[c].victim  k == cacheCall[c].key
<1>1. /\ cacheCall[c].pc = "evict" /\ l2owner' = NoKey /\ AfterFile(c)
      /\ \/ files' = [files EXCEPT ![x] = 0]
         \/ files' = files /\ doubtful' = doubtful \cup {x}
      /\ \/ doubtful' = doubtful /\ \A d \in Beside(c, x) : cacheCall[d].op = "get"
         \/ doubtful' = doubtful \cup {x}
      /\ UNCHANGED <<l1, l2keys, l3, puts, boots, newest>>
  BY DEF EvictFile, At, RemoveFile
<1>2. /\ cacheCall[c].op \in {"get", "put"} /\ k \in Keys /\ x \in Keys /\ l2owner = c
      /\ \A d \in Clients \ {c} : cacheCall[d].pc \notin Evicting
  BY <1>1, OneEvicts DEF Evicting
<1>3. cacheCall[c] \in CacheCallType /\ doubtful \subseteq Keys /\ files \in [Keys -> Nat]
  BY DEF CacheInv, CacheTypes
<1>4. PICK call : Moved(c, call) /\ call = IF cacheCall[c].op = "get" THEN [cacheCall[c] EXCEPT !.pc = "promote"]
                                           ELSE Idle
  BY <1>1, <1>2, AfterFileMoves
<1>5. \/ call = Idle /\ cacheCall[c].op = "put"
      \/ /\ call.op = "get" /\ cacheCall[c].op = "get" /\ call.key = k /\ call.pc = "promote"
         /\ call.val = cacheCall[c].val
  BY <1>2, <1>3, <1>4 DEF CacheCallType
<1>6. \A d \in Clients : CallShape(d)'
  BY <1>2, <1>4, <1>5, ShapesKept
<1>7. CacheTypes'
  BY <1>1, <1>2, <1>3, <1>4 DEF CacheInv, CacheTypes, Moved
<1>8. /\ cacheCall'[c] = call /\ cacheCall'[c].pc # "evict"
      /\ \A d \in Clients \ {c} : cacheCall'[d] = cacheCall[d]
  BY <1>4, <1>5 DEF Moved, Idle
<1>9. ASSUME NEW j \in Keys \ doubtful' PROVE KeyServed(j)'
  <2>1. j \in Keys \ doubtful /\ KeyServed(j)
    BY <1>1 DEF CacheInv
  <2>2. \A d \in Clients : Concerns(d, j)' => Concerns(d, j) /\ cacheCall'[d].op = cacheCall[d].op
    BY <1>2, <1>5, <1>8, CacheAssumption DEF Concerns, Idle
  <2>3. l3'[j] = l3[j] /\ newest'[j] = newest[j] /\ l1' = l1 /\ (files'[j] = files[j] \/ files'[j] = 0)
    BY <1>1, <1>3
  <2>4. j = x => l3[j] \in {0, newest[j]}
    <3> SUFFICES ASSUME j = x PROVE l3[j] \in {0, newest[j]}
      OBVIOUS
    <3>1. \A d \in Clients \ {c} : Concerns(d, j) => cacheCall[d].op = "get"
      BY <1>1, <2>1 DEF Beside, Concerns
    <3>2. \A d \in Clients : ~Overrules(d, j)
      BY <1>1, <1>2, <3>1 DEF Overrules
    <3> QED
      BY <1>1, <2>1, <3>2 DEF KeyServed, Evicts, Evicting
  <2>5. BelowNewest(j) => BelowNewest(j)'
    <3>1. j # x => files'[j] = files[j]
      BY <1>1, <1>3
    <3> QED
      BY <2>3, <2>4, <3>1 DEF BelowNewest
  <2>6. (L1Newest(j)' <=> L1Newest(j)) /\ (InL1(j)' <=> InL1(j))
    BY <2>3 DEF L1Newest, InL1
  <2>7. Quiet(j)' => L1Newest(j)' /\ BelowNewest(j)'
    <3>1. CASE Quiet(j)
      BY <2>1, <2>5, <2>6, <3>1 DEF KeyServed
    <3>2. CASE ~Quiet(j) /\ Quiet(j)'
      <4>1. Concerns(c, j) /\ cacheCall[c].op = "put"
        BY <1>2, <1>8, <3>2 DEF Quiet, Concerns
      <4>2. CallOn(c, j)
        BY <2>1, <4>1 DEF KeyServed
      <4> QED
        BY <1>1, <2>5, <2>6, <4>1, <4>2 DEF CallOn
    <3> QED
      BY <3>1, <3>2
  <2>8. ASSUME NEW d \in Clients, Concerns(d, j)' PROVE CallOn(d, j)'
    <3>1. CallOn(d, j) /\ cacheCall'[d].op = cacheCall[d].op
      BY <2>1, <2>2, <2>8 DEF KeyServed
    <3>2. CASE d = c
      <4>1. cacheCall'[c].op = "get" /\ cacheCall'[c].pc = "promote" /\ cacheCall'[c].val = cacheCall[c].val
        BY <1>5, <1>8, <2>8, <3>2, CacheAssumption DEF Concerns, Idle
      <4> QED
        BY <1>1, <2>3, <3>1, <3>2, <4>1 DEF CallOn
    <3>3. CASE d # c
      <4>1. cacheCall'[d] = cacheCall[d]
        BY <1>8, <3>3
      <4> QED
        BY <2>3, <2>5, <2>6, <3>1, <4>1 DEF CallOn
    <3> QED
      BY <3>2, <3>3
  <2>9. \A d \in Clients : cacheCall'[d].pc # "evict"
    BY <1>2, <1>8 DEF Evicting
  <2> QED
    BY <2>1, <2>2, <2>7, <2>8, <2>9 DEF KeyServed
<1>10. ASSUME NEW j \in Keys \ doubtful', boots' = 0 PROVE FileKnown(j)'
  <2>1. FileKnown(j) /\ j \in Keys \ doubtful
    BY <1>1, <1>10 DEF CacheInv
  <2>2. CASE j = x
    BY <1>1, <1>2, <1>3, <2>2 DEF FileKnown
  <2>3. CASE j # x
    <3>1. files'[j] = files[j] /\ ~Handles(c, j)
      BY <1>1, <1>3, <2>3 DEF Handles, Evicts
    <3> QED
      BY <1>1, <1>8, <2>1, <3>1, StaysKnown
  <2> QED
    BY <2>2, <2>3
<1> QED
  BY <1>6, <1>7, <1>9, <1>10 DEF CacheInv

LEMMA UntrackKeeps ==
  ASSUME CacheInv, NEW c \in Clients, Untrack(c)
  PROVE  CacheInv'
<1> DEFINE k == cacheCall[c].key
           on == [cacheCall[c] EXCEPT !.pc = "unlink"]
<1>1. /\ cacheCall[c].pc = "untrack" /\ l2owner = NoKey /\ l2keys' = RemoveFirst(l2keys, k) /\ GoOn(c, "unlink")
      /\ UNCHANGED <<l1, l2owner, files, l3, puts, boots, newest, doubtful>>
  BY DEF Untrack, At
<1>2. CallShape(c) /\ cacheCall[c] \in CacheCallType /\ l2keys \in Seq(Keys) /\ NoRepeat(l2keys)
  BY DEF CacheInv, CacheTypes
<1>3. cacheCall[c].op = "delete" /\ k \in Keys
  BY <1>1, <1>2 DEF CallShape, CacheCallType, Deleting
<1>4. RemoveFirst(l2keys, k) \in Seq(Keys) /\ NoRepeat(RemoveFirst(l2keys, k))
      /\ ToSet(RemoveFirst(l2keys, k)) = ToSet(l2keys) \ {k}
  BY <1>2, <1>3, FirstRemoved
<1>5. Moved(c, on)
  BY <1>1, GoesOn
<1>6. on.op = "delete" /\ on.key = k /\ on.pc = "unlink"
  BY <1>2, <1>3 DEF CacheCallType
<1> HIDE DEF on
<1>7. /\ cacheCall'[c] = on /\ \A d \in Clients \ {c} : cacheCall'[d] = cacheCall[d]
      /\ \A d \in Clients : cacheCall'[d].pc \notin Evicting
  BY <1>1, <1>5, <1>6, LockFree DEF Moved, Evicting
<1>8. \A d \in Clients : CallShape(d)'
  BY <1>1, <1>3, <1>5, <1>6, ShapesKept
<1>9. CacheTypes'
  BY <1>1, <1>4, <1>5 DEF CacheInv, CacheTypes, Moved
<1>10. ASSUME NEW j \in Keys \ doubtful' PROVE KeyServed(j)'
  <2>1. SameLevels(j) /\ j \in Keys \ doubtful
    BY <1>1 DEF SameLevels
  <2>2. CASE j # k
    <3>1. ~Concerns(c, j) /\ ~Concerns(c, j)' /\ cacheCall'[c].pc # "evict"
      BY <1>3, <1>6, <1>7, <2>2 DEF Concerns
    <3> QED
      BY <1>7, <2>1, <3>1, Elsewhere
  <2>3. CASE j = k
    <3>1. Concerns(c, j) /\ CallOn(c, j) /\ cacheCall[c].op # "get"
      BY <1>3, <2>1, <2>3, OnChange DEF Concerns
    <3>2. Concerns(c, j)' /\ CallOn(c, j)' /\ on.op = cacheCall[c].op
      BY <1>1, <1>3, <1>6, <1>7, <2>3, <3>1 DEF Concerns, CallOn, InL1
    <3> QED
      BY <1>5, <1>7, <2>1, <3>1, <3>2, ChangeGoesOn DEF Evicting
  <2> QED
    BY <2>2, <2>3
<1>11. ASSUME NEW j \in Keys \ doubtful', boots' = 0 PROVE FileKnown(j)'
  <2>1. FileKnown(j) /\ files'[j] = files[j]
    BY <1>1, <1>11 DEF CacheInv
  <2>2. j \in ToSet(l2keys) \/ Handles(c, j) => j \in ToSet(l2keys') \/ Handles(c, j)'
    BY <1>1, <1>4, <1>6, <1>7 DEF Handles, Evicts, Evicting
  <2> QED
    BY <1>7, <2>1, <2>2, StaysKnown
<1> QED
  BY <1>8, <1>9, <1>10, <1>11 DEF CacheInv

LEMMA UnlinkKeeps ==
  ASSUME CacheInv, NEW c \in Clients, Unlink(c)
  PROVE  CacheInv'
<1> DEFINE k == cacheCall[c].key
           on == [cacheCall[c] EXCEPT !.pc = "deleteObject"]
<1>1. /\ cacheCall[c].pc = "unlink" /\ GoOn(c, "deleteObject")
      /\ \/ files' = [files EXCEPT ![k] = 0] /\ doubtful' = doubtful
         \/ files' = files /\ doubtful' = doubtful \cup {k}
      /\ UNCHANGED <<l1, l2keys, l2owner, l3, puts, boots, newest>>
  BY DEF Unlink, At, RemoveFile
<1>2. CallShape(c) /\ cacheCall[c] \in CacheCallType /\ files \in [Keys -> Nat] /\ doubtful \subseteq Keys
  BY DEF CacheInv, CacheTypes
<1>3. cacheCall[c].op = "delete" /\ k \in Keys
  BY <1>1, <1>2 DEF CallShape, CacheCallType, Deleting
<1>4. Moved(c, on)
  BY <1>1, GoesOn
<1>5. on.op = "delete" /\ on.key = k /\ on.pc = "deleteObject"
  BY <1>2, <1>3 DEF CacheCallType
<1> HIDE DEF on
<1>6. cacheCall'[c] = on /\ \A d \in Clients \ {c} : cacheCall'[d] = cacheCall[d]
  BY <1>4 DEF Moved
<1>7. \A d \in Clients : CallShape(d)'
  BY <1>1, <1>3, <1>4, <1>5, ShapesKept
<1>8. CacheTypes'
  <2>1. files' \in [Keys -> Nat] /\ doubtful' \subseteq Keys
    BY <1>1, <1>2, <1>3
  <2> QED
    BY <1>1, <1>4, <2>1 DEF CacheInv, CacheTypes, Moved
<1>9. ASSUME NEW j \in Keys \ doubtful' PROVE KeyServed(j)'
  <2>1. j \in Keys \ doubtful /\ (j # k => SameLevels(j)) /\ (j = k => files'[j] = 0)
    BY <1>1, <1>2 DEF SameLevels
  <2>2. CASE j # k
    <3>1. ~Concerns(c, j) /\ ~Concerns(c, j)' /\ cacheCall'[c].pc # "evict"
      BY <1>3, <1>5, <1>6, <2>2 DEF Concerns
    <3> QED
      BY <1>6, <2>1, <2>2, <3>1, Elsewhere
  <2>3. CASE j = k
    <3>1. Concerns(c, j) /\ CallOn(c, j) /\ cacheCall[c].op # "get"
      BY <1>3, <2>1, <2>3, OnChange DEF Concerns
    <3>2. Concerns(c, j)' /\ CallOn(c, j)' /\ on.op = cacheCall[c].op /\ Overrules(c, j)'
      BY <1>1, <1>3, <1>5, <1>6, <2>1, <2>3, <3>1 DEF Concerns, CallOn, InL1, Overrules
    <3> QED
      BY <1>4, <2>1, <3>1, <3>2, ChangeGoesOn
  <2> QED
    BY <2>2, <2>3
<1>10. ASSUME NEW j \in Keys \ doubtful', boots' = 0 PROVE FileKnown(j)'
  <2>1. FileKnown(j)
    BY <1>1, <1>10 DEF CacheInv
  <2>2. CASE j = k
    BY <1>1, <1>2, <1>3, <2>2 DEF FileKnown
  <2>3. CASE j # k
    <3>1. files'[j] = files[j] /\ ~Handles(c, j)
      BY <1>1, <1>2, <2>3 DEF Handles, Evicts, Evicting
    <3> QED
      BY <1>1, <1>6, <2>1, <3>1, StaysKnown
  <2> QED
    BY <2>2, <2>3
<1> QED
  BY <1>7, <1>8, <1>9, <1>10 DEF CacheInv

LEMMA DeleteObjectKeeps ==
  ASSUME CacheInv, NEW c \in Clients, DeleteObject(c)
  PROVE  CacheInv'
<1> DEFINE k == cacheCall[c].key
<1>1. /\ cacheCall[c].pc = "deleteObject" /\ Finish(c)
      /\ \/ l3' = [l3 EXCEPT ![k] = 0] /\ doubtful' = doubtful
         \/ l3' = l3 /\ doubtful' = doubtful /\ l3[k] = 0
         \/ l3' = l3 /\ doubtful' = doubtful \cup {k}
      /\ UNCHANGED <<l1, l2keys, l2owner, files, puts, boots, newest>>
  BY DEF DeleteObject, At
<1>2. CallShape(c) /\ cacheCall[c] \in CacheCallType /\ l3 \in [Keys -> Nat]
  BY DEF CacheInv, CacheTypes
<1>3. cacheCall[c].op = "delete" /\ k \in Keys
  BY <1>1, <1>2 DEF CallShape, CacheCallType, Deleting
<1>4. Moved(c, Idle)
  BY <1>1, Finishes
<1>5. cacheCall'[c] = Idle /\ \A d \in Clients \ {c} : cacheCall'[d] = cacheCall[d]
  BY <1>4 DEF Moved
<1>6. \A d \in Clients : CallShape(d)'
  BY <1>1, <1>4, ShapesKept
<1>7. CacheTypes'
  BY <1>1, <1>2, <1>3, <1>4 DEF CacheInv, CacheTypes, Moved
<1>8. ASSUME NEW j \in Keys \ doubtful' PROVE KeyServed(j)'
  <2>1. j \in Keys \ doubtful /\ (j # k => SameLevels(j)) /\ (j = k => l3'[j] = 0)
    BY <1>1, <1>2 DEF SameLevels
  <2>2. CASE j # k
    <3>1. ~Concerns(c, j) /\ ~Concerns(c, j)' /\ cacheCall'[c].pc # "evict"
      BY <1>3, <1>5, <2>2, CacheAssumption DEF Concerns, Idle
    <3> QED
      BY <1>5, <2>1, <2>2, <3>1, Elsewhere
  <2>3. CASE j = k
    <3>1. Concerns(c, j) /\ CallOn(c, j) /\ cacheCall[c].op # "get"
      BY <1>3, <2>1, <2>3, OnChange DEF Concerns
    <3>2. ~InL1(j) /\ files[j] = 0
      BY <1>1, <1>3, <3>1 DEF CallOn
    <3>3. L1Newest(j)' /\ BelowNewest(j)'
      BY <1>1, <2>1, <2>3, <3>2 DEF L1Newest, BelowNewest, InL1
    <3> QED
      BY <1>4, <2>1, <2>3, <3>1, <3>3, ChangeGoesOn
  <2> QED
    BY <2>2, <2>3
<1>9. ASSUME NEW j \in Keys \ doubtful', boots' = 0 PROVE FileKnown(j)'
  <2>1. FileKnown(j) /\ ~Handles(c, j)
    BY <1>1, <1>9 DEF CacheInv, Handles, Evicts, Evicting
  <2> QED
    BY <1>1, <1>5, <2>1, StaysKnown
<1> QED
  BY <1>6, <1>7, <1>8, <1>9 DEF CacheInv

LEMMA ClearFilesKeeps ==
  ASSUME CacheInv, NEW c \in Clients, ClearFiles(c)
  PROVE  CacheInv'
<1> PICK gone \in SUBSET ToSet(l2keys) :
           /\ files' = [k \in Keys |-> IF k \in gone THEN 0 ELSE files[k]]
           /\ doubtful' = doubtful \cup {k \in Keys : files'[k] # 0 \/ l3[k] # 0}
  BY DEF ClearFiles
<1> DEFINE kept == [k \in Keys |-> IF k \in gone THEN 0 ELSE files[k]]
<1>1. /\ cacheCall[c].pc = "clearFiles" /\ l2owner = NoKey /\ files' = kept /\ l2keys' = <<>> /\ Finish(c)
      /\ doubtful' = doubtful \cup {k \in Keys : kept[k] # 0 \/ l3[k] # 0}
      /\ UNCHANGED <<l1, l2owner, l3, puts, boots, newest>>
  BY DEF ClearFiles, At
<1>2. CallShape(c) /\ cacheCall[c].op = "clear"
  BY <1>1 DEF CacheInv, CallShape
<1>3. Moved(c, Idle)
  BY <1>1, Finishes
<1>4. \A d \in Clients : CallShape(d)'
  BY <1>1, <1>3, ShapesKept
<1>5. CacheTypes'
  <2>1. kept \in [Keys -> Nat]
    BY DEF CacheInv, CacheTypes
  <2> HIDE DEF kept
  <2> QED
    BY <1>1, <1>3, <2>1 DEF CacheInv, CacheTypes, Moved, NoRepeat
<1>6. ASSUME NEW j \in Keys \ doubtful' PROVE files'[j] = 0 /\ l3'[j] = 0 /\ j \in Keys \ doubtful
  BY <1>1
<1>7. ASSUME NEW j \in Keys \ doubtful' PROVE KeyServed(j)'
  <2>1. Concerns(c, j) /\ CallOn(c, j) /\ cacheCall[c].op # "get"
    BY <1>2, <1>6, OnChange DEF Concerns
  <2>2. ~InL1(j)
    BY <1>2, <2>1 DEF CallOn
  <2>3. L1Newest(j)' /\ BelowNewest(j)'
    BY <1>1, <1>6, <2>2 DEF L1Newest, BelowNewest, InL1
  <2> QED
    BY <1>3, <1>6, <2>1, <2>3, ChangeGoesOn
<1>8. \A j \in Keys \ doubtful' : FileKnown(j)'
  BY <1>6 DEF FileKnown
<1> QED
  BY <1>4, <1>5, <1>7, <1>8 DEF CacheInv

LEMMA BootKeeps ==
  ASSUME CacheInv, Boot
  PROVE  CacheInv'
<1> USE CacheAssumption
<1>1. /\ cacheCall' = [c \in Clients |-> Idle] /\ l1' = <<>> /\ l2keys' = <<>> /\ l2owner' = NoKey
      /\ boots' = boots + 1 /\ UNCHANGED <<files, l3, puts, newest>> /\ boots \in Nat
  BY DEF Boot, CacheInv, CacheTypes
<1>2. /\ doubtful \subseteq doubtful' /\ doubtful' \subseteq Keys
      /\ \A k \in Keys \ doubtful', c \in Clients : ~Concerns(c, k)
  <2>1. \A c \in Clients : cacheCall[c] \in CacheCallType
    BY DEF CacheInv, CacheTypes
  <2>2. \A c \in Clients : cacheCall[c].key \in Keys \cup {NoKey} /\ cacheCall[c].victim \in Keys \cup {NoKey}
    BY <2>1 DEF CacheCallType
  <2> QED
    BY <2>2 DEF Boot, Concerns, CacheInv, CacheTypes
<1>3. Idle \in CacheCallType
  BY DEF Idle, CacheCallType
<1>4. CacheTypes'
  BY <1>1, <1>2, <1>3 DEF CacheInv, CacheTypes, NoRepeat, EntriesOnce
<1>5. \A c \in Clients : CallShape(c)'
  BY <1>1 DEF CallShape, Idle, Evicting, Deleting
<1>6. ASSUME NEW j \in Keys \ doubtful' PROVE KeyServed(j)'
  <2>1. KeyServed(j) /\ Quiet(j)
    BY <1>2 DEF CacheInv, Quiet
  <2>2. L1Newest(j)' /\ BelowNewest(j)'
    BY <1>1, <2>1 DEF KeyServed, L1Newest, BelowNewest
  <2>3. \A c \in Clients : ~Concerns(c, j)' /\ cacheCall'[c].pc # "evict"
    BY <1>1 DEF Concerns, Idle
  <2> QED
    BY <2>2, <2>3 DEF KeyServed
<1> QED
  BY <1>1, <1>4, <1>5, <1>6 DEF CacheInv

LEMMA CacheInvStep == CacheInv /\ [CacheNext]_cacheVars => CacheInv'
<1> SUFFICES ASSUME CacheInv, [CacheNext]_cacheVars PROVE CacheInv'
  OBVIOUS
<1>1. ASSUME NEW c \in Clients, NEW k \in Keys, Get(c, k) \/ GetHit(c, k) \/ Put(c, k) \/ Delete(c, k)
      PROVE  CacheInv'
  BY <1>1, GetKeeps, GetHitKeeps, PutKeeps, DeleteKeeps
<1>2. ASSUME NEW c \in Clients, Clear(c) \/ CacheStep(c) PROVE CacheInv'
  BY <1>2, ClearKeeps, PromoteKeeps, ReadFileKeeps, ReadObjectKeeps, WriteFileKeeps, TrackKeeps,
     DemoteKeeps, EvictFileKeeps, UntrackKeeps, UnlinkKeeps, DeleteObjectKeeps, ClearFilesKeeps
     DEF CacheStep
<1>3. CASE Boot
  BY <1>3, BootKeeps
<1>4. CASE UNCHANGED cacheVars
  <2>1. /\ UNCHANGED <<l1, l2keys, l2owner, files, l3, cacheCall, puts, boots, newest, doubtful>>
    BY <1>4 DEF cacheVars
  <2>2. CacheTypes' /\ \A c \in Clients : CallShape(c)'
    BY <2>1 DEF CacheInv, CacheTypes, CallShape
  <2>3. ASSUME NEW k \in Keys \ doubtful PROVE KeyServed(k)' /\ (boots' = 0 => FileKnown(k)')
    BY <2>1 DEF CacheInv, KeyServed, Quiet, L1Newest, BelowNewest, CallOn, InL1, Evicts, Overrules,
                Concerns, FileKnown, Handles
  <2> QED
    BY <2>1, <2>2, <2>3 DEF CacheInv
<1> QED
  BY <1>1, <1>2, <1>3, <1>4 DEF CacheNext

\* A key that no call works on is served from the first level that has it, and each level that
\* is asked has the value put last or nothing.
LEMMA CacheInvServes == CacheInv => CacheServesNewest
<1> SUFFICES ASSUME CacheInv, NEW k \in Keys \ doubtful, ~Busy(k) PROVE Served(k) \in {0, newest[k]}
  BY DEF CacheServesNewest
<1>1. L1Newest(k) /\ BelowNewest(k)
  BY DEF CacheInv, KeyServed, Quiet, Concerns, Busy
<1>2. CASE InL1(k)
  BY <1>1, <1>2 DEF Served, L1Value, InL1, L1Newest
<1>3. CASE ~InL1(k)
  BY <1>1, <1>3 DEF Served, Readable, BelowNewest
<1> QED
  BY <1>2, <1>3

\* L1 is never over its capacity, and a file that neither the list nor a call knows is one a
\* restart or a failure left.
LEMMA CacheInvTracks == CacheInv => CacheFilesTracked
  BY DEF CacheInv, CacheTypes, CacheFilesTracked, FileKnown, Handles, Evicts, Busy

\* CacheServesNewest: for any number of keys, threads, puts and restarts and any capacities, no
\* interleaving of calls and evictions makes an undisturbed get return an old value.
THEOREM CacheServes == CacheSpec => []CacheServesNewest
  BY CacheInvInit, CacheInvStep, CacheInvServes, PTL DEF CacheSpec

\* CacheFilesTracked: the eviction can find every file until a restart, a failure or a race.
THEOREM CacheTracks == CacheSpec => []CacheFilesTracked
  BY CacheInvInit, CacheInvStep, CacheInvTracks, PTL DEF CacheSpec

-----------------------------------------------------------------------------
(***************************************************************************)
(* PitrSnapshots: the inductive invariant.                                 *)
(***************************************************************************)
FileNames == {"index", "log", "mark"}
FileMaps == UNION {[S -> SUBSET Nat] : S \in SUBSET FileNames}

DirectoryType ==
  [copied : FileMaps, listed : SUBSET FileNames, meta : BOOLEAN, floor : SUBSET Nat]
TakingType ==
  [dir : 0 .. MaxSeconds, done : 0 .. 2, todo : SUBSET FileNames, listed : SUBSET FileNames,
   floor : SUBSET Nat]

PitrTypes ==
  /\ live \in FileMaps /\ held \subseteq Nat /\ writes \in Nat /\ saving \in 0 .. 3
  /\ saving = 1 => "index" \in DOMAIN live
  /\ dirs \in [1 .. MaxSeconds -> DirectoryType]
  /\ snapPc \in [Snappers -> {"off", "idle", "copy"}]
  /\ taking \in [Snappers -> TakingType]
  /\ restoring \in [dir : 0 .. MaxSeconds, todo : SUBSET FileNames, clean : BOOLEAN]

\* How far a snapshot is: it visits the index first, then the log and its mark.
UnderWay(t) ==
  /\ taking[t].dir \in 1 .. MaxSeconds
  /\ taking[t].todo \subseteq DOMAIN live
  /\ taking[t].listed \subseteq DOMAIN dirs[taking[t].dir].copied
  /\ taking[t].todo \cap taking[t].listed = {}
  /\ taking[t].done = 0 => taking[t].todo = {} /\ taking[t].listed = {}
  /\ taking[t].done = 1 => taking[t].todo \cup taking[t].listed \subseteq {"index"}
  /\ taking[t].done = 2 => "index" \notin taking[t].todo

\* What snapshot t has of file f, or will have when it goes on now.
Coming(t, f) ==
  taking[t].done = 0 \/ f \in taking[t].todo \/ (taking[t].done = 1 /\ f # "index")
Source(t, f) ==
  IF f \in taking[t].listed THEN FileAt(dirs[taking[t].dir].copied, f)
  ELSE IF Coming(t, f) THEN FileAt(Settled, f) ELSE {}
Prospect(t) ==
  IF Source(t, "index") \in {{}, Half} THEN {}
  ELSE Source(t, "index") \cup (Source(t, "log") \ Source(t, "mark"))

\* A snapshot that nothing has spoiled has its directory to itself and can still get all
\* it began with.
Unspoiled(t) ==
  /\ ~dirs[taking[t].dir].meta
  /\ DOMAIN dirs[taking[t].dir].copied = taking[t].listed
  /\ taking[t].floor \subseteq Prospect(t)
  /\ \A u \in Taken : taking[u].dir = taking[t].dir => u = t

\* A finished one lists all its files, and they are enough.
Complete(n) ==
  dirs[n].listed = DOMAIN dirs[n].copied /\ dirs[n].floor \subseteq Recovered(dirs[n].copied)

\* What a restore has copied back is there, until somebody writes.
RestoreUnderWay ==
  /\ restoring.dir = 0 => restoring.todo = {}
  /\ restoring.dir # 0 =>
       /\ dirs[restoring.dir].meta /\ restoring.todo \subseteq DOMAIN dirs[restoring.dir].copied
       /\ restoring.clean /\ restoring.dir \notin mixed =>
            \A f \in dirs[restoring.dir].listed \ restoring.todo :
              f \in DOMAIN live /\ live[f] = dirs[restoring.dir].copied[f]

PitrInv ==
  /\ PitrTypes
  /\ \A t \in Taken : UnderWay(t) /\ (taking[t].dir \notin mixed => Unspoiled(t))
  /\ \A n \in 1 .. MaxSeconds :
       /\ dirs[n].listed \subseteq DOMAIN dirs[n].copied
       /\ dirs[n].meta /\ n \notin mixed => Complete(n)
  /\ RestoreUnderWay

-----------------------------------------------------------------------------
(* Files. *)

LEMMA FileMapFacts ==
  ASSUME NEW m \in FileMaps
  PROVE  /\ DOMAIN m \subseteq FileNames
         /\ \A f \in DOMAIN m : m[f] \in SUBSET Nat
         /\ \A f : FileAt(m, f) \in SUBSET Nat /\ (f \in DOMAIN m => FileAt(m, f) = m[f])
         /\ Recovered(m) \in SUBSET Nat
<1>1. PICK S \in SUBSET FileNames : m \in [S -> SUBSET Nat]
  BY DEF FileMaps
<1>2. DOMAIN m = S /\ \A f \in S : m[f] \in SUBSET Nat
  BY <1>1
<1>3. \A f : FileAt(m, f) \in SUBSET Nat /\ (f \in DOMAIN m => FileAt(m, f) = m[f])
  BY <1>2 DEF FileAt
<1> QED
  BY <1>2, <1>3 DEF Recovered, Loadable

LEMMA ReplacedFile ==
  ASSUME NEW m \in FileMaps, NEW f \in FileNames, NEW s \in SUBSET Nat
  PROVE  /\ Replaced(m, f, s) \in FileMaps
         /\ DOMAIN Replaced(m, f, s) = DOMAIN m \cup {f}
         /\ \A g : FileAt(Replaced(m, f, s), g) = IF g = f THEN s ELSE FileAt(m, g)
<1> DEFINE r == Replaced(m, f, s)
<1>1. DOMAIN m \subseteq FileNames /\ \A g \in DOMAIN m : m[g] \in SUBSET Nat
  BY FileMapFacts
<1>2. DOMAIN r = DOMAIN m \cup {f} /\ \A g \in DOMAIN r : r[g] = IF g = f THEN s ELSE m[g]
  BY DEF Replaced
<1>3. r = [g \in DOMAIN m \cup {f} |-> IF g = f THEN s ELSE m[g]]
  BY DEF Replaced
<1>4. r \in [DOMAIN m \cup {f} -> SUBSET Nat]
  BY <1>1, <1>3
<1>5. r \in FileMaps
  BY <1>1, <1>4 DEF FileMaps
<1>6. \A g : FileAt(r, g) = IF g = f THEN s ELSE FileAt(m, g)
  BY <1>2 DEF FileAt
<1> QED
  BY <1>2, <1>5, <1>6

LEMMA SettledFiles ==
  ASSUME PitrTypes
  PROVE  /\ Settled \in FileMaps /\ DOMAIN Settled = DOMAIN live
         /\ \A f : FileAt(Settled, f) = IF f = "index" /\ saving = 1 THEN held ELSE FileAt(live, f)
<1>1. live \in FileMaps /\ held \in SUBSET Nat /\ (saving = 1 => "index" \in DOMAIN live)
  BY DEF PitrTypes
<1>2. /\ Replaced(live, "index", held) \in FileMaps
      /\ DOMAIN Replaced(live, "index", held) = DOMAIN live \cup {"index"}
      /\ \A f : FileAt(Replaced(live, "index", held), f) = IF f = "index" THEN held ELSE FileAt(live, f)
  <2>1. "index" \in FileNames
    BY DEF FileNames
  <2> QED
    BY <1>1, <2>1, ReplacedFile, ZenonT(40)
<1>3. CASE saving = 1
  <2>1. Settled = Replaced(live, "index", held)
    BY <1>3 DEF Settled
  <2> QED
    BY <1>1, <1>2, <1>3, <2>1
<1>4. CASE saving # 1
  BY <1>1, <1>4 DEF Settled
<1> QED
  BY <1>3, <1>4

-----------------------------------------------------------------------------
(* Steps of the service, of the schedule and of a restore. *)

\* What the snapshots themselves do not do leaves their directories alone; it may write
\* files, take a thread off or put one to sleep, and spoil snapshots.
LEMMA AroundSnapshots ==
  ASSUME PitrInv, PitrTypes', UNCHANGED dirs, Taken' \subseteq Taken,
         \A t \in Taken' : taking'[t] = taking[t],
         DOMAIN live \subseteq DOMAIN live', mixed \subseteq mixed',
         \A t \in Taken' : taking[t].dir \notin mixed' => taking[t].floor \subseteq Prospect(t)',
         RestoreUnderWay'
  PROVE  PitrInv'
<1>1. ASSUME NEW t \in Taken' PROVE (UnderWay(t) /\ (taking[t].dir \notin mixed => Unspoiled(t)))'
  <2>1. /\ t \in Taken /\ taking'[t] = taking[t]
        /\ UnderWay(t) /\ (taking[t].dir \notin mixed' => Unspoiled(t))
    BY <1>1 DEF PitrInv
  <2>2. UnderWay(t)'
    BY <2>1 DEF UnderWay
  <2>3. taking[t].dir \notin mixed' => Unspoiled(t)'
    BY <1>1, <2>1 DEF Unspoiled
  <2> QED
    BY <2>1, <2>2, <2>3
<1>2. \A n \in 1 .. MaxSeconds :
        (dirs[n].listed \subseteq DOMAIN dirs[n].copied /\ (dirs[n].meta /\ n \notin mixed => Complete(n)))'
  BY DEF PitrInv, Complete
<1> QED
  BY <1>1, <1>2 DEF PitrInv

\* What a spoiled snapshot may lose, others may not.
LEMMA NotOvertaken ==
  ASSUME PitrInv, NEW t \in Taken, taking[t].dir \notin mixed, taking[t].dir \notin Overtaken(Settled'),
         PitrTypes',
         UNCHANGED <<dirs, taking>>
  PROVE  taking[t].floor \subseteq Prospect(t)'
<1> DEFINE c == dirs[taking[t].dir].copied
<1>1. /\ UnderWay(t) /\ DOMAIN c = taking[t].listed /\ taking[t].floor \subseteq Prospect(t)
      /\ taking[t].done \in 0 .. 2
  BY DEF PitrInv, Unspoiled, PitrTypes, DirectoryType, TakingType, Taken
<1>2. IF taking[t].done = 0 \/ "index" \in taking[t].todo
      THEN Recovered(Settled) \subseteq Recovered(Settled') ELSE Gone(Settled') \subseteq FileAt(c, "index")
  BY DEF Overtaken
<1>3. CASE taking[t].done = 0 \/ "index" \in taking[t].todo
  <2>1. \A f \in FileNames : Coming(t, f) /\ f \notin taking[t].listed
    BY <1>1, <1>3 DEF UnderWay, Coming, FileNames
  <2>4. \A f \in FileNames : Source(t, f) = FileAt(Settled, f) /\ Source(t, f)' = FileAt(Settled', f)
    BY <2>1 DEF Source, Coming
  <2>2. Prospect(t) = Recovered(Settled)
    BY <2>4 DEF Prospect, Recovered, Loadable, FileNames
  <2>3. Prospect(t)' = Recovered(Settled')
    BY <2>4 DEF Prospect, Recovered, Loadable, FileNames
  <2> QED
    BY <1>1, <1>2, <1>3, <2>2, <2>3
<1>4. CASE ~(taking[t].done = 0 \/ "index" \in taking[t].todo)
  <2>1. Source(t, "index") = FileAt(c, "index") /\ Source(t, "index")' = FileAt(c, "index")
    BY <1>1, <1>4 DEF Source, Coming, FileAt
  <2>0. FileAt(Settled, "log") = FileAt(live, "log") /\ FileAt(Settled, "mark") = FileAt(live, "mark")
    BY SettledFiles DEF PitrInv
  <2>2. Source(t, "log") \ Source(t, "log")' \subseteq Gone(Settled')
    BY <2>0 DEF Source, Coming, Gone
  <2>3. Source(t, "mark")' \ Source(t, "mark") \subseteq Gone(Settled')
    BY <2>0 DEF Source, Coming, Gone
  <2> QED
    BY <1>1, <1>2, <1>4, <2>1, <2>2, <2>3 DEF Prospect
<1> QED
  BY <1>3, <1>4

\* A write, or a step of a checkpoint, ends what a restore promises.
LEMMA WrittenRestore ==
  ASSUME PitrInv, Written, UNCHANGED dirs
  PROVE  RestoreUnderWay' /\ restoring' \in [dir : 0 .. MaxSeconds, todo : SUBSET FileNames, clean : BOOLEAN]
<1>1. restoring \in [dir : 0 .. MaxSeconds, todo : SUBSET FileNames, clean : BOOLEAN]
  BY DEF PitrInv, PitrTypes, DirectoryType, TakingType
<1>2. CASE restoring.todo = {}
  <2>1. restoring' = NoRestore
    BY <1>2 DEF Written
  <2> QED
    BY <2>1, PitrAssumption DEF NoRestore, RestoreUnderWay
<1>3. CASE restoring.todo # {}
  <2>1. restoring' = [restoring EXCEPT !.clean = FALSE]
    BY <1>3 DEF Written
  <2>2. restoring'.dir = restoring.dir /\ restoring'.todo = restoring.todo /\ restoring'.clean = FALSE
        /\ restoring' \in [dir : 0 .. MaxSeconds, todo : SUBSET FileNames, clean : BOOLEAN]
    BY <1>1, <2>1
  <2> QED
    BY <2>2 DEF PitrInv, RestoreUnderWay
<1> QED
  BY <1>2, <1>3

LEMMA WriteKeeps ==
  ASSUME PitrInv, Write
  PROVE  PitrInv'
<1> DEFINE s == FileAt(live, "log") \cup {writes + 1}
<1>1. /\ writes' = writes + 1 /\ held' = held \cup {writes + 1} /\ live' = Replaced(live, "log", s)
      /\ Written /\ saving = 0 /\ UNCHANGED <<saving, dirs, snapPc, taking, mixed>>
  BY DEF Write
<1>2. live \in FileMaps /\ writes \in Nat /\ s \in SUBSET Nat /\ "log" \in FileNames
  BY FileMapFacts DEF PitrInv, PitrTypes, DirectoryType, TakingType, FileNames
<1> HIDE DEF s
<1>3. /\ live' \in FileMaps /\ DOMAIN live \subseteq DOMAIN live'
      /\ \A f : FileAt(live', f) = IF f = "log" THEN s ELSE FileAt(live, f)
  <2>1. /\ Replaced(live, "log", s) \in FileMaps
        /\ DOMAIN Replaced(live, "log", s) = DOMAIN live \cup {"log"}
        /\ \A f : FileAt(Replaced(live, "log", s), f) = IF f = "log" THEN s ELSE FileAt(live, f)
    BY <1>2, ReplacedFile, ZenonT(40)
  <2> QED
    BY <1>1, <2>1
<1>4. RestoreUnderWay' /\ restoring' \in [dir : 0 .. MaxSeconds, todo : SUBSET FileNames, clean : BOOLEAN]
  BY <1>1, WrittenRestore
<1>5. PitrTypes'
  BY <1>1, <1>2, <1>3, <1>4 DEF PitrInv, PitrTypes, DirectoryType, TakingType
<1>6. ASSUME NEW t \in Taken, taking[t].dir \notin mixed' PROVE taking[t].floor \subseteq Prospect(t)'
  <2>1. taking[t].floor \subseteq Prospect(t)
    BY <1>1, <1>6 DEF PitrInv, Unspoiled
  <2>0. Settled = live /\ Settled' = live'
    BY <1>1 DEF Settled
  <2>2. Source(t, "index")' = Source(t, "index") /\ Source(t, "mark")' = Source(t, "mark")
    BY <1>1, <1>3, <2>0 DEF Source, Coming
  <2>3. Source(t, "log") \subseteq Source(t, "log")'
    BY <1>1, <1>3, <2>0 DEF Source, Coming, s
  <2> QED
    BY <2>1, <2>2, <2>3 DEF Prospect
<1>7. Taken' = Taken
  BY <1>1 DEF Taken
<1> QED
  BY <1>1, <1>3, <1>4, <1>5, <1>6, <1>7, AroundSnapshots

LEMMA CheckpointKeeps ==
  ASSUME PitrInv, OpenIndexFile \/ SaveIndexFile \/ CheckpointLog
  PROVE  PitrInv'
<1>0. saving \in 0 .. 3
  BY DEF PitrInv, PitrTypes
<1>1. /\ \E f \in FileNames, s \in {held, {}, Half} :
           live' = Replaced(live, f, s) /\ (saving' = 1 => f = "index")
      /\ saving' \in 0 .. 3 /\ Written /\ mixed' = mixed \cup Overtaken(Settled')
      /\ UNCHANGED <<held, writes, dirs, snapPc, taking>>
  <2>1. CASE OpenIndexFile
    BY <2>1 DEF OpenIndexFile, FileNames
  <2>2. CASE SaveIndexFile
    BY <2>2 DEF SaveIndexFile, FileNames
  <2>3. CASE CheckpointLog
    BY <1>0, <2>3 DEF CheckpointLog, FileNames
  <2> QED
    BY <2>1, <2>2, <2>3
<1>2. live \in FileMaps /\ held \in SUBSET Nat
  BY DEF PitrInv, PitrTypes, DirectoryType, TakingType
<1>3. live' \in FileMaps /\ DOMAIN live \subseteq DOMAIN live' /\ (saving' = 1 => "index" \in DOMAIN live')
  <2>1. PICK f \in FileNames, s \in {held, {}, Half} :
          live' = Replaced(live, f, s) /\ (saving' = 1 => f = "index")
    BY <1>1
  <2>2. s \in SUBSET Nat
    BY <1>2 DEF Half
  <2>3. Replaced(live, f, s) \in FileMaps /\ DOMAIN Replaced(live, f, s) = DOMAIN live \cup {f}
    BY <1>2, <2>2, ReplacedFile
  <2> QED
    BY <2>1, <2>3
<1>4. RestoreUnderWay' /\ restoring' \in [dir : 0 .. MaxSeconds, todo : SUBSET FileNames, clean : BOOLEAN]
  BY <1>1, WrittenRestore
<1>5. PitrTypes'
  BY <1>1, <1>2, <1>3, <1>4 DEF PitrInv, PitrTypes, DirectoryType, TakingType
<1>6. \A t \in Taken : taking[t].dir \notin mixed' => taking[t].floor \subseteq Prospect(t)'
  BY <1>1, <1>5, NotOvertaken
<1>7. Taken' = Taken
  BY <1>1 DEF Taken
<1> QED
  BY <1>1, <1>3, <1>4, <1>5, <1>6, <1>7, AroundSnapshots

\* Steps that change no file, no directory and no history leave a snapshot its prospect.
LEMMA QuietSteps ==
  ASSUME PitrInv, UNCHANGED <<live, held, writes, saving, dirs, restoring, mixed>>,
         snapPc' \in [Snappers -> {"off", "idle", "copy"}], Taken' \subseteq Taken,
         taking' \in [Snappers -> TakingType],
         \A t \in Taken' : taking'[t] = taking[t]
  PROVE  PitrInv'
<1>1. PitrTypes' /\ RestoreUnderWay'
  BY DEF PitrInv, PitrTypes, DirectoryType, TakingType, RestoreUnderWay
<1>2. ASSUME NEW t \in Taken', taking[t].dir \notin mixed' PROVE taking[t].floor \subseteq Prospect(t)'
  <2>1. taking[t].floor \subseteq Prospect(t)
    BY <1>2 DEF PitrInv, Unspoiled
  <2>2. Prospect(t)' = Prospect(t)
    BY <1>2 DEF Prospect, Source, Coming, Settled
  <2> QED
    BY <2>1, <2>2
<1> QED
  BY <1>1, <1>2, AroundSnapshots

\* Scheduler threads come and go; a snapshot that fails leaves what it copied.
LEMMA ThreadsKeep ==
  ASSUME PitrInv,
         Schedule \/ StopScheduler \/ \E t \in Snappers : EndScheduler(t) \/ FailSnapshot(t)
  PROVE  PitrInv'
<1>1. /\ snapPc \in [Snappers -> {"off", "idle", "copy"}]
      /\ taking \in [Snappers -> TakingType]
      /\ Nothing \in TakingType
  BY PitrAssumption DEF PitrInv, PitrTypes, DirectoryType, Nothing, TakingType
<1>2. CASE Schedule
  <2>1. snapPc' = [snapPc EXCEPT ![schedulers + 1] = "idle"]
        /\ UNCHANGED <<live, held, writes, saving, dirs, restoring, mixed, taking>>
    BY <1>2 DEF Schedule, serviceVars
  <2>2. snapPc' \in [Snappers -> {"off", "idle", "copy"}] /\ Taken' \subseteq Taken
    BY <1>1, <2>1 DEF Taken
  <2> QED
    BY <1>1, <2>1, <2>2, QuietSteps
<1>3. CASE StopScheduler
  <2>1. UNCHANGED <<live, held, writes, saving, dirs, restoring, mixed, taking, snapPc>>
    BY <1>3 DEF StopScheduler, serviceVars
  <2> QED
    BY <1>1, <2>1, QuietSteps DEF Taken
<1>4. ASSUME NEW t \in Snappers, EndScheduler(t) PROVE PitrInv'
  <2>1. snapPc' = [snapPc EXCEPT ![t] = "off"]
        /\ UNCHANGED <<live, held, writes, saving, dirs, restoring, mixed, taking>>
    BY <1>4 DEF EndScheduler, serviceVars
  <2>2. snapPc' \in [Snappers -> {"off", "idle", "copy"}] /\ Taken' \subseteq Taken
    BY <1>1, <2>1 DEF Taken
  <2> QED
    BY <1>1, <2>1, <2>2, QuietSteps
<1>5. ASSUME NEW t \in Snappers, FailSnapshot(t) PROVE PitrInv'
  <2>1. snapPc' = [snapPc EXCEPT ![t] = "idle"] /\ taking' = [taking EXCEPT ![t] = Nothing]
        /\ UNCHANGED <<live, held, writes, saving, dirs, restoring, mixed>>
    BY <1>5 DEF FailSnapshot, Done, serviceVars
  <2>2. snapPc' \in [Snappers -> {"off", "idle", "copy"}] /\ Taken' = Taken \ {t}
    BY <1>1, <2>1 DEF Taken
  <2>3. /\ taking' \in [Snappers -> TakingType]
        /\ \A u \in Taken' : taking'[u] = taking[u]
    BY <1>1, <2>1, <2>2 DEF Taken
  <2> QED
    BY <2>1, <2>2, <2>3, QuietSteps
<1> QED
  BY <1>2, <1>3, <1>4, <1>5

LEMMA BeginRestoreKeeps ==
  ASSUME PitrInv, NEW n \in 1 .. MaxSeconds, BeginRestore(n)
  PROVE  PitrInv'
<1>1. /\ dirs[n].meta /\ restoring' = [dir |-> n, todo |-> dirs[n].listed, clean |-> TRUE]
      /\ UNCHANGED <<live, held, writes, saving, dirs, snapPc, taking, mixed>>
  BY DEF BeginRestore, serviceVars
<1>2. dirs[n].listed \subseteq DOMAIN dirs[n].copied /\ dirs[n].listed \subseteq FileNames
  BY DEF PitrInv, PitrTypes, DirectoryType, TakingType
<1>3. PitrTypes'
  BY <1>1, <1>2 DEF PitrInv, PitrTypes, DirectoryType, TakingType
<1>4. RestoreUnderWay'
  BY <1>1, <1>2 DEF RestoreUnderWay
<1>5. ASSUME NEW t \in Taken', taking[t].dir \notin mixed' PROVE taking[t].floor \subseteq Prospect(t)'
  <2>1. taking[t].floor \subseteq Prospect(t)
    BY <1>1, <1>5 DEF PitrInv, Unspoiled, Taken
  <2>2. Prospect(t)' = Prospect(t)
    BY <1>1 DEF Prospect, Source, Coming, Settled
  <2> QED
    BY <2>1, <2>2
<1>6. Taken' = Taken
  BY <1>1 DEF Taken
<1> QED
  BY <1>1, <1>3, <1>4, <1>5, <1>6, AroundSnapshots

\* A restored file spoils the snapshots in the making.
LEMMA RestoreFileKeeps ==
  ASSUME PitrInv, RestoreFile
  PROVE  PitrInv'
<1> DEFINE n == restoring.dir
<1>1. PICK f \in restoring.todo :
        /\ live' = Replaced(live, f, dirs[n].copied[f])
        /\ restoring' = [restoring EXCEPT !.todo = @ \ {f}]
        /\ mixed' = mixed \cup Open
        /\ UNCHANGED <<held, writes, saving, dirs, snapPc, taking>>
  BY DEF RestoreFile
<1>2. restoring \in [dir : 0 .. MaxSeconds, todo : SUBSET FileNames, clean : BOOLEAN]
  BY DEF PitrInv, PitrTypes, DirectoryType, TakingType
<1>3. n # 0 /\ n \in 1 .. MaxSeconds /\ f \in DOMAIN dirs[n].copied /\ f \in FileNames
  BY <1>2, PitrAssumption DEF PitrInv, RestoreUnderWay
<1>4. dirs[n].copied[f] \in SUBSET Nat
  BY <1>3, FileMapFacts DEF PitrInv, PitrTypes, DirectoryType, TakingType
<1>5. /\ live' \in FileMaps /\ DOMAIN live' = DOMAIN live \cup {f}
      /\ \A g \in DOMAIN live' : live'[g] = IF g = f THEN dirs[n].copied[f] ELSE live[g]
  <2>1. /\ Replaced(live, f, dirs[n].copied[f]) \in FileMaps
        /\ DOMAIN Replaced(live, f, dirs[n].copied[f]) = DOMAIN live \cup {f}
    BY <1>3, <1>4, ReplacedFile DEF PitrInv, PitrTypes, DirectoryType, TakingType
  <2> QED
    BY <1>1, <2>1 DEF Replaced
<1>6. /\ restoring' \in [dir : 0 .. MaxSeconds, todo : SUBSET FileNames, clean : BOOLEAN]
      /\ restoring'.dir = n /\ restoring'.todo = restoring.todo \ {f}
      /\ restoring'.clean = restoring.clean
  BY <1>1, <1>2
<1>7. PitrTypes'
  BY <1>1, <1>5, <1>6 DEF PitrInv, PitrTypes, DirectoryType, TakingType
<1>8. RestoreUnderWay'
  BY <1>1, <1>3, <1>5, <1>6 DEF PitrInv, RestoreUnderWay
<1>9. \A t \in Taken : taking[t].dir \in mixed'
  BY <1>1 DEF Open
<1>10. Taken' = Taken
  BY <1>1 DEF Taken
<1> QED
  BY <1>1, <1>5, <1>7, <1>8, <1>9, <1>10, AroundSnapshots

LEMMA PitrCrashKeeps ==
  ASSUME PitrInv, PitrCrash
  PROVE  PitrInv'
<1>1. /\ snapPc' = [t \in Snappers |-> IF t \in Requesters THEN "idle" ELSE "off"]
      /\ saving' = 0 /\ held' \in {Recovered(live), 1 .. writes} /\ restoring' = NoRestore
      /\ taking' = [t \in Snappers |-> Nothing]
      /\ UNCHANGED <<live, writes, dirs, mixed>>
  BY DEF PitrCrash
<1>2. Taken' = {}
  BY <1>1 DEF Taken
<1>3. PitrTypes'
  <2>4. writes \in Nat /\ Recovered(live) \subseteq Nat
    BY FileMapFacts DEF PitrInv, PitrTypes, DirectoryType, TakingType
  <2>1. held' \subseteq Nat
    BY <1>1, <2>4
  <2>2. Nothing \in TakingType
    BY PitrAssumption DEF Nothing, TakingType
  <2>3. restoring' \in [dir : 0 .. MaxSeconds, todo : SUBSET FileNames, clean : BOOLEAN]
    BY <1>1, PitrAssumption DEF NoRestore
  <2> QED
    BY <1>1, <2>1, <2>2, <2>3 DEF PitrInv, PitrTypes, DirectoryType, TakingType
<1>4. RestoreUnderWay'
  BY <1>1 DEF RestoreUnderWay, NoRestore
<1> QED
  BY <1>1, <1>2, <1>3, <1>4, AroundSnapshots

-----------------------------------------------------------------------------
(* Steps of a snapshot. *)

\* A directory that is in use, or was used, is spoiled.
LEMMA BeginSnapshotKeeps ==
  ASSUME PitrInv, NEW t \in Snappers, BeginSnapshot(t)
  PROVE  PitrInv'
<1> DEFINE n == second'
           new == [dir |-> n, done |-> 0, todo |-> {}, listed |-> {}, floor |-> Recovered(Settled)]
<1>1. /\ snapPc[t] = "idle" /\ n \in DOMAIN dirs
      /\ snapPc' = [snapPc EXCEPT ![t] = "copy"] /\ taking' = [taking EXCEPT ![t] = new]
      /\ mixed' = (IF n \in Open \/ dirs[n].copied # NoFiles \/ dirs[n].meta
                  THEN mixed \cup {n} ELSE mixed)
      /\ UNCHANGED <<live, held, writes, saving, dirs, restoring>>
  BY DEF BeginSnapshot, serviceVars
<1>2. n \in 1 .. MaxSeconds
  BY <1>1 DEF PitrInv, PitrTypes, DirectoryType, TakingType
<1>3. new \in TakingType
  BY <1>2, FileMapFacts, SettledFiles DEF PitrInv, PitrTypes, DirectoryType, TakingType
<1>4. t \notin Taken /\ Taken' = Taken \cup {t} /\ taking'[t] = new
      /\ \A u \in Taken : taking'[u] = taking[u]
  BY <1>1 DEF Taken, PitrInv, PitrTypes, DirectoryType, TakingType
<1> HIDE DEF n
<1>5. PitrTypes'
  BY <1>1, <1>3 DEF PitrInv, PitrTypes, DirectoryType, TakingType
<1>6. UnderWay(t)'
  BY <1>2, <1>4 DEF UnderWay
<1>7. ASSUME n \notin mixed' PROVE Unspoiled(t)'
  <2>1. n \notin Open /\ dirs[n].copied = NoFiles /\ ~dirs[n].meta
    BY <1>1, <1>7
  <2>2. DOMAIN dirs[n].copied = {}
    BY <2>1 DEF NoFiles
  <2>3. \A u \in Taken' : taking'[u].dir = n => u = t
    BY <1>4, <2>1 DEF Open
  <2>6. Settled' = Settled
    BY <1>1 DEF Settled
  <2>4. Prospect(t)' = Recovered(Settled)
    BY <1>1, <1>4, <2>6 DEF Prospect, Source, Coming, Recovered, Loadable
  <2>5. taking'[t].dir = n /\ taking'[t].listed = {} /\ taking'[t].floor = Recovered(Settled)
    BY <1>4
  <2> QED
    BY <1>1, <2>1, <2>2, <2>3, <2>4, <2>5 DEF Unspoiled
<1>8. ASSUME NEW u \in Taken
      PROVE  (UnderWay(u) /\ (taking[u].dir \notin mixed => Unspoiled(u)))'
  <2>1. taking'[u] = taking[u] /\ UnderWay(u)
    BY <1>4 DEF PitrInv
  <2>2. UnderWay(u)'
    BY <1>1, <2>1 DEF UnderWay
  <2>3. ASSUME taking[u].dir \notin mixed' PROVE Unspoiled(u)'
    <3>1. Unspoiled(u) /\ taking[u].dir \in Open
      BY <1>1, <2>3 DEF PitrInv, Open
    <3>2. taking[u].dir # n
      BY <1>1, <2>3, <3>1
    <3>3. Prospect(u)' = Prospect(u)
      BY <1>1, <2>1 DEF Prospect, Source, Coming, Settled
    <3> QED
      BY <1>1, <1>4, <2>1, <3>1, <3>2, <3>3 DEF Unspoiled
  <2> QED
    BY <2>1, <2>2, <2>3
<1>9. \A k \in 1 .. MaxSeconds :
        (dirs[k].listed \subseteq DOMAIN dirs[k].copied /\ (dirs[k].meta /\ k \notin mixed => Complete(k)))'
  BY <1>1 DEF PitrInv, Complete
<1>10. RestoreUnderWay'
  BY <1>1 DEF PitrInv, RestoreUnderWay
<1> QED
  BY <1>4, <1>5, <1>6, <1>7, <1>8, <1>9, <1>10 DEF PitrInv

\* A file that is not there when its directory is listed does not come.
LEMMA ListFilesKeeps ==
  ASSUME PitrInv, NEW t \in Snappers, ListFiles(t)
  PROVE  PitrInv'
<1>0. PICK d : d = taking[t].done
  OBVIOUS
<1> DEFINE names == SourceDirs[d + 1] \cap DOMAIN live
<1>1. /\ t \in Taken /\ taking[t].todo = {} /\ d < 2
      /\ taking' = [taking EXCEPT ![t].done = d + 1, ![t].todo = names]
      /\ UNCHANGED <<live, held, writes, saving, dirs, snapPc, restoring, mixed>>
  BY <1>0 DEF ListFiles, Taken, SourceDirs, serviceVars
<1>2. d \in {0, 1} /\ names = (IF d = 0 THEN {"index"} ELSE {"log", "mark"}) \cap DOMAIN live
  BY <1>0, <1>1 DEF PitrInv, PitrTypes, TakingType, SourceDirs
<1> HIDE DEF names
<1>3. /\ taking'[t].dir = taking[t].dir /\ taking'[t].listed = taking[t].listed
      /\ taking'[t].floor = taking[t].floor /\ taking'[t].done = d + 1 /\ taking'[t].todo = names
      /\ \A u \in Taken \ {t} : taking'[u] = taking[u]
  BY <1>1 DEF PitrInv, PitrTypes, DirectoryType, TakingType, Taken
<1>4. names \subseteq FileNames /\ live' = live /\ dirs' = dirs
  BY <1>1, <1>2 DEF FileNames
<1>5. PitrTypes'
  <2>1. taking'[t] \in TakingType
    <3>1. taking[t] \in TakingType /\ d + 1 \in 0 .. 2
      BY <1>1, <1>2 DEF PitrInv, PitrTypes, Taken
    <3>2. taking'[t] = [taking[t] EXCEPT !.done = d + 1, !.todo = names]
      BY <1>1 DEF PitrInv, PitrTypes, Taken
    <3> QED
      BY <1>4, <3>1, <3>2 DEF TakingType
  <2>2. taking' \in [Snappers -> TakingType]
    BY <1>1, <2>1 DEF PitrInv, PitrTypes
  <2> QED
    BY <1>1, <2>2 DEF PitrInv, PitrTypes
<1>6. Taken' = Taken
  BY <1>1 DEF Taken
<1>7. UnderWay(t)'
  <2>1. UnderWay(t)
    BY <1>1 DEF PitrInv
  <2>2. CASE d = 0
    BY <1>0, <1>2, <1>3, <1>4, <2>1, <2>2 DEF UnderWay
  <2>3. CASE d = 1
    BY <1>0, <1>2, <1>3, <1>4, <2>1, <2>3 DEF UnderWay
  <2> QED
    BY <1>2, <2>2, <2>3
<1>8. Prospect(t)' = Prospect(t)
  <2>1. UnderWay(t)
    BY <1>1 DEF PitrInv
  <2>2. ASSUME NEW f \in FileNames PROVE Source(t, f)' = Source(t, f)
    <3> DEFINE here == FileAt(Settled, f)  kept == FileAt(dirs[taking[t].dir].copied, f)
    <3>1. Source(t, f) = IF f \in taking[t].listed THEN kept ELSE IF Coming(t, f) THEN here ELSE {}
      BY DEF Source
    <3>2. Source(t, f)' = IF f \in taking[t].listed THEN kept ELSE IF Coming(t, f)' THEN here ELSE {}
      <4>1. Settled' = Settled
        BY <1>1 DEF Settled
      <4> QED
        BY <1>3, <1>4, <4>1 DEF Source
    <3>3. f \notin DOMAIN live => here = {}
      <4>1. DOMAIN Settled = DOMAIN live
        BY SettledFiles DEF PitrInv
      <4> QED
        BY <4>1 DEF FileAt
    <3>4. f \in DOMAIN live /\ f \notin taking[t].listed => (Coming(t, f) <=> Coming(t, f)')
      <4>1. CASE d = 0
        BY <1>0, <1>2, <1>3, <2>1, <4>1 DEF Coming, UnderWay, FileNames
      <4>2. CASE d = 1
        <5>1. Coming(t, f) <=> f # "index"
          BY <1>0, <1>1, <4>2 DEF Coming
        <5>2. Coming(t, f)' <=> f \in names
          BY <1>3, <4>2 DEF Coming
        <5>3. f \in DOMAIN live => (f \in names <=> f # "index")
          BY <1>2, <4>2 DEF FileNames
        <5> QED
          BY <5>1, <5>2, <5>3
      <4> QED
        BY <1>2, <4>1, <4>2
    <3> HIDE DEF here, kept
    <3> QED
      BY <3>1, <3>2, <3>3, <3>4
  <2> QED
    BY <2>2 DEF Prospect, FileNames
<1>9. taking[t].dir \notin mixed' => Unspoiled(t)'
  <2>1. taking[t].dir \notin mixed => Unspoiled(t)
    BY <1>1 DEF PitrInv
  <2> QED
    BY <1>1, <1>3, <1>6, <1>8, <2>1 DEF Unspoiled
<1>10. ASSUME NEW u \in Taken, u # t
       PROVE  (UnderWay(u) /\ (taking[u].dir \notin mixed => Unspoiled(u)))'
  <2>1. taking'[u] = taking[u] /\ UnderWay(u) /\ (taking[u].dir \notin mixed => Unspoiled(u))
    BY <1>3, <1>10 DEF PitrInv
  <2>2. UnderWay(u)'
    BY <1>1, <2>1 DEF UnderWay
  <2>3. Prospect(u)' = Prospect(u)
    BY <1>1, <2>1 DEF Prospect, Source, Coming, Settled
  <2>4. taking[u].dir \notin mixed' => Unspoiled(u)'
    BY <1>1, <1>3, <1>6, <2>1, <2>3 DEF Unspoiled
  <2> QED
    BY <2>1, <2>2, <2>4
<1>11. \A n \in 1 .. MaxSeconds :
        (dirs[n].listed \subseteq DOMAIN dirs[n].copied /\ (dirs[n].meta /\ n \notin mixed => Complete(n)))'
  BY <1>1 DEF PitrInv, Complete
<1>12. RestoreUnderWay'
  BY <1>1 DEF PitrInv, RestoreUnderWay
<1> QED
  BY <1>3, <1>5, <1>6, <1>7, <1>9, <1>10, <1>11, <1>12 DEF PitrInv

LEMMA CopyFileKeeps ==
  ASSUME PitrInv, NEW t \in Snappers, CopyFile(t)
  PROVE  PitrInv'
<1> DEFINE d == taking[t].dir
<1>1. PICK f \in taking[t].todo :
        /\ mixed' = (IF f = "index" /\ saving = 1 THEN mixed \cup {d} ELSE mixed)
        /\ dirs' = [dirs EXCEPT ![d].copied = Replaced(@, f, live[f])]
        /\ taking' = [taking EXCEPT ![t].todo = @ \ {f}, ![t].listed = @ \cup {f}]
  BY DEF CopyFile
<1>2. t \in Taken /\ UNCHANGED <<live, held, writes, saving, snapPc, restoring>>
  BY DEF CopyFile, Taken, serviceVars
<1>16. /\ mixed \subseteq mixed' /\ mixed' \subseteq mixed \cup {d}
       /\ f = "index" /\ saving = 1 => d \in mixed'
  BY <1>1
<1>3. UnderWay(t) /\ d \in 1 .. MaxSeconds /\ f \in DOMAIN live /\ f \notin taking[t].listed
  BY <1>1, <1>2 DEF PitrInv, UnderWay
<1>4. /\ live \in FileMaps /\ f \in FileNames /\ live[f] \in SUBSET Nat /\ FileAt(live, f) = live[f]
      /\ dirs[d].copied \in FileMaps
  BY <1>3, FileMapFacts DEF PitrInv, PitrTypes, DirectoryType, TakingType
<1> DEFINE c == Replaced(dirs[d].copied, f, live[f])
<1>5. /\ c \in FileMaps /\ DOMAIN c = DOMAIN dirs[d].copied \cup {f}
      /\ \A g : FileAt(c, g) = IF g = f THEN live[f] ELSE FileAt(dirs[d].copied, g)
  BY <1>4, ReplacedFile
<1> HIDE DEF c
<1>6. /\ dirs'[d].copied = c /\ dirs'[d].listed = dirs[d].listed /\ dirs'[d].meta = dirs[d].meta
      /\ dirs'[d].floor = dirs[d].floor
      /\ \A n \in 1 .. MaxSeconds \ {d} : dirs'[n] = dirs[n]
  BY <1>1, <1>3 DEF PitrInv, PitrTypes, DirectoryType, TakingType, c
<1>7. /\ taking'[t].dir = d /\ taking'[t].listed = taking[t].listed \cup {f}
      /\ taking'[t].floor = taking[t].floor /\ taking'[t].done = taking[t].done
      /\ taking'[t].todo = taking[t].todo \ {f}
      /\ \A u \in Taken \ {t} : taking'[u] = taking[u]
  BY <1>1 DEF PitrInv, PitrTypes, DirectoryType, TakingType, Taken
<1>8. Taken' = Taken
  BY <1>2 DEF Taken
<1>9. PitrTypes'
  <2>1. dirs'[d] \in DirectoryType
    BY <1>1, <1>3, <1>5 DEF PitrInv, PitrTypes, DirectoryType, c
  <2>2. dirs' \in [1 .. MaxSeconds -> DirectoryType]
    BY <1>1, <2>1 DEF PitrInv, PitrTypes
  <2>3. taking'[t] \in TakingType
    <3> DEFINE r == taking[t]
    <3>1. r \in TakingType /\ t \in DOMAIN taking
      BY DEF PitrInv, PitrTypes
    <3>2. taking'[t] = [r EXCEPT !.todo = @ \ {f}, !.listed = @ \cup {f}]
      BY <1>1, <3>1
    <3> HIDE DEF r
    <3> QED
      BY <1>4, <3>1, <3>2, ZenonT(40) DEF TakingType
  <2>4. taking' \in [Snappers -> TakingType]
    BY <1>1, <2>3 DEF PitrInv, PitrTypes
  <2> QED
    BY <1>2, <2>2, <2>4 DEF PitrInv, PitrTypes
<1>10. UnderWay(t)'
  BY <1>1, <1>2, <1>3, <1>5, <1>6, <1>7 DEF UnderWay
<1>17. Settled' = Settled
  BY <1>2 DEF Settled
<1>11. d \notin mixed' => Unspoiled(t)'
  <2> SUFFICES ASSUME d \notin mixed' PROVE Unspoiled(t)'
    OBVIOUS
  <2>1. Unspoiled(t)
    BY <1>2, <1>16 DEF PitrInv
  <2>4. FileAt(Settled, f) = live[f]
    BY <1>4, <1>16, SettledFiles DEF PitrInv
  <2>2. \A g : Source(t, g)' = Source(t, g)
    BY <1>1, <1>3, <1>5, <1>6, <1>7, <1>17, <2>4 DEF Source, Coming
  <2>3. Prospect(t)' = Prospect(t)
    BY <2>2 DEF Prospect
  <2> QED
    BY <1>5, <1>6, <1>7, <1>8, <2>1, <2>3 DEF Unspoiled
<1>12. ASSUME NEW u \in Taken, u # t
       PROVE  (UnderWay(u) /\ (taking[u].dir \notin mixed => Unspoiled(u)))'
  <2>1. taking'[u] = taking[u] /\ UnderWay(u) /\ (taking[u].dir \notin mixed => Unspoiled(u))
    BY <1>7, <1>12 DEF PitrInv
  <2>2. UnderWay(u)'
    <3>1. DOMAIN dirs[taking[u].dir].copied \subseteq DOMAIN dirs'[taking[u].dir].copied
      BY <1>5, <1>6, <2>1 DEF UnderWay
    <3> QED
      BY <1>2, <2>1, <3>1 DEF UnderWay
  <2>3. ASSUME taking[u].dir \notin mixed' PROVE Unspoiled(u)'
    <3>1. Unspoiled(u) /\ taking[u].dir # d
      BY <1>2, <1>12, <1>16, <2>1, <2>3 DEF Unspoiled
    <3>2. dirs'[taking[u].dir] = dirs[taking[u].dir]
      BY <1>6, <2>1, <3>1 DEF UnderWay
    <3>3. Prospect(u)' = Prospect(u)
      BY <1>17, <2>1, <3>2 DEF Prospect, Source, Coming
    <3> QED
      BY <1>7, <1>8, <2>1, <3>1, <3>2, <3>3 DEF Unspoiled
  <2> QED
    BY <1>2, <2>1, <2>2, <2>3
<1>13. d \notin mixed => ~dirs[d].meta
  BY <1>2 DEF PitrInv, Unspoiled
<1>14. ASSUME NEW n \in 1 .. MaxSeconds
       PROVE  (dirs[n].listed \subseteq DOMAIN dirs[n].copied /\ (dirs[n].meta /\ n \notin mixed => Complete(n)))'
  <2>1. CASE n = d
    BY <1>2, <1>5, <1>6, <1>13, <1>16, <2>1 DEF PitrInv
  <2>2. CASE n # d
    BY <1>2, <1>6, <1>16, <2>2 DEF PitrInv, Complete
  <2> QED
    BY <2>1, <2>2
<1>15. RestoreUnderWay'
  <2>1. CASE restoring.dir = 0
    BY <1>2, <2>1 DEF PitrInv, RestoreUnderWay
  <2>2. CASE restoring.dir = d
    BY <1>2, <1>3, <1>5, <1>6, <1>13, <1>16, <2>2 DEF PitrInv, RestoreUnderWay
  <2>3. CASE restoring.dir # 0 /\ restoring.dir # d
    <3>1. restoring.dir \in 1 .. MaxSeconds
      BY <2>3, PitrAssumption DEF PitrInv, PitrTypes, DirectoryType, TakingType
    <3>2. dirs'[restoring.dir] = dirs[restoring.dir]
      BY <1>6, <2>3, <3>1
    <3> QED
      BY <1>2, <1>16, <2>3, <3>2 DEF PitrInv, RestoreUnderWay
  <2> QED
    BY <2>1, <2>2, <2>3
<1> QED
  BY <1>2, <1>7, <1>8, <1>9, <1>10, <1>11, <1>12, <1>14, <1>15 DEF PitrInv

\* An unspoiled snapshot that is finished lists what it copied, and that is enough.
LEMMA WriteMetaKeeps ==
  ASSUME PitrInv, NEW t \in Snappers, WriteMeta(t)
  PROVE  PitrInv'
<1>0. PICK d : d = taking[t].dir
  OBVIOUS
<1>1. /\ t \in Taken /\ taking[t].todo = {} /\ taking[t].done = 2
      /\ dirs' = [dirs EXCEPT ![d].meta = TRUE, ![d].listed = taking[t].listed,
                              ![d].floor = taking[t].floor]
      /\ snapPc' = [snapPc EXCEPT ![t] = "idle"] /\ taking' = [taking EXCEPT ![t] = Nothing]
      /\ UNCHANGED <<live, held, writes, saving, restoring, mixed>>
  BY <1>0 DEF WriteMeta, Done, Taken, SourceDirs, serviceVars
<1>2. UnderWay(t) /\ d \in 1 .. MaxSeconds
  BY <1>0, <1>1 DEF PitrInv, UnderWay
<1>3. /\ dirs'[d].copied = dirs[d].copied /\ dirs'[d].listed = taking[t].listed
      /\ dirs'[d].meta = TRUE /\ dirs'[d].floor = taking[t].floor
      /\ \A n \in 1 .. MaxSeconds \ {d} : dirs'[n] = dirs[n]
  BY <1>1, <1>2 DEF PitrInv, PitrTypes, DirectoryType, TakingType
<1>4. Taken' = Taken \ {t} /\ \A u \in Taken' : taking'[u] = taking[u]
  BY <1>1 DEF PitrInv, PitrTypes, DirectoryType, TakingType, Taken
<1>5. PitrTypes'
  <2>1. Nothing \in TakingType
    BY PitrAssumption DEF Nothing, TakingType
  <2>2. dirs'[d] \in DirectoryType
    <3>1. dirs[d] \in DirectoryType /\ taking[t] \in TakingType
      BY <1>1, <1>2 DEF PitrInv, PitrTypes, Taken
    <3>2. dirs'[d] = [dirs[d] EXCEPT !.meta = TRUE, !.listed = taking[t].listed, !.floor = taking[t].floor]
      BY <1>1, <1>2 DEF PitrInv, PitrTypes
    <3> QED
      BY <3>1, <3>2 DEF DirectoryType, TakingType
  <2>3. dirs' \in [1 .. MaxSeconds -> DirectoryType]
    BY <1>1, <2>2 DEF PitrInv, PitrTypes
  <2> QED
    BY <1>1, <2>1, <2>3 DEF PitrInv, PitrTypes
<1>6. d \notin mixed => Unspoiled(t)
  BY <1>0, <1>1 DEF PitrInv
<1>7. d \notin mixed => Complete(d)'
  <2> SUFFICES ASSUME d \notin mixed PROVE Complete(d)'
    OBVIOUS
  <2>1. Unspoiled(t)
    BY <1>6
  <2>2. \A f : Source(t, f) = FileAt(dirs[d].copied, f)
    BY <1>0, <1>1, <2>1 DEF Unspoiled, Source, Coming, FileAt
  <2>3. Prospect(t) = Recovered(dirs[d].copied)
    BY <2>2 DEF Prospect, Recovered, Loadable
  <2> QED
    BY <1>0, <1>3, <2>1, <2>3 DEF Unspoiled, Complete
<1>8. ASSUME NEW u \in Taken'
      PROVE  (UnderWay(u) /\ (taking[u].dir \notin mixed => Unspoiled(u)))'
  <2>1. /\ u \in Taken /\ u # t /\ taking'[u] = taking[u]
        /\ UnderWay(u) /\ (taking[u].dir \notin mixed => Unspoiled(u))
    BY <1>4, <1>8 DEF PitrInv
  <2>2. UnderWay(u)'
    <3>1. dirs'[taking[u].dir].copied = dirs[taking[u].dir].copied
      BY <1>3, <2>1 DEF UnderWay
    <3> QED
      BY <1>1, <2>1, <3>1 DEF UnderWay
  <2>3. ASSUME taking[u].dir \notin mixed PROVE Unspoiled(u)'
    <3>1. Unspoiled(u) /\ taking[u].dir # d
      BY <1>0, <1>1, <2>1, <2>3 DEF Unspoiled
    <3>2. dirs'[taking[u].dir] = dirs[taking[u].dir]
      BY <1>3, <2>1, <3>1 DEF UnderWay
    <3>3. Prospect(u)' = Prospect(u)
      BY <1>1, <2>1, <3>2 DEF Prospect, Source, Coming, Settled
    <3> QED
      BY <1>4, <2>1, <3>1, <3>2, <3>3 DEF Unspoiled
  <2> QED
    BY <1>1, <2>1, <2>2, <2>3
<1>9. ASSUME NEW n \in 1 .. MaxSeconds
      PROVE  (dirs[n].listed \subseteq DOMAIN dirs[n].copied /\ (dirs[n].meta /\ n \notin mixed => Complete(n)))'
  <2>1. CASE n = d
    BY <1>0, <1>1, <1>2, <1>3, <1>7, <2>1 DEF UnderWay
  <2>2. CASE n # d
    BY <1>1, <1>3, <2>2 DEF PitrInv, Complete
  <2> QED
    BY <2>1, <2>2
<1>10. RestoreUnderWay'
  <2>1. CASE restoring.dir = 0
    BY <1>1, <2>1 DEF PitrInv, RestoreUnderWay
  <2>2. CASE restoring.dir = d
    <3>1. d \in mixed
      BY <1>0, <1>2, <1>6, <2>2, PitrAssumption DEF PitrInv, RestoreUnderWay, Unspoiled
    <3> QED
      BY <1>1, <1>2, <1>3, <2>2, <3>1, PitrAssumption DEF PitrInv, RestoreUnderWay
  <2>3. CASE restoring.dir # 0 /\ restoring.dir # d
    <3>1. restoring.dir \in 1 .. MaxSeconds
      BY <2>3, PitrAssumption DEF PitrInv, PitrTypes, DirectoryType, TakingType
    <3>2. dirs'[restoring.dir] = dirs[restoring.dir]
      BY <1>3, <2>3, <3>1
    <3> QED
      BY <1>1, <2>3, <3>2 DEF PitrInv, RestoreUnderWay
  <2> QED
    BY <2>1, <2>2, <2>3
<1> QED
  BY <1>5, <1>8, <1>9, <1>10 DEF PitrInv

-----------------------------------------------------------------------------
LEMMA PitrInvInit == PitrInit => PitrInv
<1> SUFFICES ASSUME PitrInit PROVE PitrInv
  OBVIOUS
<1>1. /\ live = NoFiles /\ held = {} /\ writes = 0 /\ saving = 0
      /\ dirs = [n \in 1 .. MaxSeconds |-> [copied |-> NoFiles, listed |-> {}, meta |-> FALSE, floor |-> {}]]
      /\ snapPc = [t \in Snappers |-> IF t \in Requesters THEN "idle" ELSE "off"]
      /\ taking = [t \in Snappers |-> Nothing] /\ restoring = NoRestore
  BY DEF PitrInit
<1>2. NoFiles \in FileMaps
  <2>1. NoFiles \in [{} -> SUBSET Nat]
    BY DEF NoFiles
  <2> QED
    BY <2>1 DEF FileMaps
<1>3. Nothing \in TakingType
      /\ NoRestore \in [dir : 0 .. MaxSeconds, todo : SUBSET FileNames, clean : BOOLEAN]
  BY PitrAssumption DEF Nothing, NoRestore, TakingType
<1>4. PitrTypes
  BY <1>1, <1>2, <1>3 DEF PitrTypes, DirectoryType, TakingType
<1>5. Taken = {}
  BY <1>1 DEF Taken
<1>6. RestoreUnderWay
  BY <1>1 DEF RestoreUnderWay, NoRestore
<1> QED
  BY <1>1, <1>4, <1>5, <1>6 DEF PitrInv

LEMMA PitrInvStep == PitrInv /\ [PitrNext]_pitrVars => PitrInv'
<1> SUFFICES ASSUME PitrInv, [PitrNext]_pitrVars PROVE PitrInv'
  OBVIOUS
<1>1. CASE UNCHANGED pitrVars
  BY <1>1, QuietSteps DEF pitrVars, PitrInv, PitrTypes, DirectoryType, TakingType, Taken
<1>2. CASE Write \/ OpenIndexFile \/ SaveIndexFile \/ CheckpointLog \/ Schedule \/ StopScheduler \/ RestoreFile
           \/ PitrCrash
  BY <1>2, WriteKeeps, CheckpointKeeps, ThreadsKeep, RestoreFileKeeps, PitrCrashKeeps
<1>3. ASSUME NEW t \in Snappers, BeginSnapshot(t) \/ ListFiles(t) \/ CopyFile(t) \/ WriteMeta(t)
                                 \/ FailSnapshot(t) \/ EndScheduler(t)
      PROVE  PitrInv'
  BY <1>3, BeginSnapshotKeeps, ListFilesKeeps, CopyFileKeeps, WriteMetaKeeps, ThreadsKeep
<1>4. ASSUME NEW n \in 1 .. MaxSeconds, BeginRestore(n) PROVE PitrInv'
  BY <1>4, BeginRestoreKeeps
<1> QED
  BY <1>1, <1>2, <1>3, <1>4 DEF PitrNext

(***************************************************************************)
(* PitrRestoreBringsBack for any number of writes, snapshots, schedulers,  *)
(* restores and crashes.                                                   *)
(***************************************************************************)
THEOREM PitrRestores == PitrSpec => []PitrRestoreBringsBack
<1>1. PitrInv => PitrRestoreBringsBack
  <2> SUFFICES ASSUME PitrInv, restoring.dir # 0, restoring.todo = {}, restoring.clean,
                      restoring.dir \notin mixed,
                      "mark" \in DOMAIN live => "mark" \in dirs[restoring.dir].listed
               PROVE  dirs[restoring.dir].floor \subseteq Recovered(live)
    BY DEF PitrRestoreBringsBack
  <2> DEFINE n == restoring.dir
             c == dirs[n].copied
  <2>1. n \in 1 .. MaxSeconds
    BY PitrAssumption DEF PitrInv, PitrTypes, DirectoryType, TakingType
  <2>2. dirs[n].listed = DOMAIN c /\ dirs[n].floor \subseteq Recovered(c)
    BY <2>1 DEF PitrInv, RestoreUnderWay, Complete
  <2>3. \A f \in DOMAIN c : f \in DOMAIN live /\ live[f] = c[f]
    BY <2>2 DEF PitrInv, RestoreUnderWay
  <2>4. \A f : FileAt(c, f) \subseteq FileAt(live, f)
    BY <2>3 DEF FileAt
  <2>6. FileAt(c, "index") # {} => FileAt(c, "index") = FileAt(live, "index")
    BY <2>3 DEF FileAt
  <2>5. FileAt(c, "mark") = FileAt(live, "mark")
    BY <2>2, <2>3 DEF FileAt
  <2> QED
    BY <2>2, <2>4, <2>5, <2>6 DEF Recovered, Loadable
<1> QED
  BY <1>1, PitrInvInit, PitrInvStep, PTL DEF PitrSpec

-----------------------------------------------------------------------------
(***************************************************************************)
(* RealtimeConnector: the inductive invariant.                             *)
(***************************************************************************)
ConnTypes ==
  /\ loopPc \in [Loops -> {"off", "loop", "item", "embed", "mark", "write"}]
  /\ items \in [Loops -> Seq(Items)]
  /\ \A t \in Loops : LoopAt(t, "embed") \/ LoopAt(t, "mark") => items[t] # <<>>
  /\ loops \in 0 .. MaxLoops /\ \A t \in Loops : t > loops => LoopAt(t, "off")
  /\ seen \subseteq Items /\ IsFiniteSet(seen)
  /\ stateFile = Damaged \/ (stateFile \subseteq Items /\ IsFiniteSet(stateFile))
  /\ ingested \in [Items -> Nat] /\ unsaved \subseteq Items /\ forgotten \subseteq Items

\* Where an item is that threads have found unseen: one thread has it, and it is not seen;
\* once ingested it is marked, or it will be, and is in no file yet.
InHand(i) ==
  /\ \A t, u \in Working(i) : t = u
  /\ Working(i) # {} => i \notin seen
  /\ \A t \in Working(i) : IF LoopAt(t, "embed") THEN ingested[i] = 0 ELSE i \in unsaved

IngestedIsSeen(i) ==
  ingested[i] <= 1 /\ (ingested[i] = 1 /\ i \notin seen => \E t \in Working(i) : LoopAt(t, "mark"))

\* What was ingested and is not counted as unsaved is in the file, if it is whole and no
\* items were left out of it.
SavedIsThere(i) ==
  ingested[i] = 1 /\ i \notin unsaved /\ stateFile # Damaged /\ Cardinality(seen) <= SeenCap
    => i \in stateFile

ConnInv ==
  ConnTypes /\ \A i \in Items \ forgotten : InHand(i) /\ IngestedIsSeen(i) /\ SavedIsThere(i)

-----------------------------------------------------------------------------
(* Each operation of the connector keeps the invariant. *)

LEMMA ConnInvInit == ConnInit => ConnInv
<1> SUFFICES ASSUME ConnInit PROVE ConnInv
  OBVIOUS
<1>1. \A i \in Items : Working(i) = {} /\ ingested[i] = 0
  BY DEF ConnInit, Working
<1>2. \A i \in Items : InHand(i) /\ IngestedIsSeen(i) /\ SavedIsThere(i)
  BY <1>1 DEF InHand, IngestedIsSeen, SavedIsThere
<1>3. loopPc \in [Loops -> {"off", "loop", "item", "embed", "mark", "write"}]
      /\ items \in [Loops -> Seq(Items)]
  BY DEF ConnInit
<1>4. seen = {} /\ IsFiniteSet(seen) /\ stateFile = {} /\ ingested \in [Items -> Nat]
  BY FS_EmptySet DEF ConnInit
<1>5. ConnTypes
  BY <1>3, <1>4, ConnectorAssumption DEF ConnInit, ConnTypes, LoopAt
<1> QED
  BY <1>2, <1>5 DEF ConnInv

\* Steps of a thread that has no item in hand, before or after.
LEMMA HandsUnchanged ==
  ASSUME ConnInv, NEW t \in Loops, loopPc[t] \notin {"embed", "mark"},
         loopPc'[t] \notin {"embed", "mark"},
         \A u \in Loops \ {t} : loopPc'[u] = loopPc[u] /\ items'[u] = items[u],
         NEW i \in Items
  PROVE  /\ Working(i)' = Working(i)
         /\ \A u \in Working(i) : (LoopAt(u, "embed") <=> LoopAt(u, "embed")')
                                  /\ (LoopAt(u, "mark") <=> LoopAt(u, "mark")')
  BY DEF Working, LoopAt

LEMMA PollingKeeps ==
  ASSUME ConnInv, StartPolling \/ StopPolling
  PROVE  ConnInv'
<1>1. CASE StopPolling
  BY <1>1 DEF StopPolling, ConnInv, ConnTypes, InHand, IngestedIsSeen, SavedIsThere, LoopAt, Working
<1>2. CASE StartPolling
  <2> DEFINE t == loops + 1
  <2>1. /\ loops < MaxLoops /\ loops' = t /\ loopPc' = [loopPc EXCEPT ![t] = "loop"]
        /\ UNCHANGED <<seen, stateFile, items, ingested, unsaved, forgotten>>
    BY <1>2 DEF StartPolling, Move
  <2>2. t \in Loops /\ loopPc[t] = "off" /\ loops \in Nat
    BY <2>1, ConnectorAssumption DEF ConnInv, ConnTypes, Loops, LoopAt
  <2>3. ConnTypes'
    BY <2>1, <2>2 DEF ConnInv, ConnTypes, LoopAt, Loops
  <2>4. \A i \in Items :
          /\ Working(i)' = Working(i)
          /\ \A u \in Working(i) : (LoopAt(u, "embed") <=> LoopAt(u, "embed")')
                                  /\ (LoopAt(u, "mark") <=> LoopAt(u, "mark")')
    <3>1. /\ loopPc[t] \notin {"embed", "mark"} /\ loopPc'[t] \notin {"embed", "mark"}
          /\ \A u \in Loops \ {t} : loopPc'[u] = loopPc[u] /\ items'[u] = items[u]
      BY <2>1, <2>2 DEF ConnInv, ConnTypes
    <3> QED
      BY <2>2, <3>1, HandsUnchanged
  <2> QED
    BY <2>1, <2>3, <2>4 DEF ConnInv, InHand, IngestedIsSeen, SavedIsThere
<1> QED
  BY <1>1, <1>2

LEMMA CollectKeeps ==
  ASSUME ConnInv, NEW t \in Loops, Collect(t)
  PROVE  ConnInv'
<1>1. /\ loopPc[t] = "loop"
      /\ \/ UNCHANGED <<loopPc, items>>
         \/ loopPc' = [loopPc EXCEPT ![t] = "off"] /\ UNCHANGED items
         \/ /\ loopPc' = [loopPc EXCEPT ![t] = "item"]
            /\ \E s \in Seq(Items) : items' = [items EXCEPT ![t] = s]
      /\ UNCHANGED <<seen, stateFile, loops, ingested, unsaved, forgotten>>
  <2>1. ASSUME NEW listing \in Listings
        PROVE  SubSeq(listing, 1, IF Len(listing) < MaxItemsPerRun THEN Len(listing)
                                  ELSE MaxItemsPerRun) \in Seq(Items)
    BY ConnectorAssumption
  <2> QED
    BY <2>1 DEF Collect, LoopAt, Move
<1>2. t <= loops
  BY <1>1 DEF ConnInv, ConnTypes, LoopAt, Loops
<1>3. /\ loopPc' \in [Loops -> {"off", "loop", "item", "embed", "mark", "write"}]
      /\ items' \in [Loops -> Seq(Items)]
      /\ loopPc'[t] \notin {"embed", "mark"}
      /\ \A u \in Loops \ {t} : loopPc'[u] = loopPc[u] /\ items'[u] = items[u]
  BY <1>1 DEF ConnInv, ConnTypes
<1>4. ConnTypes'
  BY <1>1, <1>2, <1>3 DEF ConnInv, ConnTypes, LoopAt
<1>5. \A i \in Items :
        /\ Working(i)' = Working(i)
        /\ \A u \in Working(i) : (LoopAt(u, "embed") <=> LoopAt(u, "embed")')
                                /\ (LoopAt(u, "mark") <=> LoopAt(u, "mark")')
  BY <1>1, <1>3, HandsUnchanged
<1> QED
  BY <1>1, <1>4, <1>5 DEF ConnInv, InHand, IngestedIsSeen, SavedIsThere

\* An item that another thread has in hand counts as forgotten.
LEMMA CheckSeenKeeps ==
  ASSUME ConnInv, NEW t \in Loops, CheckSeen(t)
  PROVE  ConnInv'
<1> DEFINE h == Head(items[t])
<1>1. loopPc[t] = "item" /\ items[t] # <<>> /\ items[t] \in Seq(Items) /\ h \in Items
  BY DEF CheckSeen, LoopAt, ConnInv, ConnTypes
<1>2. t <= loops
  BY <1>1 DEF ConnInv, ConnTypes, LoopAt, Loops
<1>3. CASE h \in seen
  <2>1. /\ items' = [items EXCEPT ![t] = Tail(@)]
        /\ UNCHANGED <<loopPc, seen, stateFile, loops, ingested, unsaved, forgotten>>
    BY <1>3 DEF CheckSeen
  <2>2. Tail(items[t]) \in Seq(Items)
    BY <1>1
  <2>3. ConnTypes'
    BY <1>1, <2>1, <2>2 DEF ConnInv, ConnTypes, LoopAt
  <2>4. \A i \in Items :
          /\ Working(i)' = Working(i)
          /\ \A u \in Working(i) : (LoopAt(u, "embed") <=> LoopAt(u, "embed")')
                                  /\ (LoopAt(u, "mark") <=> LoopAt(u, "mark")')
    <3>1. /\ loopPc[t] \notin {"embed", "mark"} /\ loopPc'[t] \notin {"embed", "mark"}
          /\ \A u \in Loops \ {t} : loopPc'[u] = loopPc[u] /\ items'[u] = items[u]
      BY <1>1, <2>1 DEF ConnInv, ConnTypes
    <3> QED
      BY <3>1, HandsUnchanged
  <2> QED
    BY <2>1, <2>3, <2>4 DEF ConnInv, InHand, IngestedIsSeen, SavedIsThere
<1>4. CASE h \notin seen
  <2>1. /\ loopPc' = [loopPc EXCEPT ![t] = "embed"]
        /\ forgotten' = (IF Working(h) = {} THEN forgotten ELSE forgotten \cup {h})
        /\ UNCHANGED <<items, seen, stateFile, loops, ingested, unsaved>>
    BY <1>4 DEF CheckSeen, Move
  <2>2. ConnTypes'
    BY <1>1, <1>2, <2>1 DEF ConnInv, ConnTypes, LoopAt
  <2>3. ASSUME NEW i \in Items \ forgotten'
        PROVE  (InHand(i) /\ IngestedIsSeen(i) /\ SavedIsThere(i))'
    <3>1. i \in Items \ forgotten /\ InHand(i) /\ IngestedIsSeen(i) /\ SavedIsThere(i)
      BY <2>1, <2>3 DEF ConnInv
    <3>2. Working(i)' = IF i = h THEN Working(i) \cup {t} ELSE Working(i)
      BY <1>1, <2>1 DEF Working, ConnInv, ConnTypes
    <3>3. \A u \in Working(i) : u # t /\ loopPc'[u] = loopPc[u]
      BY <1>1, <2>1 DEF Working, ConnInv, ConnTypes
    <3>4. i = h => Working(i) = {} /\ ingested[i] = 0
      BY <1>4, <2>1, <2>3, <3>1 DEF IngestedIsSeen, ConnInv, ConnTypes
    <3>5. InHand(i)'
      BY <1>4, <2>1, <3>1, <3>2, <3>3, <3>4 DEF InHand, LoopAt, ConnInv, ConnTypes
    <3>6. IngestedIsSeen(i)'
      BY <2>1, <3>1, <3>2, <3>3 DEF IngestedIsSeen, LoopAt
    <3>7. SavedIsThere(i)'
      BY <2>1, <3>1 DEF SavedIsThere
    <3> QED
      BY <3>5, <3>6, <3>7
  <2> QED
    BY <2>2, <2>3 DEF ConnInv
<1> QED
  BY <1>3, <1>4

\* The item is let go of: only this thread had it, so nobody has it now.
LEMMA EmbedRaisesKeeps ==
  ASSUME ConnInv, NEW t \in Loops, EmbedRaises(t)
  PROVE  ConnInv'
<1> DEFINE h == Head(items[t])
<1>1. /\ loopPc[t] = "embed" /\ loopPc' = [loopPc EXCEPT ![t] = "item"]
      /\ items' = [items EXCEPT ![t] = Tail(@)]
      /\ UNCHANGED <<seen, stateFile, loops, ingested, unsaved, forgotten>>
  BY DEF EmbedRaises, LoopAt, Move
<1>2. items[t] \in Seq(Items) /\ items[t] # <<>> /\ Tail(items[t]) \in Seq(Items) /\ t <= loops
  BY <1>1 DEF ConnInv, ConnTypes, LoopAt, Loops
<1>3. ConnTypes'
  BY <1>1, <1>2 DEF ConnInv, ConnTypes, LoopAt
<1>4. ASSUME NEW i \in Items \ forgotten'
      PROVE  (InHand(i) /\ IngestedIsSeen(i) /\ SavedIsThere(i))'
  <2>1. i \in Items \ forgotten /\ InHand(i) /\ IngestedIsSeen(i) /\ SavedIsThere(i)
    BY <1>1, <1>4 DEF ConnInv
  <2>2. Working(i)' = Working(i) \ {t}
    BY <1>1 DEF Working, ConnInv, ConnTypes
  <2>3. \A u \in Working(i) \ {t} : loopPc'[u] = loopPc[u]
    BY <1>1 DEF Working, ConnInv, ConnTypes
  <2>4. InHand(i)'
    BY <1>1, <2>1, <2>2, <2>3 DEF InHand, LoopAt
  <2>5. IngestedIsSeen(i)'
    BY <1>1, <2>1, <2>2, <2>3 DEF IngestedIsSeen, LoopAt
  <2>6. SavedIsThere(i)'
    BY <1>1, <2>1 DEF SavedIsThere
  <2> QED
    BY <2>4, <2>5, <2>6
<1> QED
  BY <1>3, <1>4 DEF ConnInv

LEMMA IngestItemKeeps ==
  ASSUME ConnInv, NEW t \in Loops, IngestItem(t)
  PROVE  ConnInv'
<1> DEFINE h == Head(items[t])
<1>1. /\ loopPc[t] = "embed" /\ loopPc' = [loopPc EXCEPT ![t] = "mark"]
      /\ ingested' = [ingested EXCEPT ![h] = @ + 1] /\ unsaved' = unsaved \cup {h}
      /\ UNCHANGED <<seen, stateFile, items, loops, forgotten>>
  BY DEF IngestItem, LoopAt, Move
<1>2. items[t] \in Seq(Items) /\ items[t] # <<>> /\ h \in Items /\ t <= loops
  BY <1>1 DEF ConnInv, ConnTypes, LoopAt, Loops
<1>3. ConnTypes'
  BY <1>1, <1>2 DEF ConnInv, ConnTypes, LoopAt
<1>4. ASSUME NEW i \in Items \ forgotten'
      PROVE  (InHand(i) /\ IngestedIsSeen(i) /\ SavedIsThere(i))'
  <2>1. i \in Items \ forgotten /\ InHand(i) /\ IngestedIsSeen(i) /\ SavedIsThere(i)
    BY <1>1, <1>4 DEF ConnInv
  <2>2. Working(i)' = Working(i) /\ (t \in Working(i) <=> i = h)
    BY <1>1 DEF Working, ConnInv, ConnTypes
  <2>3. \A u \in Working(i) \ {t} : loopPc'[u] = loopPc[u]
    BY <1>1 DEF Working, ConnInv, ConnTypes
  <2>4. loopPc'[t] = "mark" /\ ingested[i] \in Nat
        /\ ingested'[i] = IF i = h THEN ingested[i] + 1 ELSE ingested[i]
    BY <1>1 DEF ConnInv, ConnTypes
  <2>5. i = h => ingested[i] = 0 /\ \A u \in Working(i) : u = t
    BY <1>1, <2>1, <2>2 DEF InHand, LoopAt
  <2>6. InHand(i)'
    BY <1>1, <2>1, <2>2, <2>3, <2>4, <2>5 DEF InHand, LoopAt
  <2>7. IngestedIsSeen(i)'
    BY <1>1, <2>1, <2>2, <2>3, <2>4, <2>5 DEF IngestedIsSeen, LoopAt
  <2>8. SavedIsThere(i)'
    BY <1>1, <2>1, <2>4 DEF SavedIsThere
  <2> QED
    BY <2>6, <2>7, <2>8
<1> QED
  BY <1>3, <1>4 DEF ConnInv

LEMMA MarkSeenKeeps ==
  ASSUME ConnInv, NEW t \in Loops, MarkSeen(t)
  PROVE  ConnInv'
<1> DEFINE h == Head(items[t])
<1>1. /\ loopPc[t] = "mark" /\ loopPc' = [loopPc EXCEPT ![t] = "item"]
      /\ seen' = seen \cup {h} /\ items' = [items EXCEPT ![t] = Tail(@)]
      /\ UNCHANGED <<stateFile, loops, ingested, unsaved, forgotten>>
  BY DEF MarkSeen, LoopAt, Move
<1>2. items[t] \in Seq(Items) /\ items[t] # <<>> /\ h \in Items /\ t <= loops
      /\ Tail(items[t]) \in Seq(Items)
  BY <1>1 DEF ConnInv, ConnTypes, LoopAt, Loops
<1>3. IsFiniteSet(seen) /\ IsFiniteSet(seen')
  BY <1>1, FS_AddElement DEF ConnInv, ConnTypes
<1>4. Cardinality(seen) <= Cardinality(seen') /\ Cardinality(seen) \in Nat /\ Cardinality(seen') \in Nat
  BY <1>1, <1>3, FS_Subset, FS_CardinalityType
<1>5. ConnTypes'
  BY <1>1, <1>2, <1>3 DEF ConnInv, ConnTypes, LoopAt
<1>6. ASSUME NEW i \in Items \ forgotten'
      PROVE  (InHand(i) /\ IngestedIsSeen(i) /\ SavedIsThere(i))'
  <2>1. i \in Items \ forgotten /\ InHand(i) /\ IngestedIsSeen(i) /\ SavedIsThere(i)
    BY <1>1, <1>6 DEF ConnInv
  <2>2. Working(i)' = Working(i) \ {t} /\ (t \in Working(i) <=> i = h)
    BY <1>1 DEF Working, ConnInv, ConnTypes
  <2>3. \A u \in Working(i) \ {t} : loopPc'[u] = loopPc[u]
    BY <1>1 DEF Working, ConnInv, ConnTypes
  <2>4. i = h => Working(i) \subseteq {t}
    BY <2>1, <2>2 DEF InHand
  <2>5. InHand(i)'
    BY <1>1, <2>1, <2>2, <2>3, <2>4 DEF InHand, LoopAt
  <2>6. IngestedIsSeen(i)'
    BY <1>1, <2>1, <2>2, <2>3, <2>4 DEF IngestedIsSeen, LoopAt
  <2>7. SavedIsThere(i)'
    BY <1>1, <1>4, <2>1, ConnectorAssumption DEF SavedIsThere
  <2> QED
    BY <2>5, <2>6, <2>7
<1> QED
  BY <1>5, <1>6 DEF ConnInv

\* Opening the file for writing empties it.
LEMMA OpenStateKeeps ==
  ASSUME ConnInv, NEW t \in Loops, OpenState(t)
  PROVE  ConnInv'
<1>1. /\ loopPc[t] = "item" /\ loopPc' = [loopPc EXCEPT ![t] = "write"] /\ stateFile' = Damaged
      /\ UNCHANGED <<seen, items, loops, ingested, unsaved, forgotten>>
  BY DEF OpenState, LoopAt, Move
<1>2. t <= loops
  BY <1>1 DEF ConnInv, ConnTypes, LoopAt, Loops
<1>3. ConnTypes'
  BY <1>1, <1>2 DEF ConnInv, ConnTypes, LoopAt
<1>4. \A i \in Items :
        /\ Working(i)' = Working(i)
        /\ \A u \in Working(i) : (LoopAt(u, "embed") <=> LoopAt(u, "embed")')
                                /\ (LoopAt(u, "mark") <=> LoopAt(u, "mark")')
  <2>1. /\ loopPc[t] \notin {"embed", "mark"} /\ loopPc'[t] \notin {"embed", "mark"}
        /\ \A u \in Loops \ {t} : loopPc'[u] = loopPc[u] /\ items'[u] = items[u]
    BY <1>1 DEF ConnInv, ConnTypes
  <2> QED
    BY <2>1, HandsUnchanged
<1> QED
  BY <1>1, <1>3, <1>4 DEF ConnInv, InHand, IngestedIsSeen, SavedIsThere

\* What is written is all that was seen, unless that is more than the file takes.
LEMMA WriteStateKeeps ==
  ASSUME ConnInv, NEW t \in Loops, WriteState(t)
  PROVE  ConnInv'
<1>1. /\ loopPc[t] = "write" /\ loopPc' = [loopPc EXCEPT ![t] = "loop"]
      /\ \/ /\ stateFile' \in {S \in SUBSET seen : Cardinality(S) = SeenCap
                                               \/ (Cardinality(S) < SeenCap /\ S = seen)}
            /\ unsaved' = unsaved \ seen
         \/ stateFile' = Damaged /\ UNCHANGED unsaved
      /\ UNCHANGED <<seen, items, loops, ingested, forgotten>>
  BY DEF WriteState, LoopAt, Move
<1>2. t <= loops /\ seen \subseteq Items /\ IsFiniteSet(seen)
  BY <1>1 DEF ConnInv, ConnTypes, LoopAt, Loops
<1>3. stateFile' # Damaged =>
        /\ stateFile' \subseteq seen /\ IsFiniteSet(stateFile') /\ unsaved' = unsaved \ seen
        /\ Cardinality(seen) <= SeenCap => stateFile' = seen
  <2> SUFFICES ASSUME stateFile' # Damaged PROVE <1>3!2
    OBVIOUS
  <2>1. /\ stateFile' \subseteq seen /\ unsaved' = unsaved \ seen
        /\ Cardinality(stateFile') = SeenCap \/ stateFile' = seen
    BY <1>1
  <2>2. IsFiniteSet(stateFile') /\ Cardinality(stateFile') <= Cardinality(seen)
        /\ (Cardinality(stateFile') = Cardinality(seen) => stateFile' = seen)
    BY <1>2, <2>1, FS_Subset
  <2>3. Cardinality(stateFile') \in Nat /\ Cardinality(seen) \in Nat /\ SeenCap \in Nat
    BY <1>2, <2>2, FS_CardinalityType, ConnectorAssumption
  <2> QED
    BY <2>1, <2>2, <2>3
<1>4. ConnTypes'
  BY <1>1, <1>2, <1>3 DEF ConnInv, ConnTypes, LoopAt
<1>5. \A i \in Items :
        /\ Working(i)' = Working(i)
        /\ \A u \in Working(i) : (LoopAt(u, "embed") <=> LoopAt(u, "embed")')
                                /\ (LoopAt(u, "mark") <=> LoopAt(u, "mark")')
  <2>1. /\ loopPc[t] \notin {"embed", "mark"} /\ loopPc'[t] \notin {"embed", "mark"}
        /\ \A u \in Loops \ {t} : loopPc'[u] = loopPc[u] /\ items'[u] = items[u]
    BY <1>1 DEF ConnInv, ConnTypes
  <2> QED
    BY <2>1, HandsUnchanged
<1>6. ASSUME NEW i \in Items \ forgotten'
      PROVE  (InHand(i) /\ IngestedIsSeen(i) /\ SavedIsThere(i))'
  <2>1. i \in Items \ forgotten /\ InHand(i) /\ IngestedIsSeen(i) /\ SavedIsThere(i)
    BY <1>1, <1>6 DEF ConnInv
  <2>2. Working(i) # {} => i \notin seen
    BY <2>1 DEF InHand
  <2>3. \A u \in Working(i) : LoopAt(u, "embed") \/ LoopAt(u, "mark")
    BY DEF Working, LoopAt
  <2>4. \A u \in Working(i) : ~LoopAt(u, "embed") => i \in unsaved'
    BY <1>1, <2>1, <2>2 DEF InHand
  <2>5. InHand(i)'
    BY <1>1, <1>5, <2>1, <2>4 DEF InHand
  <2>6. IngestedIsSeen(i)'
    BY <1>1, <1>5, <2>1 DEF IngestedIsSeen
  <2>7. SavedIsThere(i)'
    <3>1. ingested[i] = 1 /\ i \notin seen => i \in unsaved
      BY <2>1 DEF InHand, IngestedIsSeen, LoopAt, Working
    <3> QED
      BY <1>1, <1>3, <2>1, <3>1 DEF SavedIsThere
  <2> QED
    BY <2>5, <2>6, <2>7
<1> QED
  BY <1>4, <1>6 DEF ConnInv

\* A new process: what was ingested and not saved counts as forgotten, and all that was
\* seen when the file is damaged or too small.
LEMMA RebootKeeps ==
  ASSUME ConnInv, Reboot
  PROVE  ConnInv'
<1>1. /\ loopPc' = [t \in Loops |-> "off"] /\ items' = [t \in Loops |-> <<>>]
      /\ seen' = (IF stateFile = Damaged THEN {} ELSE stateFile)
      /\ forgotten' = forgotten \cup (IF stateFile = Damaged \/ Cardinality(seen) > SeenCap
                                      THEN seen \cup unsaved ELSE unsaved)
      /\ unsaved' = {} /\ UNCHANGED <<stateFile, loops, ingested>>
  BY DEF Reboot
<1>2. IsFiniteSet(seen) /\ Cardinality(seen) \in Nat /\ SeenCap \in Nat
  BY FS_CardinalityType, ConnectorAssumption DEF ConnInv, ConnTypes
<1>3. ConnTypes'
  <2>1. seen' \subseteq Items /\ IsFiniteSet(seen')
    BY <1>1, FS_EmptySet DEF ConnInv, ConnTypes
  <2>2. loopPc' \in [Loops -> {"off", "loop", "item", "embed", "mark", "write"}]
        /\ items' \in [Loops -> Seq(Items)]
    BY <1>1
  <2> QED
    BY <1>1, <2>1, <2>2 DEF ConnInv, ConnTypes, LoopAt
<1>4. ASSUME NEW i \in Items \ forgotten'
      PROVE  (InHand(i) /\ IngestedIsSeen(i) /\ SavedIsThere(i))'
  <2>1. i \in Items \ forgotten /\ InHand(i) /\ IngestedIsSeen(i) /\ SavedIsThere(i)
    BY <1>1, <1>4 DEF ConnInv
  <2>2. Working(i)' = {}
    BY <1>1 DEF Working
  <2>3. i \notin unsaved /\ (stateFile = Damaged \/ Cardinality(seen) > SeenCap => i \notin seen)
    BY <1>1, <1>4
  <2>4. ingested[i] = 1 => i \in seen
    BY <2>1, <2>3 DEF InHand, IngestedIsSeen, LoopAt, Working
  <2>5. ingested[i] = 1 => stateFile # Damaged /\ i \in stateFile
    BY <1>2, <2>1, <2>3, <2>4 DEF SavedIsThere
  <2> QED
    BY <1>1, <2>1, <2>2, <2>5 DEF InHand, IngestedIsSeen, SavedIsThere
<1> QED
  BY <1>3, <1>4 DEF ConnInv

LEMMA ConnInvStep == ConnInv /\ [ConnNext]_connVars => ConnInv'
<1> SUFFICES ASSUME ConnInv, [ConnNext]_connVars PROVE ConnInv'
  OBVIOUS
<1>1. CASE UNCHANGED connVars
  BY <1>1 DEF connVars, ConnInv, ConnTypes, InHand, IngestedIsSeen, SavedIsThere, LoopAt, Working
<1>2. CASE StartPolling \/ StopPolling
  BY <1>2, PollingKeeps
<1>3. CASE Reboot
  BY <1>3, RebootKeeps
<1>4. ASSUME NEW t \in Loops,
             Collect(t) \/ CheckSeen(t) \/ EmbedRaises(t) \/ IngestItem(t) \/ MarkSeen(t)
               \/ OpenState(t) \/ WriteState(t)
      PROVE  ConnInv'
  BY <1>4, CollectKeeps, CheckSeenKeeps, EmbedRaisesKeeps, IngestItemKeeps, MarkSeenKeeps,
     OpenStateKeeps, WriteStateKeeps
<1> QED
  BY <1>1, <1>2, <1>3, <1>4 DEF ConnNext

(***************************************************************************)
(* IngestedOnce for any source, any number of threads and any capacity of  *)
(* the state file, over any number of crashes.                             *)
(***************************************************************************)
THEOREM ConnectorIngestsOnce == ConnSpec => []IngestedOnce
<1>1. ConnInv => IngestedOnce
  BY DEF ConnInv, IngestedIsSeen, IngestedOnce
<1> QED
  BY <1>1, ConnInvInit, ConnInvStep, PTL DEF ConnSpec

-----------------------------------------------------------------------------
(***************************************************************************)
(* AuditLog: the inductive invariant.                                      *)
(***************************************************************************)
Increasing(s) == \A i, j \in DOMAIN s : i < j => s[i] < s[j]
AllBelow(s, r) == \A i \in DOMAIN s, j \in DOMAIN r : s[i] < r[j]

AuditTypes ==
  /\ events \in Nat
  /\ auditBuffer \in Seq(1 .. events) /\ auditFile \in Seq(1 .. events)
  /\ auditPc \in [Loggers -> {"idle", "size", "lock", "write", "clear"}]
  /\ torn \in BOOLEAN /\ rewritten \in BOOLEAN

\* One thread at most is past the lock, and it holds the lock; the list it writes is not
\* empty, and once it is written every event of it has come through or is dropped.
AuditExclusion ==
  /\ auditLock = {t \in Loggers : auditPc[t] \in {"write", "clear"}}
  /\ \A t, u \in auditLock : t = u
  /\ \A t \in Loggers : auditPc[t] = "write" => auditBuffer # <<>>
  /\ \A t \in Loggers : auditPc[t] = "clear" =>
       ToSet(auditBuffer) \subseteq ToSet(auditFile) \cup dropped

\* The list is in order, and behind the file until it is in the file.
AuditOrder ==
  /\ Increasing(auditBuffer)
  /\ ~rewritten =>
       /\ Increasing(auditFile)
       /\ (\A t \in Loggers : auditPc[t] # "clear") => AllBelow(auditFile, auditBuffer)

AuditInv ==
  /\ AuditTypes /\ AuditExclusion /\ AuditOrder
  /\ 1 .. events = ToSet(auditBuffer) \cup ToSet(auditFile) \cup dropped

-----------------------------------------------------------------------------
(* What is appended to the file. *)

\* Each line of g is one of f, or behind those one of b, of which the first m - 1 are
\* left out.
Behind(g, f, b, m) ==
  \A i \in 1 .. Len(g) :
    IF i <= Len(f) THEN g[i] = f[i]
    ELSE i - Len(f) + m - 1 \in 1 .. Len(b) /\ g[i] = b[i - Len(f) + m - 1]

\* All lines of b from the m-th on are in g.
Through(g, f, b, m) ==
  \A j \in m .. Len(b) : j + Len(f) - m + 1 \in 1 .. Len(g) /\ g[j + Len(f) - m + 1] = b[j]

\* The lines of a file behind which a part of the list is written.
LEMMA AppendedLines ==
  ASSUME NEW S, NEW f \in Seq(S), NEW b \in Seq(S), NEW m \in {1, 2}, NEW n \in 0 .. Len(b),
         NEW g, g = f \o SubSeq(b, m, n)
  PROVE  /\ g \in Seq(S) /\ Len(f) <= Len(g)
         /\ Behind(g, f, b, m) /\ (n = Len(b) => Through(g, f, b, m))
<1>1. SubSeq(b, m, n) \in Seq(S) /\ Len(SubSeq(b, m, n)) = (IF m <= n THEN n - m + 1 ELSE 0)
  OBVIOUS
<1>2. \A i \in 1 .. Len(SubSeq(b, m, n)) : SubSeq(b, m, n)[i] = b[m + i - 1]
  BY <1>1, SMTT(30)
<1>3. g \in Seq(S) /\ Len(g) = Len(f) + Len(SubSeq(b, m, n))
  BY <1>1
<1>4. \A i \in 1 .. Len(g) : g[i] = IF i <= Len(f) THEN f[i] ELSE SubSeq(b, m, n)[i - Len(f)]
  BY <1>1, <1>3, ConcatProperties
<1>5. ASSUME NEW i \in 1 .. Len(g), ~(i <= Len(f))
      PROVE  i - Len(f) + m - 1 \in 1 .. Len(b) /\ g[i] = b[i - Len(f) + m - 1]
  <2>1. i - Len(f) \in 1 .. Len(SubSeq(b, m, n))
    BY <1>1, <1>3, <1>5
  <2>2. SubSeq(b, m, n)[i - Len(f)] = b[m + (i - Len(f)) - 1]
    BY <1>2, <2>1
  <2>3. m + (i - Len(f)) - 1 = i - Len(f) + m - 1
    BY <1>3
  <2> QED
    BY <1>1, <1>4, <1>5, <2>1, <2>2, <2>3
<1>6. ASSUME n = Len(b), NEW j \in m .. Len(b)
      PROVE  j + Len(f) - m + 1 \in 1 .. Len(g) /\ g[j + Len(f) - m + 1] = b[j]
  <2>1. j - m + 1 \in 1 .. Len(SubSeq(b, m, n)) /\ m + (j - m + 1) - 1 = j
    BY <1>1, <1>6
  <2>2. SubSeq(b, m, n)[j - m + 1] = b[j]
    BY <1>2, <2>1
  <2>3. j + Len(f) - m + 1 \in 1 .. Len(g) /\ ~(j + Len(f) - m + 1 <= Len(f))
    BY <1>3, <1>6, <2>1
  <2>4. (j + Len(f) - m + 1) - Len(f) = j - m + 1
    BY <1>6
  <2> QED
    BY <1>4, <2>2, <2>3, <2>4
<1>7. Len(f) <= Len(g)
  BY <1>1, <1>3
<1>8. Behind(g, f, b, m)
  BY <1>4, <1>5 DEF Behind
<1>9. n = Len(b) => Through(g, f, b, m)
  BY <1>6 DEF Through
<1> QED
  BY <1>3, <1>7, <1>8, <1>9

\* What is written is in the file, but for the first event when it is glued to half a line.
LEMMA AppendedSets ==
  ASSUME NEW S, NEW f \in Seq(S), NEW b \in Seq(S), NEW m \in {1, 2}, NEW n \in 0 .. Len(b)
  PROVE  LET g == f \o SubSeq(b, m, n)
         IN  /\ ToSet(f) \subseteq ToSet(g) /\ ToSet(g) \subseteq ToSet(f) \cup ToSet(b)
             /\ n = Len(b) /\ m = 1 => ToSet(b) \subseteq ToSet(g)
             /\ n = Len(b) /\ b # <<>> => ToSet(b) \subseteq ToSet(g) \cup {Head(b)}
<1> DEFINE g == f \o SubSeq(b, m, n)
<1>0. g = f \o SubSeq(b, m, n)
  OBVIOUS
<1> HIDE DEF g
<1>1. g \in Seq(S) /\ Len(f) <= Len(g)
  BY <1>0, AppendedLines
<1>2. DOMAIN f = 1 .. Len(f) /\ DOMAIN b = 1 .. Len(b) /\ DOMAIN g = 1 .. Len(g)
  BY <1>1
<1>3. Behind(g, f, b, m)
  BY <1>0, AppendedLines
<1>4. n = Len(b) => Through(g, f, b, m)
  BY <1>0, AppendedLines
<1>5. ToSet(f) \subseteq ToSet(g)
  BY <1>1, <1>2, <1>3 DEF ToSet, Behind
<1>6. ToSet(g) \subseteq ToSet(f) \cup ToSet(b)
  <2> SUFFICES ASSUME NEW i \in 1 .. Len(g) PROVE g[i] \in ToSet(f) \cup ToSet(b)
    BY <1>2 DEF ToSet
  <2>1. CASE i <= Len(f)
    <3>1. g[i] = f[i] /\ i \in DOMAIN f
      BY <1>2, <1>3, <2>1 DEF Behind
    <3> QED
      BY <3>1 DEF ToSet
  <2>2. CASE ~(i <= Len(f))
    <3>1. i - Len(f) + m - 1 \in DOMAIN b /\ g[i] = b[i - Len(f) + m - 1]
      BY <1>2, <1>3, <2>2 DEF Behind
    <3> QED
      BY <3>1 DEF ToSet
  <2> QED
    BY <2>1, <2>2
<1>7. n = Len(b) => \A j \in m .. Len(b) : b[j] \in ToSet(g)
  BY <1>2, <1>4 DEF ToSet, Through
<1>8. n = Len(b) /\ m = 1 => ToSet(b) \subseteq ToSet(g)
  BY <1>2, <1>7 DEF ToSet
<1>9. n = Len(b) /\ b # <<>> => ToSet(b) \subseteq ToSet(g) \cup {Head(b)}
  <2> SUFFICES ASSUME n = Len(b), NEW j \in 1 .. Len(b) PROVE b[j] \in ToSet(g) \cup {Head(b)}
    BY <1>2 DEF ToSet
  <2>1. CASE j = 1
    BY <2>1
  <2>2. CASE j # 1
    BY <1>7, <2>2
  <2> QED
    BY <2>1, <2>2
<1> QED
  BY <1>5, <1>6, <1>8, <1>9 DEF g

\* A list in order, written behind what is older, leaves the file in order.
LEMMA AppendedInOrder ==
  ASSUME NEW S \in SUBSET Nat, NEW f \in Seq(S), NEW b \in Seq(S), NEW m \in {1, 2},
         NEW n \in 0 .. Len(b), Increasing(f), Increasing(b), AllBelow(f, b)
  PROVE  Increasing(f \o SubSeq(b, m, n))
<1> DEFINE g == f \o SubSeq(b, m, n)
<1>0. g = f \o SubSeq(b, m, n)
  OBVIOUS
<1> HIDE DEF g
<1>1. g \in Seq(S) /\ Len(f) <= Len(g) /\ Behind(g, f, b, m)
  BY <1>0, AppendedLines
<1>2. DOMAIN f = 1 .. Len(f) /\ DOMAIN b = 1 .. Len(b) /\ DOMAIN g = 1 .. Len(g)
  BY <1>1
<1>3. Behind(g, f, b, m)
  BY <1>1
<1> SUFFICES ASSUME NEW i \in 1 .. Len(g), NEW j \in 1 .. Len(g), i < j PROVE g[i] < g[j]
  BY <1>0, <1>2 DEF Increasing
<1>4. CASE j <= Len(f)
  <2>1. g[i] = f[i] /\ g[j] = f[j] /\ i \in DOMAIN f /\ j \in DOMAIN f
    BY <1>2, <1>3, <1>4 DEF Behind
  <2> QED
    BY <2>1 DEF Increasing
<1>5. CASE i <= Len(f) /\ ~(j <= Len(f))
  <2>1. g[i] = f[i] /\ i \in DOMAIN f
    BY <1>2, <1>3, <1>5 DEF Behind
  <2>2. PICK p \in DOMAIN b : g[j] = b[p]
    BY <1>2, <1>3, <1>5 DEF Behind
  <2> QED
    BY <2>1, <2>2 DEF AllBelow
<1>6. CASE ~(i <= Len(f))
  <2>1. ~(j <= Len(f))
    BY <1>6
  <2>2. i - Len(f) + m - 1 \in DOMAIN b /\ g[i] = b[i - Len(f) + m - 1]
    BY <1>2, <1>3, <1>6 DEF Behind
  <2>3. j - Len(f) + m - 1 \in DOMAIN b /\ g[j] = b[j - Len(f) + m - 1]
    BY <1>2, <1>3, <2>1 DEF Behind
  <2>4. i - Len(f) + m - 1 < j - Len(f) + m - 1
    BY <1>6
  <2> QED
    BY <2>2, <2>3, <2>4 DEF Increasing
<1> QED
  BY <1>4, <1>5, <1>6

\* What one more event adds to a list.
LEMMA ToSetAppend ==
  ASSUME NEW S, NEW s \in Seq(S), NEW e
  PROVE  ToSet(Append(s, e)) = ToSet(s) \cup {e}
<1>1. Len(Append(s, e)) = Len(s) + 1 /\ DOMAIN Append(s, e) = 1 .. Len(s) + 1 /\ DOMAIN s = 1 .. Len(s)
  OBVIOUS
<1>2. \A i \in 1 .. Len(s) : Append(s, e)[i] = s[i]
  OBVIOUS
<1>3. Append(s, e)[Len(s) + 1] = e
  OBVIOUS
<1>4. 1 .. Len(s) + 1 = (1 .. Len(s)) \cup {Len(s) + 1}
  OBVIOUS
<1> QED
  BY <1>1, <1>2, <1>3, <1>4 DEF ToSet

LEMMA ToSetEmpty == ToSet(<<>>) = {}
  BY DEF ToSet

-----------------------------------------------------------------------------
(* Each operation of the log keeps the invariant. *)

LEMMA AuditInvInit == AuditInit => AuditInv
<1> SUFFICES ASSUME AuditInit PROVE AuditInv
  OBVIOUS
<1> USE DEF AuditInit
<1>1. AuditTypes
  <2>1. auditBuffer \in Seq(1 .. events) /\ auditFile \in Seq(1 .. events)
    OBVIOUS
  <2>2. auditPc \in [Loggers -> {"idle", "size", "lock", "write", "clear"}]
    OBVIOUS
  <2> QED
    BY <2>1, <2>2 DEF AuditTypes
<1>2. AuditExclusion
  BY DEF AuditExclusion
<1>3. AuditOrder
  BY DEF AuditOrder, Increasing, AllBelow
<1>4. 1 .. events = ToSet(auditBuffer) \cup ToSet(auditFile) \cup dropped
  BY ToSetEmpty
<1> QED
  BY <1>1, <1>2, <1>3, <1>4 DEF AuditInv

\* Nobody is past the lock when an event enters the list.
LEMMA LogEventKeeps ==
  ASSUME AuditInv, NEW t \in Loggers, LogEvent(t)
  PROVE  AuditInv'
<1> DEFINE e == events + 1
<1>1. /\ auditPc[t] = "idle" /\ auditPc' = [auditPc EXCEPT ![t] = "size"]
      /\ auditLock = {} /\ events' = e /\ auditBuffer' = Append(auditBuffer, e)
      /\ UNCHANGED <<auditFile, auditLock, faults, torn, rewritten, dropped>>
  BY DEF LogEvent, Step
<1>2. AuditTypes /\ AuditExclusion /\ AuditOrder
      /\ 1 .. events = ToSet(auditBuffer) \cup ToSet(auditFile) \cup dropped
  BY DEF AuditInv
<1>3. events \in Nat /\ 1 .. e = (1 .. events) \cup {e} /\ 1 .. events \subseteq 1 .. e
  BY <1>2 DEF AuditTypes
<1>4. auditBuffer \in Seq(1 .. e) /\ auditFile \in Seq(1 .. e) /\ e \in 1 .. e
  BY <1>2, <1>3 DEF AuditTypes
<1>5. AuditTypes'
  BY <1>1, <1>2, <1>3, <1>4 DEF AuditTypes
<1>6. AuditExclusion'
  BY <1>1, <1>2 DEF AuditExclusion, AuditTypes
<1>7. /\ \A i \in DOMAIN auditBuffer : auditBuffer[i] \in 1 .. events
      /\ \A i \in DOMAIN auditFile : auditFile[i] \in 1 .. events
  BY <1>2 DEF AuditTypes
<1>8. \A i \in DOMAIN auditBuffer' :
        IF i \in DOMAIN auditBuffer THEN auditBuffer'[i] = auditBuffer[i]
        ELSE i = Len(auditBuffer) + 1 /\ auditBuffer'[i] = e
  BY <1>1, <1>4
<1>9. AuditOrder'
  <2>1. \A s \in Loggers : auditPc[s] # "clear"
    BY <1>1, <1>2 DEF AuditExclusion
  <2>2. Increasing(auditBuffer)'
    BY <1>1, <1>2, <1>3, <1>4, <1>7, <1>8 DEF AuditOrder, Increasing
  <2>3. AllBelow(auditFile, auditBuffer) => AllBelow(auditFile, auditBuffer)'
    BY <1>1, <1>3, <1>7, <1>8 DEF AllBelow
  <2>4. Increasing(auditFile) => Increasing(auditFile)'
    BY <1>1 DEF Increasing
  <2> QED
    BY <1>1, <1>2, <2>1, <2>2, <2>3, <2>4 DEF AuditOrder
<1>10. (1 .. events = ToSet(auditBuffer) \cup ToSet(auditFile) \cup dropped)'
  BY <1>1, <1>2, <1>3, <1>4, ToSetAppend
<1> QED
  BY <1>5, <1>6, <1>9, <1>10 DEF AuditInv

\* Steps that write and log nothing, and enter no lock.
LEMMA PlainAuditSteps ==
  ASSUME AuditInv, NEW t \in Loggers, NotDue(t) \/ FlushAudit(t)
  PROVE  AuditInv'
<1>1. /\ auditPc[t] \in {"idle", "size"}
      /\ \E pc \in {"idle", "lock"} : auditPc' = [auditPc EXCEPT ![t] = pc]
      /\ UNCHANGED <<auditBuffer, auditFile, auditLock, events, faults, torn, rewritten, dropped>>
  BY DEF NotDue, FlushAudit, Step
<1>2. AuditTypes'
  BY <1>1 DEF AuditInv, AuditTypes
<1>3. \A s \in Loggers : \A pc \in {"write", "clear"} : auditPc'[s] = pc <=> auditPc[s] = pc
  BY <1>1 DEF AuditInv, AuditTypes
<1>4. AuditExclusion'
  BY <1>1, <1>3 DEF AuditInv, AuditExclusion
<1>5. AuditOrder'
  BY <1>1, <1>3 DEF AuditInv, AuditOrder, Increasing, AllBelow
<1> QED
  BY <1>1, <1>2, <1>4, <1>5 DEF AuditInv

LEMMA EnterLockKeeps ==
  ASSUME AuditInv, NEW t \in Loggers, EnterLock(t)
  PROVE  AuditInv'
<1>1. /\ auditLock = {} /\ auditPc[t] = "lock"
      /\ auditPc' = [auditPc EXCEPT ![t] = IF auditBuffer = <<>> THEN "idle" ELSE "write"]
      /\ auditLock' = (IF auditBuffer = <<>> THEN {} ELSE {t})
      /\ UNCHANGED <<auditBuffer, auditFile, events, faults, torn, rewritten, dropped>>
  BY DEF EnterLock, Step
<1>2. AuditTypes'
  BY <1>1 DEF AuditInv, AuditTypes
<1>3. AuditExclusion'
  BY <1>1 DEF AuditInv, AuditTypes, AuditExclusion
<1>4. \A s \in Loggers : auditPc[s] # "clear"
  BY <1>1 DEF AuditInv, AuditExclusion
<1>5. AuditOrder'
  BY <1>1, <1>4 DEF AuditInv, AuditOrder, Increasing, AllBelow
<1> QED
  BY <1>1, <1>2, <1>3, <1>5 DEF AuditInv

\* The writer is alone past the lock, so what it writes is behind the file.
LEMMA OnlyWriter ==
  ASSUME AuditInv, NEW t \in Loggers, auditPc[t] = "write"
  PROVE  /\ auditBuffer # <<>> /\ auditLock = {t}
         /\ \A u \in Loggers : auditPc[u] # "clear" /\ (auditPc[u] = "write" => u = t)
         /\ ~rewritten => AllBelow(auditFile, auditBuffer)
<1>1. t \in auditLock /\ auditBuffer # <<>> /\ \A u \in auditLock : u = t
  BY DEF AuditInv, AuditExclusion
<1>2. \A u \in Loggers : auditPc[u] # "clear" /\ (auditPc[u] = "write" => u = t)
  BY <1>1 DEF AuditInv, AuditExclusion
<1> QED
  BY <1>1, <1>2 DEF AuditInv, AuditOrder

\* What a write, whole or cut off, does to the file.
LEMMA FileGrows ==
  ASSUME AuditInv, NEW t \in Loggers, auditPc[t] = "write",
         NEW n \in 0 .. Len(auditBuffer), AppendLines(n)
  PROVE  /\ auditFile' \in Seq(1 .. events)
         /\ ToSet(auditFile) \subseteq ToSet(auditFile')
         /\ ToSet(auditFile') \subseteq ToSet(auditFile) \cup ToSet(auditBuffer)
         /\ n = Len(auditBuffer) /\ ~torn => ToSet(auditBuffer) \subseteq ToSet(auditFile')
         /\ n = Len(auditBuffer) => ToSet(auditBuffer) \subseteq ToSet(auditFile') \cup {Head(auditBuffer)}
         /\ ~rewritten => Increasing(auditFile')
<1> DEFINE m == IF torn THEN 2 ELSE 1
           S == 1 .. events
<1>1. m \in {1, 2} /\ (~torn => m = 1)
  OBVIOUS
<1>2. auditFile \in Seq(S) /\ auditBuffer \in Seq(S) /\ S \in SUBSET Nat
  BY DEF AuditInv, AuditTypes
<1>3. auditBuffer # <<>> /\ (~rewritten => AllBelow(auditFile, auditBuffer))
  BY OnlyWriter
<1>4. Increasing(auditBuffer) /\ (~rewritten => Increasing(auditFile))
  BY DEF AuditInv, AuditOrder
<1>5. auditFile' = auditFile \o SubSeq(auditBuffer, m, n)
  BY DEF AppendLines
<1> HIDE DEF m, S
<1>6. auditFile' \in Seq(S)
  BY <1>1, <1>2, <1>5, AppendedLines
<1>7. /\ ToSet(auditFile) \subseteq ToSet(auditFile')
      /\ ToSet(auditFile') \subseteq ToSet(auditFile) \cup ToSet(auditBuffer)
      /\ n = Len(auditBuffer) /\ m = 1 => ToSet(auditBuffer) \subseteq ToSet(auditFile')
      /\ n = Len(auditBuffer) /\ auditBuffer # <<>> =>
           ToSet(auditBuffer) \subseteq ToSet(auditFile') \cup {Head(auditBuffer)}
  BY <1>1, <1>2, <1>5, AppendedSets
<1>8. ~rewritten => Increasing(auditFile')
  BY <1>1, <1>2, <1>3, <1>4, <1>5, AppendedInOrder
<1> QED
  BY <1>1, <1>3, <1>6, <1>7, <1>8 DEF S

LEMMA WriteAuditKeeps ==
  ASSUME AuditInv, NEW t \in Loggers, WriteAudit(t)
  PROVE  AuditInv'
<1>1. /\ auditPc[t] = "write" /\ auditPc' = [auditPc EXCEPT ![t] = "clear"]
      /\ AppendLines(Len(auditBuffer)) /\ torn' = FALSE
      /\ dropped' = (IF torn THEN dropped \cup {Head(auditBuffer)} ELSE dropped)
      /\ UNCHANGED <<auditBuffer, auditLock, events, faults, rewritten>>
  BY DEF WriteAudit, Step
<1>2. Len(auditBuffer) \in 0 .. Len(auditBuffer)
  BY DEF AuditInv, AuditTypes
<1>3. /\ auditBuffer # <<>> /\ auditLock = {t}
      /\ \A u \in Loggers : auditPc[u] # "clear" /\ (auditPc[u] = "write" => u = t)
  BY <1>1, OnlyWriter
<1>4. /\ auditFile' \in Seq(1 .. events)
      /\ ToSet(auditFile) \subseteq ToSet(auditFile')
      /\ ToSet(auditFile') \subseteq ToSet(auditFile) \cup ToSet(auditBuffer)
      /\ ~torn => ToSet(auditBuffer) \subseteq ToSet(auditFile')
      /\ ToSet(auditBuffer) \subseteq ToSet(auditFile') \cup {Head(auditBuffer)}
      /\ ~rewritten => Increasing(auditFile')
  BY <1>1, <1>2, FileGrows
<1>5. Head(auditBuffer) \in ToSet(auditBuffer)
  BY <1>3 DEF ToSet, AuditInv, AuditTypes
<1>6. ToSet(auditBuffer) \subseteq ToSet(auditFile') \cup dropped'
  BY <1>1, <1>4
<1>7. AuditTypes'
  BY <1>1, <1>4 DEF AuditInv, AuditTypes
<1>8. AuditExclusion'
  BY <1>1, <1>3, <1>6 DEF AuditInv, AuditExclusion, AuditTypes
<1>9. AuditOrder'
  <2>1. auditPc'[t] = "clear"
    BY <1>1 DEF AuditInv, AuditTypes
  <2> QED
    BY <1>1, <1>4, <2>1 DEF AuditInv, AuditOrder, Increasing
<1>10. (1 .. events = ToSet(auditBuffer) \cup ToSet(auditFile) \cup dropped)'
  BY <1>1, <1>4, <1>5 DEF AuditInv
<1> QED
  BY <1>7, <1>8, <1>9, <1>10 DEF AuditInv

LEMMA ClearAuditKeeps ==
  ASSUME AuditInv, NEW t \in Loggers, ClearAudit(t)
  PROVE  AuditInv'
<1>1. /\ auditPc[t] = "clear" /\ auditPc' = [auditPc EXCEPT ![t] = "idle"]
      /\ auditBuffer' = <<>> /\ auditLock' = auditLock \ {t}
      /\ UNCHANGED <<auditFile, events, faults, torn, rewritten, dropped>>
  BY DEF ClearAudit, Step
<1>2. ToSet(auditBuffer) \subseteq ToSet(auditFile) \cup dropped /\ auditLock = {t}
  BY <1>1 DEF AuditInv, AuditExclusion
<1>3. AuditTypes'
  BY <1>1 DEF AuditInv, AuditTypes
<1>4. AuditExclusion'
  BY <1>1, <1>2 DEF AuditInv, AuditExclusion, AuditTypes
<1>5. AuditOrder'
  BY <1>1 DEF AuditInv, AuditOrder, Increasing, AllBelow
<1>6. (1 .. events = ToSet(auditBuffer) \cup ToSet(auditFile) \cup dropped)'
  BY <1>1, <1>2, ToSetEmpty DEF AuditInv
<1> QED
  BY <1>3, <1>4, <1>5, <1>6 DEF AuditInv

\* The list keeps what the file may have got already.
LEMMA WriteRaisesKeeps ==
  ASSUME AuditInv, NEW t \in Loggers, WriteRaises(t)
  PROVE  AuditInv'
<1>1. /\ auditPc[t] = "write" /\ auditPc' = [auditPc EXCEPT ![t] = "idle"]
      /\ WritePart /\ rewritten' = TRUE /\ auditLock' = auditLock \ {t}
      /\ UNCHANGED <<auditBuffer, events, dropped>>
  BY DEF WriteRaises, Step
<1>2. PICK n \in 0 .. Len(auditBuffer) : AppendLines(n)
  BY <1>1 DEF WritePart
<1>3. torn' \in BOOLEAN
  BY <1>1 DEF WritePart, AuditInv, AuditTypes
<1>4. /\ auditLock = {t}
      /\ \A u \in Loggers : auditPc[u] # "clear" /\ (auditPc[u] = "write" => u = t)
  BY <1>1, OnlyWriter
<1>5. /\ auditFile' \in Seq(1 .. events)
      /\ ToSet(auditFile) \subseteq ToSet(auditFile')
      /\ ToSet(auditFile') \subseteq ToSet(auditFile) \cup ToSet(auditBuffer)
  BY <1>1, <1>2, FileGrows
<1>6. AuditTypes'
  BY <1>1, <1>3, <1>5 DEF AuditInv, AuditTypes
<1>7. AuditExclusion'
  BY <1>1, <1>4 DEF AuditInv, AuditExclusion, AuditTypes
<1>8. AuditOrder'
  BY <1>1 DEF AuditInv, AuditOrder, Increasing
<1>9. (1 .. events = ToSet(auditBuffer) \cup ToSet(auditFile) \cup dropped)'
  BY <1>1, <1>5 DEF AuditInv
<1> QED
  BY <1>6, <1>7, <1>8, <1>9 DEF AuditInv

\* The list is gone, and a write may have been cut off.
LEMMA AuditCrashKeeps ==
  ASSUME AuditInv, AuditCrash
  PROVE  AuditInv'
<1>1. /\ dropped' = dropped \cup ToSet(auditBuffer)
      /\ \/ (\E t \in Loggers : auditPc[t] = "write") /\ WritePart
         \/ UNCHANGED <<auditFile, torn>>
      /\ auditBuffer' = <<>> /\ auditLock' = {} /\ auditPc' = [t \in Loggers |-> "idle"]
      /\ UNCHANGED <<events, rewritten>>
  BY DEF AuditCrash
<1>2. /\ auditFile' \in Seq(1 .. events) /\ torn' \in BOOLEAN
      /\ ToSet(auditFile) \subseteq ToSet(auditFile')
      /\ ToSet(auditFile') \subseteq ToSet(auditFile) \cup ToSet(auditBuffer)
      /\ ~rewritten => Increasing(auditFile')
  <2>1. CASE UNCHANGED <<auditFile, torn>>
    BY <2>1 DEF AuditInv, AuditTypes, AuditOrder
  <2>2. CASE (\E t \in Loggers : auditPc[t] = "write") /\ WritePart
    <3>1. PICK t \in Loggers : auditPc[t] = "write"
      BY <2>2
    <3>2. PICK n \in 0 .. Len(auditBuffer) : AppendLines(n)
      BY <2>2 DEF WritePart
    <3>3. torn' \in BOOLEAN
      BY <2>2 DEF WritePart, AuditInv, AuditTypes
    <3> QED
      BY <3>1, <3>2, <3>3, FileGrows
  <2> QED
    BY <1>1, <2>1, <2>2
<1>3. AuditTypes'
  BY <1>1, <1>2 DEF AuditInv, AuditTypes
<1>4. AuditExclusion'
  BY <1>1 DEF AuditInv, AuditExclusion
<1>5. AuditOrder'
  BY <1>1, <1>2 DEF AuditInv, AuditOrder, Increasing, AllBelow
<1>6. (1 .. events = ToSet(auditBuffer) \cup ToSet(auditFile) \cup dropped)'
  BY <1>1, <1>2, ToSetEmpty DEF AuditInv
<1> QED
  BY <1>3, <1>4, <1>5, <1>6 DEF AuditInv

LEMMA AuditInvStep == AuditInv /\ [AuditNext]_auditVars => AuditInv'
<1> SUFFICES ASSUME AuditInv, [AuditNext]_auditVars PROVE AuditInv'
  OBVIOUS
<1>1. CASE UNCHANGED auditVars
  BY <1>1 DEF auditVars, AuditInv, AuditTypes, AuditExclusion, AuditOrder, Increasing, AllBelow
<1>2. CASE AuditCrash
  BY <1>2, AuditCrashKeeps
<1>3. ASSUME NEW t \in Loggers,
             LogEvent(t) \/ NotDue(t) \/ FlushAudit(t) \/ EnterLock(t) \/ WriteAudit(t)
               \/ ClearAudit(t) \/ WriteRaises(t)
      PROVE  AuditInv'
  BY <1>3, LogEventKeeps, PlainAuditSteps, EnterLockKeeps, WriteAuditKeeps, ClearAuditKeeps,
     WriteRaisesKeeps
<1> QED
  BY <1>1, <1>2, <1>3 DEF AuditNext

(***************************************************************************)
(* AuditEventsKept for any number of threads, events, failing writes and   *)
(* crashes.                                                                *)
(***************************************************************************)
THEOREM AuditKeepsEvents == AuditSpec => []AuditEventsKept
<1>1. AuditInv => AuditEventsKept
  BY DEF AuditInv, AuditOrder, Increasing, AuditEventsKept
<1> QED
  BY <1>1, AuditInvInit, AuditInvStep, PTL DEF AuditSpec
=============================================================================
