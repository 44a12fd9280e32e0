------------------------- MODULE RealtimeConnector -------------------------
(***************************************************************************)
(* The connectors that poll a source and remember what they have ingested: *)
(* services/realtime_connector.py.  The set of seen items is shared by the *)
(* threads of one connector and saved to a file after every run.  What the *)
(* source lists, and what the callbacks do, is external.                   *)
(***************************************************************************)
EXTENDS Integers, Sequences, SequencesExt, FiniteSets

CONSTANTS
  Items,          \* texts, by their hash
  Listings,       \* what the source may list: sequences of items
  MaxItemsPerRun, \* max_items_per_run
  SeenCap,        \* how many seen items are saved
  Damaged,        \* a state file that does not load
  MaxLoops,       \* bound: calls of start; each makes a thread
  MaxTries,       \* bound: items handed to embed_fn
  MaxReboots      \* bound: crashes

ASSUME ConnectorAssumption ==
  /\ Listings \subseteq Seq(Items)
  /\ MaxItemsPerRun \in Nat /\ SeenCap \in Nat /\ MaxLoops \in Nat
  /\ MaxTries \in Nat /\ MaxReboots \in Nat /\ \A S \in SUBSET Items : Damaged # S

VARIABLES
  polling,   \* _running
  seen,      \* _seen_items
  stateFile, \* connector_state_<name>.json: a set of items, or Damaged
  loopPc,    \* loopPc[t]: where thread t is
  items,     \* items[t]: what is left of its run
  loops,     \* threads made
  tries,     \* items handed to embed_fn so far
  reboots,   \* crashes
  ingested,  \* ingested[i]: how often item i went to ingest_fn
  unsaved,   \* history: items ingested since the file was last written whole
  forgotten  \* history: items that may rightly be ingested again

connVars == <<polling, seen, stateFile, loopPc, items, loops, tries, reboots, ingested,
              unsaved, forgotten>>

Loops == 1 .. MaxLoops

ConnInit ==
  /\ polling = FALSE /\ seen = {} /\ stateFile = {}
  /\ loopPc = [t \in Loops |-> "off"] /\ items = [t \in Loops |-> <<>>]
  /\ loops = 0 /\ tries = 0 /\ reboots = 0
  /\ ingested = [i \in Items |-> 0] /\ unsaved = {} /\ forgotten = {}

LoopAt(t, pc) == loopPc[t] = pc
Move(t, pc) == loopPc' = [loopPc EXCEPT ![t] = pc]

-----------------------------------------------------------------------------
(* start, stop, _loop *)

StartPolling ==
  /\ ~polling /\ loops < MaxLoops
  /\ polling' = TRUE /\ loops' = loops + 1
  /\ Move(loops + 1, "loop")
  /\ UNCHANGED <<seen, stateFile, items, tries, reboots, ingested, unsaved, forgotten>>

\* join() gives up after ten seconds: the thread may be anywhere.
StopPolling ==
  /\ polling /\ polling' = FALSE
  /\ UNCHANGED <<seen, stateFile, loopPc, items, loops, tries, reboots, ingested, unsaved, forgotten>>

\* A run that cannot collect saves nothing and tries again after the pause.
Collect(t) ==
  /\ LoopAt(t, "loop")
  /\ \/ ~polling /\ Move(t, "off") /\ UNCHANGED items
     \/ polling /\ UNCHANGED <<loopPc, items>>
     \/ /\ polling /\ Move(t, "item")
        /\ \E listing \in Listings :
             items' = [items EXCEPT ![t] = SubSeq(listing, 1, IF Len(listing) < MaxItemsPerRun
                                                               THEN Len(listing) ELSE MaxItemsPerRun)]
  /\ UNCHANGED <<polling, seen, stateFile, loops, tries, reboots, ingested, unsaved, forgotten>>

-----------------------------------------------------------------------------
(* _ingest_item *)

\* Threads that have found an item unseen and not marked it yet.
Working(i) == {t \in Loops : loopPc[t] \in {"embed", "mark"} /\ Head(items[t]) = i}

CheckSeen(t) ==
  /\ LoopAt(t, "item") /\ items[t] # <<>>
  /\ IF Head(items[t]) \in seen
     THEN items' = [items EXCEPT ![t] = Tail(@)] /\ UNCHANGED <<loopPc, tries, forgotten>>
     ELSE /\ tries < MaxTries /\ tries' = tries + 1
          /\ Move(t, "embed")
          /\ forgotten' = IF Working(Head(items[t])) = {} THEN forgotten
                          ELSE forgotten \cup {Head(items[t])}
          /\ UNCHANGED items
  /\ UNCHANGED <<polling, seen, stateFile, loops, reboots, ingested, unsaved>>

\* embed_fn or ingest_fn raises, or there is nothing to embed.
EmbedRaises(t) ==
  /\ LoopAt(t, "embed")
  /\ items' = [items EXCEPT ![t] = Tail(@)]
  /\ Move(t, "item")
  /\ UNCHANGED <<polling, seen, stateFile, loops, tries, reboots, ingested, unsaved, forgotten>>

IngestItem(t) ==
  /\ LoopAt(t, "embed")
  /\ ingested' = [ingested EXCEPT ![Head(items[t])] = @ + 1]
  /\ unsaved' = unsaved \cup {Head(items[t])}
  /\ Move(t, "mark")
  /\ UNCHANGED <<polling, seen, stateFile, items, loops, tries, reboots, forgotten>>

MarkSeen(t) ==
  /\ LoopAt(t, "mark")
  /\ seen' = seen \cup {Head(items[t])}
  /\ items' = [items EXCEPT ![t] = Tail(@)]
  /\ Move(t, "item")
  /\ UNCHANGED <<polling, stateFile, loops, tries, reboots, ingested, unsaved, forgotten>>

-----------------------------------------------------------------------------
(* _save_state, _load_state *)

OpenState(t) ==
  /\ LoopAt(t, "item") /\ items[t] = <<>>
  /\ stateFile' = Damaged
  /\ Move(t, "write")
  /\ UNCHANGED <<polling, seen, items, loops, tries, reboots, ingested, unsaved, forgotten>>

\* Buggy variant: what an earlier save holds is taken to be there still.
WriteUnsaved(t) ==
  /\ LoopAt(t, "write")
  /\ stateFile' = unsaved
  /\ unsaved' = unsaved \ seen
  /\ Move(t, "loop")
  /\ UNCHANGED <<polling, seen, items, loops, tries, reboots, ingested, forgotten>>

\* Of more than SeenCap seen items any SeenCap are written.  Two threads may write over
\* each other.
WriteState(t) ==
  /\ LoopAt(t, "write")
  /\ \/ /\ stateFile' \in {S \in SUBSET seen : Cardinality(S) = SeenCap
                                              \/ (Cardinality(S) < SeenCap /\ S = seen)}
        /\ unsaved' = unsaved \ seen
     \/ loops > 1 /\ stateFile' = Damaged /\ UNCHANGED unsaved
  /\ Move(t, "loop")
  /\ UNCHANGED <<polling, seen, items, loops, tries, reboots, ingested, forgotten>>

\* A new process loads the file; one cut off while it was written counts as empty.
Reboot ==
  /\ reboots < MaxReboots /\ reboots' = reboots + 1
  /\ polling' = FALSE /\ loopPc' = [t \in Loops |-> "off"] /\ items' = [t \in Loops |-> <<>>]
  /\ seen' = IF stateFile = Damaged THEN {} ELSE stateFile
  /\ forgotten' = forgotten \cup (IF stateFile = Damaged \/ Cardinality(seen) > SeenCap
                                  THEN seen \cup unsaved ELSE unsaved)
  /\ unsaved' = {}
  /\ UNCHANGED <<stateFile, loops, tries, ingested>>

ConnNext ==
  \/ StartPolling \/ StopPolling \/ Reboot
  \/ \E t \in Loops :
       Collect(t) \/ CheckSeen(t) \/ EmbedRaises(t) \/ IngestItem(t) \/ MarkSeen(t)
         \/ OpenState(t) \/ WriteState(t)

ConnSpec == ConnInit /\ [][ConnNext]_connVars

-----------------------------------------------------------------------------
(* Properties *)

\* However often the source lists an item, in whatever run and after whatever restart, it
\* is ingested once: unless two threads of one connector met over it, the process died
\* before the item was saved or while the file was written, or more items were seen than
\* are saved.
IngestedOnce == \A i \in Items \ forgotten : ingested[i] <= 1
=============================================================================
