----------------------------- MODULE MCStores -----------------------------
(***************************************************************************)
(* Instances of the parts that keep files of their own: the cache, the     *)
(* snapshots, a polling connector and the audit log.  They share no state, *)
(* so a behaviour follows one of them, chosen at the start.                *)
(***************************************************************************)
EXTENDS MultilevelCache, PitrSnapshots, RealtimeConnector, AuditLog, TLC

VARIABLE focus

storesVars == <<cacheVars, pitrVars, connVars, auditVars, focus>>

(* A source that grows, and one that lists an item twice. *)
MCListings == {<<"i1", "i2">>, <<"i2", "i3", "i1">>, <<"i1", "i1">>}

StoresInit ==
  /\ CacheInit /\ PitrInit /\ ConnInit /\ AuditInit
  /\ focus \in {"cache", "pitr", "connector", "audit"}

StoresNext ==
  \/ focus = "cache" /\ CacheNext /\ UNCHANGED <<pitrVars, connVars, auditVars, focus>>
  \/ focus = "pitr" /\ PitrNext /\ UNCHANGED <<cacheVars, connVars, auditVars, focus>>
  \/ focus = "connector" /\ ConnNext /\ UNCHANGED <<cacheVars, pitrVars, auditVars, focus>>
  \/ focus = "audit" /\ AuditNext /\ UNCHANGED <<cacheVars, pitrVars, connVars, focus>>

StoresSpec == StoresInit /\ [][StoresNext]_storesVars

\* The cache's clients and keys, and the threads that log events, are interchangeable.
StoresSymmetry == Permutations(Keys) \cup Permutations(Clients) \cup Permutations(Loggers)
=============================================================================
