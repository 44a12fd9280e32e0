---------------------------- MODULE MCRequests ----------------------------
(***************************************************************************)
(* Instances of the parts that take work on from callers and do it later:  *)
(* the batch pool, the ingestion queue, the query scheduler and standing   *)
(* queries.  They share no state, so a behaviour follows one of them,      *)
(* chosen at the start.                                                    *)
(***************************************************************************)
EXTENDS AdaptiveBatchPool, BulkIngestion, QueryScheduler, StreamingSearch

VARIABLE focus

requestsVars == <<vars, ingestVars, schedVars, streamVars, focus>>

(* The first vector matches every subscription, the second only the streamed one. *)
MCWanted == [s \in Subscribers |-> IF s \in Webhooks THEN {1} ELSE 1 .. MaxEvaluated]

RequestsInit ==
  /\ Init /\ IngestInit /\ SchedInit /\ StreamInit
  /\ focus \in {"pool", "ingest", "scheduler", "stream"}

RequestsNext ==
  \/ focus = "pool" /\ Next /\ UNCHANGED <<ingestVars, schedVars, streamVars, focus>>
  \/ focus = "ingest" /\ IngestNext /\ UNCHANGED <<vars, schedVars, streamVars, focus>>
  \/ focus = "scheduler" /\ SchedNext /\ UNCHANGED <<vars, ingestVars, streamVars, focus>>
  \/ focus = "stream" /\ StreamNext /\ UNCHANGED <<vars, ingestVars, schedVars, focus>>

\* What the fairness of a component speaks of is not enabled while another is followed.
RequestsSpec ==
  /\ RequestsInit /\ [][RequestsNext]_requestsVars
  /\ Fairness /\ IngestFairness /\ SchedFairness
=============================================================================
