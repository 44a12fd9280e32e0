\* Pool: two requests, three starts, one worker, a queue of two, batches of one or two.
\* Two ingestion requests, batches of two; three queries of two tenants; two evaluations
\* for a streamed subscription and one with a webhook.
SPECIFICATION RequestsSpec
CONSTANTS
  Items = {a, b}
  MinBatch = 1
  MaxBatch = 2
  TargetDepth = 2
  MaxWorkers = 1
  MaxQueueSize = 2
  MaxStarts = 3
  Clients = {c1, c2}
  IngestBatch = 2
  MaxVectors = 3
  Tenants = {t1, t2}
  Callers = {a1, a2}
  Workers = {w1, w2}
  Burst = 1
  Costs = {1}
  MaxQueries = 3
  Subscribers = {s1, s2}
  Webhooks = {s1}
  Evaluators = {e1, e2}
  Wanted <- MCWanted
  MaxEvaluated = 2
INVARIANTS JoinMeansAnswered ItemsInOnePlace MatchesReachSubscribers
PROPERTIES RequestsAnswered IngestQueueDrains QueriesAnswered
\* The bounds on queries and vectors stop a behaviour.
CHECK_DEADLOCK FALSE
