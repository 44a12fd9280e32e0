-------------------------- MODULE StreamingSearch --------------------------
(***************************************************************************)
(* Standing queries: services/streaming_search.py and the event stream of  *)
(* api/routers/streaming_search.py.  Evaluations of new vectors run on     *)
(* threads over a copy of the subscriptions, which come and go meanwhile.  *)
(* Which subscriptions a vector matches is given: the collection and the   *)
(* similarity decide it.  Nothing in the repository calls                  *)
(* evaluate_and_notify yet but its tests; the threads are its callers.     *)
(***************************************************************************)
EXTENDS Integers, Sequences, SequencesExt, FiniteSets

CONSTANTS
  Subscribers,  \* subscriptions made
  Webhooks,     \* those with a callback url; the others are streamed
  Evaluators,   \* threads
  Wanted,       \* Wanted[s]: the vectors that match subscription s
  MaxEvaluated  \* bound: vectors evaluated

ASSUME StreamAssumption ==
  Webhooks \subseteq Subscribers /\ MaxEvaluated \in Nat
  /\ Wanted \in [Subscribers -> SUBSET (1 .. MaxEvaluated)]

VARIABLES
  registered, \* _subscriptions, in order of their registration
  active,     \* active[s]
  subPc,      \* subPc[s]: "new", "open", "closing" (taken off the table) or "closed"
  inbox,      \* inbox[s]: its queue
  streamed,   \* streamed[s]: what its event stream has sent
  evalPc,     \* evalPc[e]: "idle", "next" or "fire"
  evalVector, \* evalVector[e]: the vector thread e evaluates
  todo,       \* todo[e]: the subscriptions it has still to look at
  evaluated,  \* vectors whose evaluation has begun
  finished,   \* history: vectors whose evaluation returned
  audience    \* history: audience[v], subscriptions registered when v's evaluation began

streamVars == <<registered, active, subPc, inbox, streamed, evalPc, evalVector, todo,
                evaluated, finished, audience>>
subVars == <<registered, active, subPc>>

StreamInit ==
  /\ registered = <<>> /\ active = [s \in Subscribers |-> FALSE]
  /\ subPc = [s \in Subscribers |-> "new"]
  /\ inbox = [s \in Subscribers |-> <<>>] /\ streamed = [s \in Subscribers |-> <<>>]
  /\ evalPc = [e \in Evaluators |-> "idle"] /\ evalVector = [e \in Evaluators |-> 0]
  /\ todo = [e \in Evaluators |-> <<>>] /\ evaluated = 0 /\ finished = {}
  /\ audience = [v \in 1 .. MaxEvaluated |-> {}]

-----------------------------------------------------------------------------
(* register, unregister, and the event stream *)

RegisterSub(s) ==
  /\ subPc[s] = "new"
  /\ registered' = Append(registered, s)
  /\ active' = [active EXCEPT ![s] = TRUE]
  /\ subPc' = [subPc EXCEPT ![s] = "open"]
  /\ UNCHANGED <<inbox, streamed, evalPc, evalVector, todo, evaluated, finished, audience>>

\* By the client, or when its stream ends.
Unregister(s) ==
  /\ subPc[s] = "open"
  /\ registered' = RemoveFirst(registered, s)
  /\ subPc' = [subPc EXCEPT ![s] = "closing"]
  /\ UNCHANGED <<active, inbox, streamed, evalPc, evalVector, todo, evaluated, finished, audience>>

CloseSub(s) ==
  /\ subPc[s] = "closing"
  /\ active' = [active EXCEPT ![s] = FALSE]
  /\ subPc' = [subPc EXCEPT ![s] = "closed"]
  /\ UNCHANGED <<registered, inbox, streamed, evalPc, evalVector, todo, evaluated, finished, audience>>

StreamItem(s) ==
  /\ s \notin Webhooks /\ active[s] /\ inbox[s] # <<>>
  /\ streamed' = [streamed EXCEPT ![s] = Append(@, Head(inbox[s]))]
  /\ inbox' = [inbox EXCEPT ![s] = Tail(@)]
  /\ UNCHANGED <<subVars, evalPc, evalVector, todo, evaluated, finished, audience>>

-----------------------------------------------------------------------------
(* evaluate_and_notify *)

BeginEvaluation(e) ==
  /\ evalPc[e] = "idle" /\ evaluated < MaxEvaluated
  /\ evaluated' = evaluated + 1
  /\ evalVector' = [evalVector EXCEPT ![e] = evaluated + 1]
  /\ todo' = [todo EXCEPT ![e] = registered]
  /\ evalPc' = [evalPc EXCEPT ![e] = "next"]
  /\ audience' = [audience EXCEPT ![evaluated + 1] = ToSet(registered)]
  /\ UNCHANGED <<subVars, inbox, streamed, finished>>

\* Buggy variant: a subscription that was closed meanwhile ends the loop.
NotifyUntilClosed(e) ==
  /\ evalPc[e] = "next" /\ todo[e] # <<>>
  /\ LET s == Head(todo[e])
         matches == active[s] /\ evalVector[e] \in Wanted[s]
     IN /\ inbox' = IF matches THEN [inbox EXCEPT ![s] = Append(@, evalVector[e])] ELSE inbox
        /\ todo' = [todo EXCEPT ![e] = IF active[s] THEN Tail(@) ELSE <<>>]
        /\ evalPc' = [evalPc EXCEPT ![e] = IF matches /\ s \in Webhooks THEN "fire" ELSE "next"]
  /\ UNCHANGED <<subVars, streamed, evalVector, evaluated, finished, audience>>

\* One turn of the loop, up to the call of the webhook.
Notify(e) ==
  /\ evalPc[e] = "next" /\ todo[e] # <<>>
  /\ LET s == Head(todo[e])
         matches == active[s] /\ evalVector[e] \in Wanted[s]
     IN /\ inbox' = IF matches THEN [inbox EXCEPT ![s] = Append(@, evalVector[e])] ELSE inbox
        /\ evalPc' = [evalPc EXCEPT ![e] = IF matches /\ s \in Webhooks THEN "fire" ELSE "next"]
  /\ todo' = [todo EXCEPT ![e] = Tail(@)]
  /\ UNCHANGED <<subVars, streamed, evalVector, evaluated, finished, audience>>

\* A URLError is logged; anything else, a timeout while the answer is read for one, leaves
\* evaluate_and_notify, and the rest is never notified.
FireWebhook(e) ==
  /\ evalPc[e] = "fire"
  /\ \E next \in {"next", "idle"} : evalPc' = [evalPc EXCEPT ![e] = next]
  /\ UNCHANGED <<subVars, inbox, streamed, evalVector, todo, evaluated, finished, audience>>

EndEvaluation(e) ==
  /\ evalPc[e] = "next" /\ todo[e] = <<>>
  /\ evalPc' = [evalPc EXCEPT ![e] = "idle"]
  /\ finished' = finished \cup {evalVector[e]}
  /\ UNCHANGED <<subVars, inbox, streamed, evalVector, todo, evaluated, audience>>

StreamNext ==
  \/ \E s \in Subscribers : RegisterSub(s) \/ Unregister(s) \/ CloseSub(s) \/ StreamItem(s)
  \/ \E e \in Evaluators :
       BeginEvaluation(e) \/ Notify(e) \/ FireWebhook(e) \/ EndEvaluation(e)

StreamSpec == StreamInit /\ [][StreamNext]_streamVars

-----------------------------------------------------------------------------
(* Properties *)

\* What a subscription has got: what its stream has sent and what its queue holds.
Got(s) == streamed[s] \o inbox[s]
Copies(s, v) == Cardinality({i \in DOMAIN Got(s) : Got(s)[i] = v})

\* Once a vector's evaluation has returned, every subscription that was there when it began
\* and still is has got the vector exactly once if it matches, whoever else left or failed
\* meanwhile; and nobody ever gets a vector twice or one that does not match.
MatchesReachSubscribers ==
  \A s \in Subscribers, v \in 1 .. MaxEvaluated :
    /\ Copies(s, v) <= (IF v \in Wanted[s] THEN 1 ELSE 0)
    /\ v \in finished /\ s \in audience[v] /\ active[s] /\ v \in Wanted[s] => Copies(s, v) = 1
=============================================================================
