----------------------------- MODULE AnalysisTask -----------------------------
(***************************************************************************)
(* From POST /analyze to a stored analysis: the API                        *)
(* (backend/api/contract_intelligence.py) enqueues a Celery task, a worker *)
(* (backend/tasks.py, backend/celery_app.py) runs ContractIntelligence-    *)
(* Service.analyze_contract_by_id and stores what it found on the contract,*)
(* and the page that asked polls the task.  A batch runs the same service  *)
(* inside the API process, one contract after the other.                   *)
(*                                                                         *)
(* Workers are killed and started again; the broker delivers an            *)
(* unacknowledged message a second time.  The broker and the result        *)
(* backend are Redis under Celery's defaults: no order is assumed for the  *)
(* queue, and a stored SUCCESS is never overwritten.                       *)
(***************************************************************************)
EXTENDS Naturals, FiniteSets, Sequences

CONSTANTS
    Tasks,       \* the analyses that may be asked for
    Contracts,
    ContractOf,  \* the contract each task analyses
    Workers,     \* the worker processes
    NoContent,   \* contracts that do not exist or have no text
    Poison,      \* contracts whose analysis kills the process that runs it
    MaxKills,    \* bound: kills and restarts nothing in the model causes
    Batches,     \* the contract lists a batch may be asked for
    MaxRequests, \* bound: analyses asked for of one contract
    None,        \* no message
    API          \* the API process

ASSUME ContractAssumption == ContractOf \in [Tasks -> Contracts]
ASSUME FiniteAssumption   == IsFiniteSet(Tasks)
ASSUME BatchAssumption    == Batches \subseteq Seq(Contracts)
ASSUME BoundsAssumption   == MaxKills \in Nat /\ MaxRequests \in Nat
ASSUME NamesAssumption    == None \notin Tasks /\ API \notin Workers

VARIABLES
    queue,     \* messages on the broker
    held,      \* worker -> the message it has not acknowledged, or None
    pc,        \* worker, or API for a batch -> where it is
    outcome,   \* what the service is about to return there
    state,     \* task -> state in the result backend
    result,    \* task -> the analysis its SUCCESS carries
    seen,      \* task -> what the page that asked for it has last seen
    record,    \* contract -> intelligence_status
    metrics,   \* contract -> number of PerformanceMetric nodes
    batch,     \* contracts the background task of a batch has yet to analyse
    kills,     \* kills and restarts so far
    requests   \* history: contract -> analyses asked for

service == <<record, metrics>>
client  == <<seen, requests>>
backend == <<state, result>>
vars == <<queue, held, pc, outcome, state, result, seen, record, metrics,
          batch, kills, requests>>

Runners == Workers \cup {API}
Ended   == {"SUCCESS", "FAILURE", "EXPIRED"}

\* An analysis is complete, has gaps, or is the empty one that stands for an
\* exception in the pipeline; "none" is a service that answers None.
Analysis == {"complete", "partial", "raised"}

TypeOK ==
    /\ queue \subseteq Tasks
    /\ held \in [Workers -> Tasks \cup {None}]
    /\ pc \in [Runners -> {"idle", "load", "analyze", "store", "metrics", "return", "ack"}]
    /\ outcome \in [Runners -> Analysis \cup {"none"}]
    /\ state \in [Tasks -> {"PENDING", "STARTED"} \cup Ended]
    /\ result \in [Tasks -> Analysis \cup {"none"}]
    /\ seen \in [Tasks -> {"unasked", "PENDING", "STARTED", "SUCCESS", "FAILURE", "gave up"}]
    /\ record \in [Contracts -> {"null", "completed", "completed_with_errors"}]
    /\ metrics \in [Contracts -> Nat]
    /\ batch \in Seq(Contracts)
    /\ kills \in 0..MaxKills
    /\ requests \in [Contracts -> Nat]

Init ==
    /\ queue = {}
    /\ held = [w \in Workers |-> None]
    /\ pc = [r \in Runners |-> "idle"]
    /\ outcome = [r \in Runners |-> "none"]
    /\ state = [t \in Tasks |-> "PENDING"]
    /\ result = [t \in Tasks |-> "none"]
    /\ seen = [t \in Tasks |-> "unasked"]
    /\ record = [c \in Contracts |-> "null"]
    /\ metrics = [c \in Contracts |-> 0]
    /\ batch = << >>
    /\ kills = 0
    /\ requests = [c \in Contracts |-> 0]

-----------------------------------------------------------------------------
(* The API process and the page                                            *)

\* Nothing in a batch suspends its coroutine, so while one runs the event loop
\* answers no request.
ApiFree == batch = << >>

\* analyze_contract_task.delay, and the 202 that says PENDING.
Enqueue(t) ==
    /\ ApiFree
    /\ seen[t] = "unasked"
    /\ queue' = queue \cup {t}
    /\ seen' = [seen EXCEPT ![t] = "PENDING"]
    /\ requests[ContractOf[t]] < MaxRequests
    /\ requests' = [requests EXCEPT ![ContractOf[t]] = @ + 1]
    /\ UNCHANGED <<held, pc, outcome, backend, service, batch, kills>>

Polling(t) == seen[t] \in {"PENDING", "STARTED"}

\* GET /tasks/{task_id}/status; an id without a result reads PENDING.
Poll(t) ==
    /\ ApiFree
    /\ Polling(t)
    /\ seen' = [seen EXCEPT ![t] = IF state[t] = "EXPIRED" THEN "PENDING" ELSE state[t]]
    /\ UNCHANGED <<queue, held, pc, outcome, backend, service, batch, kills, requests>>

\* pollTaskStatus after five minutes, or on a poll that was not answered.
GiveUp(t) ==
    /\ Polling(t)
    /\ seen' = [seen EXCEPT ![t] = "gave up"]
    /\ UNCHANGED <<queue, held, pc, outcome, backend, service, batch, kills, requests>>

\* batch_analyze_contracts: the background task starts on its first contract.
BatchAnalyze(list) ==
    /\ ApiFree
    /\ list # << >>
    /\ batch' = list
    /\ pc' = [pc EXCEPT ![API] = "load"]
    /\ requests' = [c \in Contracts |->
                      requests[c] + Cardinality({i \in DOMAIN list : list[i] = c})]
    /\ \A c \in Contracts : requests'[c] <= MaxRequests
    /\ UNCHANGED <<queue, held, outcome, backend, seen, service, kills>>

\* The API process goes down and takes the rest of its batch with it.
ApiDown ==
    /\ batch' = << >>
    /\ pc' = [pc EXCEPT ![API] = "idle"]
    /\ outcome' = [outcome EXCEPT ![API] = "none"]
    /\ UNCHANGED <<queue, held, backend, client, service>>

RestartApi ==
    /\ ~ApiFree
    /\ kills < MaxKills
    /\ kills' = kills + 1
    /\ ApiDown

-----------------------------------------------------------------------------
(* ContractIntelligenceService.analyze_contract_by_id, in a worker or in   *)
(* the API's batch                                                         *)

Contract(r) == IF r = API THEN Head(batch) ELSE ContractOf[held[r]]

\* get_contract_by_id answers None also when the database fails.
Load(r) ==
    /\ pc[r] = "load"
    /\ \/ /\ Contract(r) \notin NoContent
          /\ pc' = [pc EXCEPT ![r] = "analyze"]
       \/ pc' = [pc EXCEPT ![r] = "return"]
    /\ outcome' = [outcome EXCEPT ![r] = "none"]
    /\ UNCHANGED <<queue, held, backend, client, service, batch, kills>>

\* analyze_contract_intelligence: any exception becomes the empty analysis.
Analyze(r) ==
    /\ pc[r] = "analyze"
    /\ Contract(r) \notin Poison
    /\ \E a \in Analysis : outcome' = [outcome EXCEPT ![r] = a]
    /\ pc' = [pc EXCEPT ![r] = "store"]
    /\ UNCHANGED <<queue, held, backend, client, service, batch, kills>>

\* _store_intelligence_results: one SET of every field.  When the query raises,
\* the metric is skipped and the exception goes no further.
Store(r) ==
    /\ pc[r] = "store"
    /\ \/ /\ record' = [record EXCEPT ![Contract(r)] =
                          IF outcome[r] = "complete" THEN "completed"
                                                     ELSE "completed_with_errors"]
          /\ pc' = [pc EXCEPT ![r] = "metrics"]
       \/ /\ pc' = [pc EXCEPT ![r] = "return"]
          /\ UNCHANGED record
    /\ UNCHANGED <<queue, held, outcome, backend, client, metrics, batch, kills>>

\* _store_performance_metrics: a CREATE, whose failure is only logged.
StoreMetrics(r) ==
    /\ pc[r] = "metrics"
    /\ \E row \in {0, 1} : metrics' = [metrics EXCEPT ![Contract(r)] = @ + row]
    /\ pc' = [pc EXCEPT ![r] = "return"]
    /\ UNCHANGED <<queue, held, outcome, backend, client, record, batch, kills>>

\* The batch drops what the service returned and goes on to its next contract.
NextInBatch ==
    /\ pc[API] = "return"
    /\ batch' = Tail(batch)
    /\ pc' = [pc EXCEPT ![API] = IF Len(batch) = 1 THEN "idle" ELSE "load"]
    /\ outcome' = [outcome EXCEPT ![API] = "none"]
    /\ UNCHANGED <<queue, held, backend, client, service, kills>>

-----------------------------------------------------------------------------
(* A Celery worker                                                         *)

\* The worker takes a message and reports STARTED (task_track_started).
Deliver(w, t) ==
    /\ pc[w] = "idle"
    /\ t \in queue
    /\ queue' = queue \ {t}
    /\ held' = [held EXCEPT ![w] = t]
    /\ pc' = [pc EXCEPT ![w] = "load"]
    /\ state' = [state EXCEPT ![t] = IF @ = "SUCCESS" THEN @ ELSE "STARTED"]
    /\ UNCHANGED <<outcome, result, client, service, batch, kills>>

\* Mutant of Return: a service that answers None ends the task without a word.
MutantReturn(w) ==
    /\ pc[w] = "return"
    /\ LET t == held[w] IN
         IF state[t] = "SUCCESS" \/ outcome[w] = "none"
         THEN UNCHANGED backend
         ELSE /\ state' = [state EXCEPT ![t] = "SUCCESS"]
              /\ result' = [result EXCEPT ![t] = outcome[w]]
    /\ pc' = [pc EXCEPT ![w] = "ack"]
    /\ UNCHANGED <<queue, held, outcome, client, service, batch, kills>>

\* analyze_contract_task returns, or raises ValueError when the service answers
\* None; the outcome goes to the result backend before the message is acked.
Return(w) ==
    /\ pc[w] = "return"
    /\ LET t == held[w] IN
         IF state[t] = "SUCCESS"
         THEN UNCHANGED backend
         ELSE /\ state' = [state EXCEPT ![t] =
                             IF outcome[w] = "none" THEN "FAILURE" ELSE "SUCCESS"]
              /\ result' = [result EXCEPT ![t] = outcome[w]]
    /\ pc' = [pc EXCEPT ![w] = "ack"]
    /\ UNCHANGED <<queue, held, outcome, client, service, batch, kills>>

\* Mutant of Ack: the message is given back instead.
MutantAck(w) ==
    /\ pc[w] = "ack"
    /\ queue' = queue \cup {held[w]}
    /\ held' = [held EXCEPT ![w] = None]
    /\ pc' = [pc EXCEPT ![w] = "idle"]
    /\ outcome' = [outcome EXCEPT ![w] = "none"]
    /\ UNCHANGED <<backend, client, service, batch, kills>>

Ack(w) ==
    /\ pc[w] = "ack"
    /\ held' = [held EXCEPT ![w] = None]
    /\ pc' = [pc EXCEPT ![w] = "idle"]
    /\ outcome' = [outcome EXCEPT ![w] = "none"]
    /\ UNCHANGED <<queue, backend, client, service, batch, kills>>

\* Mutant of Requeue: the message was acknowledged when it was received
\* (task_acks_late = False), so nothing is left to deliver again.
MutantLost(w) ==
    /\ held' = [held EXCEPT ![w] = None]
    /\ pc' = [pc EXCEPT ![w] = "idle"]
    /\ outcome' = [outcome EXCEPT ![w] = "none"]
    /\ UNCHANGED <<queue, backend, client, service, batch>>

\* Mutant of Requeue: a visibility timeout shorter than an analysis puts the
\* message back while its worker is still busy with it.
MutantTwice(w) ==
    /\ queue' = queue \cup {held[w]}
    /\ UNCHANGED <<held, pc, outcome, backend, client, service, batch>>

\* The process dies before the ack and the message goes back to the queue
\* (task_acks_late, and task_reject_on_worker_lost for a child of the pool).
Requeue(w) ==
    /\ queue' = queue \cup {held[w]}
    /\ held' = [held EXCEPT ![w] = None]
    /\ pc' = [pc EXCEPT ![w] = "idle"]
    /\ outcome' = [outcome EXCEPT ![w] = "none"]
    /\ UNCHANGED <<backend, client, service, batch>>

Kill(w) ==
    /\ pc[w] # "idle"
    /\ kills < MaxKills
    /\ kills' = kills + 1
    /\ Requeue(w)

\* The analysis itself takes the worker down.
Crash(w) ==
    /\ pc[w] = "analyze"
    /\ Contract(w) \in Poison
    /\ Requeue(w)
    /\ UNCHANGED kills

\* Mutant of Expire: results that do not outlive the page's polling.
MutantExpire(t) ==
    /\ state[t] \in {"SUCCESS", "FAILURE"}
    /\ state' = [state EXCEPT ![t] = "EXPIRED"]
    /\ UNCHANGED <<queue, held, pc, outcome, result, client, service, batch, kills>>

\* result_expires: a day after it was stored, long after the page gave up.
Expire(t) ==
    /\ state[t] \in {"SUCCESS", "FAILURE"}
    /\ ~Polling(t)
    /\ state' = [state EXCEPT ![t] = "EXPIRED"]
    /\ UNCHANGED <<queue, held, pc, outcome, result, client, service, batch, kills>>

-----------------------------------------------------------------------------
Run(r) == Load(r) \/ Analyze(r) \/ Store(r) \/ StoreMetrics(r)

Work(w) == Run(w) \/ Return(w) \/ Ack(w) \/ Crash(w) \/ \E t \in Tasks : Deliver(w, t)

\* An analysis that takes its process down takes the API down in a batch.
CrashApi ==
    /\ pc[API] = "analyze"
    /\ Contract(API) \in Poison
    /\ ApiDown
    /\ UNCHANGED kills

RunBatch == ~ApiFree /\ (Run(API) \/ NextInBatch \/ CrashApi)

Next ==
    \/ \E t \in Tasks : Enqueue(t) \/ Poll(t) \/ GiveUp(t) \/ Expire(t)
    \/ \E list \in Batches : BatchAnalyze(list)
    \/ \E w \in Workers : Work(w) \/ Kill(w)
    \/ RunBatch
    \/ RestartApi

Spec == Init /\ [][Next]_vars

\* The worker container restarts (restart: unless-stopped) and works on; the
\* event loop runs its background task.
FairSpec == Spec /\ WF_vars(RunBatch) /\ \A w \in Workers : WF_vars(Work(w))

-----------------------------------------------------------------------------
(* What the module is about                                                *)

\* However often workers are killed, an analysis that was asked for and has no
\* end in the result backend is on the broker or in a worker's hands
\* (task_acks_late).
NoTaskIsLost ==
    \A t \in Tasks :
        \/ seen[t] = "unasked"
        \/ state[t] \in Ended
        \/ t \in queue
        \/ \E w \in Workers : held[w] = t

\* A message is never delivered while a worker still has it: no two processes
\* run one task at a time and store its analysis in turn.
OneWorkerPerTask ==
    /\ \A w \in Workers : held[w] \notin queue
    /\ \A w, v \in Workers : held[w] = held[v] /\ held[w] # None => w = v

\* An inductive strengthening of both: an idle worker holds nothing, a worker
\* acknowledges what has ended, and what was not asked for is nowhere.
DeliveryInv ==
    /\ NoTaskIsLost
    /\ OneWorkerPerTask
    /\ \A w \in Workers : pc[w] = "idle" <=> held[w] = None
    /\ \A w \in Workers : pc[w] = "ack" => state[held[w]] \in Ended
    /\ \A t \in Tasks : seen[t] = "unasked" => t \notin queue /\ \A w \in Workers : held[w] # t

\* Delivery is at least once and an analysis is not idempotent: each run leaves
\* a PerformanceMetric.  There are never more than were asked for and one more
\* for each kill.
ExtraRunsAreKills ==
    \A c \in Contracts : metrics[c] <= requests[c] + kills

\* What a page sees of its task only moves on from PENDING to STARTED to an
\* end, through redeliveries and the expiry of results.
NeverSeenGoingBack ==
    [][\A t \in Tasks : /\ seen[t] = "STARTED" => seen'[t] # "PENDING"
                        /\ seen[t] \in {"SUCCESS", "FAILURE"} => seen'[t] = seen[t]]_vars

\* Every analysis asked for ends in SUCCESS or FAILURE, whatever fails and
\* whoever is killed on the way.
EveryTaskEnds ==
    \A t \in Tasks : (seen[t] # "unasked") ~> (state[t] \in Ended)
=============================================================================
