-------------------------- MODULE AnalysisTaskProofs --------------------------
(***************************************************************************)
(* For any tasks, workers, batches, kills and poisonous contracts: no task *)
(* is lost, no two workers have the same one, repeated work is paid by     *)
(* kills, and a page never sees its task go back.                          *)
(***************************************************************************)
EXTENDS AnalysisTask, FiniteSetTheorems, FunctionTheorems, TLAPS

\* The types the delivery of messages depends on.
Types ==
    /\ queue \subseteq Tasks
    /\ held \in [Workers -> Tasks \cup {None}]
    /\ DOMAIN pc = Runners
    /\ state \in [Tasks -> {"PENDING", "STARTED"} \cup Ended]
    /\ DOMAIN seen = Tasks

IInv == Types /\ DeliveryInv

LEMMA InitInv == Init => IInv
BY NamesAssumption
   DEF Init, IInv, Types, Ended, DeliveryInv, NoTaskIsLost, OneWorkerPerTask, Runners

\* Steps that neither move a message nor change a task's state: the page and
\* the service's own steps, of a worker that is and stays in the middle of one.
LEMMA QuietStep ==
    ASSUME IInv, DOMAIN pc' = Runners, DOMAIN seen' = Tasks,
           UNCHANGED <<queue, held, state>>,
           \A w \in Workers : (pc'[w] = "idle" <=> pc[w] = "idle")
                              /\ (pc'[w] = "ack" => pc[w] = "ack"),
           \A t \in Tasks : seen'[t] = "unasked" <=> seen[t] = "unasked"
    PROVE  IInv'
BY DEF IInv, Types, DeliveryInv, NoTaskIsLost, OneWorkerPerTask

LEMMA PageStep ==
    ASSUME IInv, NEW t \in Tasks, Poll(t) \/ GiveUp(t) PROVE IInv'
<1>1. seen[t] # "unasked" /\ seen'[t] # "unasked"
  BY DEF Poll, GiveUp, Polling, IInv, Types, Ended
<1>2. QED BY <1>1, QuietStep DEF Poll, GiveUp, IInv, Types, backend

LEMMA EnqueueStep ==
    ASSUME IInv, NEW t \in Tasks, Enqueue(t) PROVE IInv'
<1>1. /\ queue' = queue \cup {t} /\ UNCHANGED <<held, pc, state>>
      /\ seen' = [seen EXCEPT ![t] = "PENDING"] /\ seen[t] = "unasked"
  BY DEF Enqueue, backend
<1>2. QED
  BY <1>1, NamesAssumption DEF IInv, Types, DeliveryInv, NoTaskIsLost, OneWorkerPerTask

LEMMA ExpireStep ==
    ASSUME IInv, NEW t \in Tasks, Expire(t) PROVE IInv'
<1>1. /\ UNCHANGED <<queue, held, pc, seen>>
      /\ state' = [state EXCEPT ![t] = "EXPIRED"]
  BY DEF Expire, client
<1>2. QED
  BY <1>1, NamesAssumption
     DEF IInv, Types, DeliveryInv, NoTaskIsLost, OneWorkerPerTask, Ended

\* A step of the service, which a worker takes while it holds a message.
LEMMA RunStep ==
    ASSUME IInv, NEW r \in Runners, Run(r) PROVE IInv'
<1>1. UNCHANGED <<queue, held, state, seen>> /\ DOMAIN pc' = Runners
  BY DEF Run, Load, Analyze, Store, StoreMetrics, backend, client, IInv, Types
<1>2. PICK new \in {"analyze", "store", "metrics", "return"} :
        pc' = [pc EXCEPT ![r] = new]
  BY DEF Run, Load, Analyze, Store, StoreMetrics
<1>3. pc[r] \in {"load", "analyze", "store", "metrics"}
  BY DEF Run, Load, Analyze, Store, StoreMetrics
<1>4. \A w \in Workers : (pc'[w] = "idle" <=> pc[w] = "idle")
                         /\ (pc'[w] = "ack" => pc[w] = "ack")
  BY <1>2, <1>3 DEF IInv, Types, Runners
<1>5. QED BY <1>1, <1>4, QuietStep DEF IInv, Types

\* A step of the API touches no worker.
LEMMA ApiStep ==
    ASSUME IInv, (\E list \in Batches : BatchAnalyze(list)) \/ RunBatch \/ RestartApi
    PROVE  IInv'
<1>1. CASE Run(API)
  BY <1>1, RunStep DEF Runners
<1>2. CASE ~Run(API)
  <2>1. /\ UNCHANGED <<queue, held, state, seen>>
        /\ \E new \in {"load", "idle"} : pc' = [pc EXCEPT ![API] = new]
    BY <1>2 DEF BatchAnalyze, RunBatch, NextInBatch, CrashApi, RestartApi, ApiDown,
                backend, client
  <2>2. DOMAIN pc' = Runners /\ \A w \in Workers : pc'[w] = pc[w]
    BY <2>1, NamesAssumption DEF IInv, Types
  <2>3. QED BY <2>1, <2>2, QuietStep DEF IInv, Types
<1>3. QED BY <1>1, <1>2

LEMMA DeliverStep ==
    ASSUME IInv, NEW w \in Workers, NEW t \in Tasks, Deliver(w, t) PROVE IInv'
<1>1. /\ pc[w] = "idle" /\ t \in queue /\ queue' = queue \ {t}
      /\ held' = [held EXCEPT ![w] = t] /\ pc' = [pc EXCEPT ![w] = "load"]
      /\ UNCHANGED seen
  BY DEF Deliver, client
<1>2. /\ state' \in [Tasks -> {"PENDING", "STARTED"} \cup Ended]
      /\ \A u \in Tasks \ {t} : state'[u] = state[u]
  BY DEF Deliver, IInv, Types, Ended
<1>3. Types'
  BY <1>1, <1>2 DEF IInv, Types
<1>4. /\ held'[w] = t /\ pc'[w] = "load"
      /\ \A v \in Workers \ {w} : held'[v] = held[v] /\ pc'[v] = pc[v] /\ held[v] # t
  BY <1>1 DEF IInv, Types, Runners, DeliveryInv, OneWorkerPerTask
<1>5. NoTaskIsLost'
  <2>1. SUFFICES ASSUME NEW u \in Tasks, u # t, seen[u] # "unasked", state[u] \notin Ended,
                        u \notin queue
                 PROVE  \E v \in Workers : held'[v] = u
    BY <1>1, <1>2, <1>4 DEF NoTaskIsLost
  <2>2. PICK v \in Workers : held[v] = u
    BY <2>1 DEF IInv, DeliveryInv, NoTaskIsLost
  <2>3. held[w] = None
    BY <1>1 DEF IInv, DeliveryInv
  <2>4. QED BY <1>4, <2>2, <2>3, NamesAssumption
<1>6. OneWorkerPerTask'
  BY <1>1, <1>4 DEF IInv, Types, DeliveryInv, OneWorkerPerTask
<1>7. \A v \in Workers : pc'[v] = "idle" <=> held'[v] = None
  BY <1>4, NamesAssumption DEF IInv, DeliveryInv
<1>8. \A v \in Workers : pc'[v] = "ack" => state'[held'[v]] \in Ended
  BY <1>2, <1>4 DEF IInv, Types, DeliveryInv
<1>9. \A u \in Tasks : seen'[u] = "unasked" => u \notin queue' /\ \A v \in Workers : held'[v] # u
  BY <1>1, <1>4 DEF IInv, DeliveryInv
<1>10. QED BY <1>3, <1>5, <1>6, <1>7, <1>8, <1>9 DEF IInv, DeliveryInv

LEMMA ReturnStep ==
    ASSUME IInv, NEW w \in Workers, Return(w) PROVE IInv'
<1>1. /\ pc[w] = "return" /\ pc' = [pc EXCEPT ![w] = "ack"]
      /\ UNCHANGED <<queue, held, seen>>
  BY DEF Return, client
<1>2. held[w] \in Tasks
  BY <1>1 DEF IInv, Types, DeliveryInv
<1>3. /\ state' \in [Tasks -> {"PENDING", "STARTED"} \cup Ended]
      /\ state'[held[w]] \in Ended
      /\ \A u \in Tasks \ {held[w]} : state'[u] = state[u]
  BY <1>2 DEF Return, IInv, Types, Ended, backend
<1>4. pc'[w] = "ack" /\ \A v \in Workers \ {w} : pc'[v] = pc[v] /\ held[v] # held[w]
  BY <1>1, <1>2, NamesAssumption DEF IInv, Types, Runners, DeliveryInv, OneWorkerPerTask
<1>5. \A v \in Workers : pc'[v] = "ack" => state'[held'[v]] \in Ended
  <2>1. SUFFICES ASSUME NEW v \in Workers, v # w, pc'[v] = "ack"
                 PROVE  state'[held[v]] \in Ended
    BY <1>1, <1>3
  <2>2. state[held[v]] \in Ended /\ held[v] # None
    BY <1>4, <2>1 DEF IInv, DeliveryInv
  <2>3. QED BY <1>3, <1>4, <2>1, <2>2 DEF IInv, Types
<1>6. NoTaskIsLost'
  BY <1>1, <1>3 DEF IInv, DeliveryInv, NoTaskIsLost
<1>7. QED
  BY <1>1, <1>3, <1>4, <1>5, <1>6 DEF IInv, Types, DeliveryInv, OneWorkerPerTask

LEMMA AckStep ==
    ASSUME IInv, NEW w \in Workers, Ack(w) PROVE IInv'
<1>1. /\ pc[w] = "ack" /\ held' = [held EXCEPT ![w] = None]
      /\ pc' = [pc EXCEPT ![w] = "idle"] /\ UNCHANGED <<queue, state, seen>>
  BY DEF Ack, backend, client
<1>2. /\ held'[w] = None /\ pc'[w] = "idle"
      /\ \A v \in Workers \ {w} : held'[v] = held[v] /\ pc'[v] = pc[v]
  BY <1>1 DEF IInv, Types, Runners
<1>3. state[held[w]] \in Ended
  BY <1>1 DEF IInv, DeliveryInv
<1>4. NoTaskIsLost'
  BY <1>1, <1>2, <1>3 DEF IInv, DeliveryInv, NoTaskIsLost
<1>5. OneWorkerPerTask'
  BY <1>1, <1>2, NamesAssumption DEF IInv, Types, DeliveryInv, OneWorkerPerTask
<1>6. QED
  BY <1>1, <1>2, <1>4, <1>5, NamesAssumption DEF IInv, Types, DeliveryInv

LEMMA RequeueStep ==
    ASSUME IInv, NEW w \in Workers, pc[w] # "idle", Requeue(w) PROVE IInv'
<1>1. /\ queue' = queue \cup {held[w]} /\ held' = [held EXCEPT ![w] = None]
      /\ pc' = [pc EXCEPT ![w] = "idle"] /\ UNCHANGED <<state, seen>>
  BY DEF Requeue, backend, client
<1>2. held[w] \in Tasks
  BY DEF IInv, Types, DeliveryInv
<1>3. /\ held'[w] = None /\ pc'[w] = "idle"
      /\ \A v \in Workers \ {w} : held'[v] = held[v] /\ pc'[v] = pc[v] /\ held[v] # held[w]
  BY <1>1, <1>2, NamesAssumption DEF IInv, Types, Runners, DeliveryInv, OneWorkerPerTask
<1>4. Types'
  BY <1>1, <1>2 DEF IInv, Types
<1>5. NoTaskIsLost'
  BY <1>1, <1>3 DEF IInv, DeliveryInv, NoTaskIsLost
<1>6. OneWorkerPerTask'
  BY <1>1, <1>2, <1>3, NamesAssumption DEF IInv, Types, DeliveryInv, OneWorkerPerTask
<1>7. \A u \in Tasks : seen'[u] = "unasked" => u \notin queue' /\ \A v \in Workers : held'[v] # u
  BY <1>1, <1>3, NamesAssumption DEF IInv, DeliveryInv
<1>8. \A v \in Workers : /\ pc'[v] = "idle" <=> held'[v] = None
                         /\ pc'[v] = "ack" => state'[held'[v]] \in Ended
  BY <1>1, <1>3 DEF IInv, DeliveryInv
<1>9. QED BY <1>4, <1>5, <1>6, <1>7, <1>8 DEF IInv, DeliveryInv

LEMMA NextStep == IInv /\ [Next]_vars => IInv'
<1> SUFFICES ASSUME IInv, [Next]_vars PROVE IInv'
  OBVIOUS
<1>1. CASE \E t \in Tasks : Enqueue(t) \/ Poll(t) \/ GiveUp(t) \/ Expire(t)
  BY <1>1, EnqueueStep, PageStep, ExpireStep
<1>2. CASE (\E list \in Batches : BatchAnalyze(list)) \/ RunBatch \/ RestartApi
  BY <1>2, ApiStep
<1>3. CASE \E w \in Workers : Work(w) \/ Kill(w)
  <2>1. PICK w \in Workers : Work(w) \/ Kill(w)
    BY <1>3
  <2>2. CASE Run(w)
    BY <2>2, RunStep DEF Runners
  <2>3. CASE Return(w)
    BY <2>3, ReturnStep
  <2>4. CASE Ack(w)
    BY <2>4, AckStep
  <2>5. CASE Crash(w) \/ Kill(w)
    BY <2>5, RequeueStep DEF Crash, Kill
  <2>6. CASE \E t \in Tasks : Deliver(w, t)
    BY <2>6, DeliverStep
  <2>7. QED BY <2>1, <2>2, <2>3, <2>4, <2>5, <2>6 DEF Work
<1>4. CASE UNCHANGED vars
  BY <1>4, QuietStep DEF vars, IInv, Types
<1>5. QED BY <1>1, <1>2, <1>3, <1>4 DEF Next

\* Whatever is killed and however often, an analysis that was asked for has
\* ended, waits on the broker or is in a worker's hands (task_acks_late).
THEOREM NoTaskIsEverLost == Spec => []NoTaskIsLost
<1>1. IInv => NoTaskIsLost
  BY DEF IInv, DeliveryInv
<1>2. QED BY InitInv, NextStep, <1>1, PTL DEF Spec

\* No message is on the broker and with a worker, or with two workers.
THEOREM OneWorkerPerTaskAlways == Spec => []OneWorkerPerTask
<1>1. IInv => OneWorkerPerTask
  BY DEF IInv, DeliveryInv
<1>2. QED BY InitInv, NextStep, <1>1, PTL DEF Spec

-----------------------------------------------------------------------------
\* A page that has seen its task STARTED finds it started or ended: its result
\* does not expire while the page polls, and a redelivery leaves it STARTED.
SeenInv ==
    /\ state \in [Tasks -> {"PENDING", "STARTED"} \cup Ended]
    /\ DOMAIN seen = Tasks
    /\ \A t \in Tasks : seen[t] = "STARTED" => state[t] \in {"STARTED", "SUCCESS", "FAILURE"}

SeenStep ==
    \A t \in Tasks : /\ seen[t] = "STARTED" => seen'[t] # "PENDING"
                     /\ seen[t] \in {"SUCCESS", "FAILURE"} => seen'[t] = seen[t]

\* The page never sees a finished task unfinished, nor a started one pending,
\* through kills, redeliveries and the expiry of results.
THEOREM SeenNeverGoesBack == Spec => NeverSeenGoingBack
<1>1. Init => SeenInv
  BY DEF Init, SeenInv
<1>2. SeenInv /\ IInv /\ [Next]_vars => SeenInv' /\ (SeenStep \/ UNCHANGED vars)
  <2> SUFFICES ASSUME SeenInv, IInv, [Next]_vars
               PROVE  SeenInv' /\ (SeenStep \/ UNCHANGED vars)
    OBVIOUS
  <2> USE DEF SeenInv, SeenStep, Ended
  <2>1. ASSUME NEW t \in Tasks, Enqueue(t) \/ Poll(t) \/ GiveUp(t)
        PROVE  SeenInv' /\ SeenStep
    <3>1. state' = state
      BY <2>1 DEF Enqueue, Poll, GiveUp, backend
    <3>2. CASE Enqueue(t)
      BY <3>1, <3>2 DEF Enqueue
    <3>3. CASE Poll(t)
      BY <3>1, <3>3 DEF Poll, Polling
    <3>4. CASE GiveUp(t)
      BY <3>1, <3>4 DEF GiveUp, Polling
    <3> QED
      BY <2>1, <3>2, <3>3, <3>4
  <2>2. ASSUME seen' = seen, UNCHANGED state PROVE SeenInv' /\ SeenStep
    BY <2>2
  <2>3. ASSUME NEW t \in Tasks, Expire(t) PROVE SeenInv' /\ SeenStep
    BY <2>3 DEF Expire, Polling, client
  <2>4. ASSUME (\E list \in Batches : BatchAnalyze(list)) \/ RunBatch \/ RestartApi
        PROVE  SeenInv' /\ SeenStep
    BY <2>4, <2>2
       DEF BatchAnalyze, RunBatch, RestartApi, ApiDown, Run, Load, Analyze, Store,
           StoreMetrics, NextInBatch, CrashApi, client, backend
  <2>5. ASSUME NEW w \in Workers, Run(w) \/ Ack(w) \/ Crash(w) \/ Kill(w)
        PROVE  SeenInv' /\ SeenStep
    BY <2>5, <2>2
       DEF Run, Load, Analyze, Store, StoreMetrics, Ack, Crash, Kill, Requeue,
           client, backend
  <2>6. ASSUME NEW w \in Workers, Return(w) PROVE SeenInv' /\ SeenStep
    <3>1. held[w] \in Tasks
      BY <2>6 DEF Return, IInv, Types, DeliveryInv
    <3>2. seen' = seen /\ \/ state' = state
                          \/ state' = [state EXCEPT ![held[w]] = "FAILURE"]
                          \/ state' = [state EXCEPT ![held[w]] = "SUCCESS"]
      BY <2>6 DEF Return, client, backend
    <3> QED
      BY <3>1, <3>2
  <2>7. ASSUME NEW w \in Workers, NEW t \in Tasks, Deliver(w, t)
        PROVE  SeenInv' /\ SeenStep
    <3>1. seen' = seen /\ \/ state' = [state EXCEPT ![t] = "STARTED"]
                          \/ state[t] = "SUCCESS" /\ state' = [state EXCEPT ![t] = "SUCCESS"]
      BY <2>7 DEF Deliver, client
    <3> QED
      BY <3>1
  <2>8. CASE UNCHANGED vars
    BY <2>8 DEF vars
  <2> QED
    BY <2>1, <2>3, <2>4, <2>5, <2>6, <2>7, <2>8 DEF Next, Work
<1>3. SeenStep => (\A t \in Tasks : /\ seen[t] = "STARTED" => seen'[t] # "PENDING"
                                    /\ seen[t] \in {"SUCCESS", "FAILURE"} => seen'[t] = seen[t])
  BY DEF SeenStep
<1> QED
  BY <1>1, <1>2, <1>3, InitInv, NextStep, PTL DEF Spec, NeverSeenGoingBack

-----------------------------------------------------------------------------
(* Metrics are counted against what was asked for and the kills            *)

Measuring == {"load", "analyze", "store", "metrics"}

\* The tasks of a contract that may still leave a metric without another kill,
\* and the places of the contract in what is left of the batch.
Owed(c) ==
    {t \in Tasks : /\ ContractOf[t] = c
                   /\ \/ t \in queue
                      \/ \E w \in Workers : held[w] = t /\ pc[w] \in Measuring}
Left(c) ==
    {i \in 1..Len(batch) : batch[i] = c /\ (i = 1 => pc[API] \in Measuring)}

CountTypes ==
    /\ metrics \in [Contracts -> Nat]
    /\ requests \in [Contracts -> Nat]
    /\ kills \in Nat
    /\ batch \in Seq(Contracts)

\* Each metric there is or may still come was asked for or is due to a kill.
CountInv ==
    /\ CountTypes
    /\ \A c \in Contracts :
         Cardinality(Owed(c)) + Cardinality(Left(c)) + metrics[c] <= requests[c] + kills

\* How sets compare in size when one has at most one element more, and when it
\* lacks one.
LEMMA Sizes ==
    ASSUME NEW S, NEW T, NEW x, IsFiniteSet(S)
    PROVE  /\ Cardinality(S) \in Nat
           /\ T \subseteq S => Cardinality(T) \in Nat /\ Cardinality(T) <= Cardinality(S)
           /\ T \subseteq S \cup {x} =>
                Cardinality(T) \in Nat /\ Cardinality(T) <= Cardinality(S) + 1
           /\ (x \in S /\ T \subseteq S \ {x}) =>
                Cardinality(T) \in Nat /\ Cardinality(T) + 1 <= Cardinality(S)
<1>1. Cardinality(S) \in Nat
  BY FS_CardinalityType
<1>2. ASSUME T \subseteq S PROVE Cardinality(T) \in Nat /\ Cardinality(T) <= Cardinality(S)
  BY <1>2, FS_Subset, FS_CardinalityType
<1>3. ASSUME T \subseteq S \cup {x}
      PROVE  Cardinality(T) \in Nat /\ Cardinality(T) <= Cardinality(S) + 1
  <2>1. IsFiniteSet(S \cup {x}) /\ Cardinality(S \cup {x}) <= Cardinality(S) + 1
    BY <1>1, FS_AddElement
  <2>2. Cardinality(S \cup {x}) \in Nat
    BY <2>1, FS_CardinalityType
  <2>3. IsFiniteSet(T) /\ Cardinality(T) <= Cardinality(S \cup {x})
    BY <1>3, <2>1, FS_Subset
  <2>4. Cardinality(T) \in Nat
    BY <2>3, FS_CardinalityType
  <2> QED
    BY <1>1, <2>1, <2>2, <2>3, <2>4
<1>4. ASSUME x \in S, T \subseteq S \ {x}
      PROVE  Cardinality(T) \in Nat /\ Cardinality(T) + 1 <= Cardinality(S)
  <2>1. IsFiniteSet(S \ {x}) /\ Cardinality(S \ {x}) = Cardinality(S) - 1
    BY <1>4, FS_RemoveElement
  <2>2. IsFiniteSet(T) /\ Cardinality(T) <= Cardinality(S \ {x})
    BY <1>4, <2>1, FS_Subset
  <2>3. Cardinality(T) \in Nat
    BY <2>2, FS_CardinalityType
  <2> QED
    BY <1>1, <2>1, <2>2, <2>3
<1> QED
  BY <1>1, <1>2, <1>3, <1>4

LEMMA FiniteCounts ==
    ASSUME CountTypes, NEW c \in Contracts
    PROVE  IsFiniteSet(Owed(c)) /\ IsFiniteSet(Left(c))
<1>1. Owed(c) \in SUBSET Tasks
  BY DEF Owed
<1>2. Len(batch) \in Nat
  BY DEF CountTypes
<1>3. IsFiniteSet(1..Len(batch)) /\ Left(c) \in SUBSET (1..Len(batch))
  BY <1>2, FS_Interval DEF Left
<1> QED
  BY <1>1, <1>3, FiniteAssumption, FS_Subset

\* A step that owes no metric more and writes none.
LEMMA OwesNoMore ==
    ASSUME CountInv, CountTypes', UNCHANGED <<metrics, requests>>, kills <= kills',
           \A c \in Contracts : Owed(c)' \subseteq Owed(c) /\ Left(c)' \subseteq Left(c)
    PROVE  CountInv'
<1> SUFFICES ASSUME NEW c \in Contracts
             PROVE  Cardinality(Owed(c)') + Cardinality(Left(c)') + metrics'[c]
                      <= requests'[c] + kills'
  BY DEF CountInv
<1>1. IsFiniteSet(Owed(c)) /\ IsFiniteSet(Left(c))
  BY FiniteCounts DEF CountInv
<1>2. /\ Cardinality(Owed(c)) \in Nat /\ Cardinality(Owed(c)') \in Nat
      /\ Cardinality(Owed(c)') <= Cardinality(Owed(c))
  BY <1>1, Sizes
<1>3. /\ Cardinality(Left(c)) \in Nat /\ Cardinality(Left(c)') \in Nat
      /\ Cardinality(Left(c)') <= Cardinality(Left(c))
  BY <1>1, Sizes
<1>4. Cardinality(Owed(c)) + Cardinality(Left(c)) + metrics[c] <= requests[c] + kills
  BY DEF CountInv
<1> QED
  BY <1>2, <1>3, <1>4 DEF CountInv, CountTypes

LEMMA EnqueueCounts ==
    ASSUME IInv, CountInv, NEW t \in Tasks, Enqueue(t) PROVE CountInv'
<1> DEFINE k == ContractOf[t]
<1>1. /\ queue' = queue \cup {t} /\ UNCHANGED <<held, pc, metrics, batch, kills>>
      /\ requests' = [requests EXCEPT ![k] = @ + 1]
  BY DEF Enqueue, service
<1>2. k \in Contracts
  BY ContractAssumption
<1>3. CountTypes'
  BY <1>1, <1>2 DEF CountInv, CountTypes
<1> SUFFICES ASSUME NEW c \in Contracts
             PROVE  Cardinality(Owed(c)') + Cardinality(Left(c)') + metrics'[c]
                      <= requests'[c] + kills'
  BY <1>3 DEF CountInv
<1>4. Left(c)' = Left(c)
  BY <1>1 DEF Left
<1>5. Owed(c)' \subseteq Owed(c) \cup {t} /\ (c # k => Owed(c)' \subseteq Owed(c))
  BY <1>1 DEF Owed
<1>6. IsFiniteSet(Owed(c)) /\ IsFiniteSet(Left(c))
  BY FiniteCounts DEF CountInv
<1>7. /\ Cardinality(Left(c)) \in Nat /\ Cardinality(Owed(c)) \in Nat
      /\ Cardinality(Owed(c)') \in Nat
      /\ Cardinality(Owed(c)') <= Cardinality(Owed(c)) + 1
      /\ c # k => Cardinality(Owed(c)') <= Cardinality(Owed(c))
  BY <1>5, <1>6, Sizes
<1>8. Cardinality(Owed(c)) + Cardinality(Left(c)) + metrics[c] <= requests[c] + kills
  BY DEF CountInv
<1>9. requests'[c] = IF c = k THEN requests[c] + 1 ELSE requests[c]
  BY <1>1 DEF CountInv, CountTypes
<1> HIDE DEF k
<1> QED
  BY <1>1, <1>4, <1>7, <1>8, <1>9 DEF CountInv, CountTypes

LEMMA BatchCounts ==
    ASSUME IInv, CountInv, NEW list \in Batches, BatchAnalyze(list) PROVE CountInv'
<1>1. /\ batch = << >> /\ batch' = list /\ UNCHANGED <<queue, held, metrics, kills>>
      /\ pc' = [pc EXCEPT ![API] = "load"]
      /\ requests' = [c \in Contracts |->
                        requests[c] + Cardinality({i \in DOMAIN list : list[i] = c})]
  BY DEF BatchAnalyze, ApiFree, service
<1>2. list \in Seq(Contracts)
  BY BatchAssumption
<1>3. \A c \in Contracts : IsFiniteSet({i \in DOMAIN list : list[i] = c})
  <2> SUFFICES ASSUME NEW c \in Contracts PROVE IsFiniteSet({i \in DOMAIN list : list[i] = c})
    OBVIOUS
  <2>1. Len(list) \in Nat /\ DOMAIN list = 1..Len(list)
    BY <1>2
  <2>2. IsFiniteSet(DOMAIN list)
    BY <2>1, FS_Interval
  <2> QED
    BY <2>2, FS_Subset
<1>4. \A c \in Contracts : Cardinality({i \in DOMAIN list : list[i] = c}) \in Nat
  BY <1>3, FS_CardinalityType
<1>5. CountTypes'
  <2> DEFINE Asked(c) == Cardinality({i \in DOMAIN list : list[i] = c})
  <2>1. requests' = [c \in Contracts |-> requests[c] + Asked(c)]
    BY <1>1
  <2>2. \A c \in Contracts : Asked(c) \in Nat
    BY <1>4
  <2> HIDE DEF Asked
  <2>3. requests' \in [Contracts -> Nat]
    BY <2>1, <2>2 DEF CountInv, CountTypes
  <2> QED
    BY <1>1, <1>2, <2>3 DEF CountInv, CountTypes
<1> SUFFICES ASSUME NEW c \in Contracts
             PROVE  Cardinality(Owed(c)') + Cardinality(Left(c)') + metrics'[c]
                      <= requests'[c] + kills'
  BY <1>5 DEF CountInv
<1> DEFINE New == {i \in DOMAIN list : list[i] = c}
<1>6. Owed(c)' \subseteq Owed(c)
  BY <1>1, NamesAssumption DEF Owed, IInv, Types
<1>7. Left(c)' \subseteq New
  BY <1>1, <1>2 DEF Left
<1>8. IsFiniteSet(Owed(c)) /\ IsFiniteSet(Left(c)) /\ IsFiniteSet(New)
  BY FiniteCounts, <1>3 DEF CountInv
<1> HIDE DEF New
<1>9. /\ Cardinality(Owed(c)) \in Nat /\ Cardinality(Owed(c)') \in Nat
      /\ Cardinality(Owed(c)') <= Cardinality(Owed(c))
  BY <1>6, <1>8, Sizes
<1>10. /\ Cardinality(New) \in Nat /\ Cardinality(Left(c)') \in Nat
       /\ Cardinality(Left(c)') <= Cardinality(New)
  BY <1>7, <1>8, Sizes
<1>11. Cardinality(Left(c)) \in Nat
  BY <1>8, Sizes
<1>12. Cardinality(Owed(c)) + Cardinality(Left(c)) + metrics[c] <= requests[c] + kills
  BY DEF CountInv
<1>13. requests'[c] = requests[c] + Cardinality(New)
  BY <1>1 DEF New
<1> QED
  BY <1>1, <1>9, <1>10, <1>11, <1>12, <1>13 DEF CountInv, CountTypes

\* The metric of a run that is under way is the one it owed.
LEMMA MetricsCounts ==
    ASSUME IInv, CountInv, NEW r \in Runners, StoreMetrics(r), r = API => ~ApiFree
    PROVE  CountInv'
<1> DEFINE k == Contract(r)
<1>1. /\ pc[r] = "metrics" /\ pc' = [pc EXCEPT ![r] = "return"]
      /\ UNCHANGED <<queue, held, requests, batch, kills>>
      /\ \E row \in {0, 1} : metrics' = [metrics EXCEPT ![k] = @ + row]
  BY DEF StoreMetrics, client
<1>2. CASE r = API
  <2>1. k = batch[1] /\ k \in Contracts /\ 1 \in 1..Len(batch)
    BY <1>2 DEF Contract, ApiFree, CountInv, CountTypes
  <2>2. CountTypes'
    BY <1>1, <2>1 DEF CountInv, CountTypes
  <2> SUFFICES ASSUME NEW c \in Contracts
               PROVE  Cardinality(Owed(c)') + Cardinality(Left(c)') + metrics'[c]
                        <= requests'[c] + kills'
    BY <2>2 DEF CountInv
  <2>3. Owed(c)' \subseteq Owed(c)
    BY <1>1, <1>2, NamesAssumption DEF Owed, IInv, Types
  <2>4. Left(c)' \subseteq Left(c) \ {1} /\ (c = k => 1 \in Left(c))
    BY <1>1, <1>2, <2>1 DEF Left, Measuring, IInv, Types
  <2>5. IsFiniteSet(Owed(c)) /\ IsFiniteSet(Left(c))
    BY FiniteCounts DEF CountInv
  <2>6. /\ Cardinality(Owed(c)) \in Nat /\ Cardinality(Owed(c)') \in Nat
        /\ Cardinality(Owed(c)') <= Cardinality(Owed(c))
    BY <2>3, <2>5, Sizes
  <2>7. /\ Cardinality(Left(c)) \in Nat /\ Cardinality(Left(c)') \in Nat
        /\ Cardinality(Left(c)') <= Cardinality(Left(c))
        /\ c = k => Cardinality(Left(c)') + 1 <= Cardinality(Left(c))
    BY <2>4, <2>5, Sizes
  <2>8. Cardinality(Owed(c)) + Cardinality(Left(c)) + metrics[c] <= requests[c] + kills
    BY DEF CountInv
  <2>9. metrics'[c] <= metrics[c] + 1 /\ (c # k => metrics'[c] = metrics[c])
    BY <1>1 DEF CountInv, CountTypes
  <2>10. /\ requests'[c] = requests[c] /\ kills' = kills
         /\ metrics[c] \in Nat /\ metrics'[c] \in Nat /\ requests[c] \in Nat /\ kills \in Nat
    BY <1>1, <2>2 DEF CountInv, CountTypes
  <2> HIDE DEF k
  <2> QED
    BY <2>6, <2>7, <2>8, <2>9, <2>10
<1>3. CASE r # API
  <2>1. r \in Workers /\ held[r] \in Tasks /\ k = ContractOf[held[r]]
    BY <1>1, <1>3 DEF Runners, Contract, IInv, Types, DeliveryInv
  <2>2. k \in Contracts
    BY <2>1, ContractAssumption
  <2>3. CountTypes'
    BY <1>1, <2>2 DEF CountInv, CountTypes
  <2> SUFFICES ASSUME NEW c \in Contracts
               PROVE  Cardinality(Owed(c)') + Cardinality(Left(c)') + metrics'[c]
                        <= requests'[c] + kills'
    BY <2>3 DEF CountInv
  <2>4. Left(c)' \subseteq Left(c)
    BY <1>1, <1>3 DEF Left, IInv, Types
  <2>5. Owed(c)' \subseteq Owed(c) /\ (c = k => held[r] \in Owed(c) /\ held[r] \notin Owed(c)')
    <3>1. held[r] \notin queue /\ \A v \in Workers : held[v] = held[r] => v = r
      BY <2>1, NamesAssumption DEF IInv, DeliveryInv, OneWorkerPerTask
    <3>2. pc'[r] = "return" /\ \A v \in Workers \ {r} : pc'[v] = pc[v]
      BY <1>1, <2>1 DEF IInv, Types, Runners
    <3> QED
      BY <1>1, <2>1, <3>1, <3>2 DEF Owed, Measuring
  <2>6. IsFiniteSet(Owed(c)) /\ IsFiniteSet(Left(c))
    BY FiniteCounts DEF CountInv
  <2>7. /\ Cardinality(Left(c)) \in Nat /\ Cardinality(Left(c)') \in Nat
        /\ Cardinality(Left(c)') <= Cardinality(Left(c))
    BY <2>4, <2>6, Sizes
  <2>8. /\ Cardinality(Owed(c)) \in Nat /\ Cardinality(Owed(c)') \in Nat
        /\ Cardinality(Owed(c)') <= Cardinality(Owed(c))
        /\ c = k => Cardinality(Owed(c)') + 1 <= Cardinality(Owed(c))
    BY <2>5, <2>6, Sizes
  <2>9. Cardinality(Owed(c)) + Cardinality(Left(c)) + metrics[c] <= requests[c] + kills
    BY DEF CountInv
  <2>10. metrics'[c] <= metrics[c] + 1 /\ (c # k => metrics'[c] = metrics[c])
    BY <1>1 DEF CountInv, CountTypes
  <2>11. /\ requests'[c] = requests[c] /\ kills' = kills
         /\ metrics[c] \in Nat /\ metrics'[c] \in Nat /\ requests[c] \in Nat /\ kills \in Nat
    BY <1>1, <2>3 DEF CountInv, CountTypes
  <2> HIDE DEF k
  <2> QED
    BY <2>7, <2>8, <2>9, <2>10, <2>11
<1> QED
  BY <1>2, <1>3

\* The other steps of the service.
LEMMA RunCounts ==
    ASSUME IInv, CountInv, NEW r \in Runners, Load(r) \/ Analyze(r) \/ Store(r) PROVE CountInv'
<1>1. /\ UNCHANGED <<queue, held, metrics, requests, batch, kills>>
      /\ pc[r] \in Measuring
      /\ \E new \in {"analyze", "store", "metrics", "return"} : pc' = [pc EXCEPT ![r] = new]
  BY DEF Load, Analyze, Store, Measuring, service, client
<1>2. \A v \in Runners : pc'[v] \in Measuring => pc[v] \in Measuring
  BY <1>1 DEF IInv, Types
<1>3. \A c \in Contracts : Owed(c)' \subseteq Owed(c) /\ Left(c)' \subseteq Left(c)
  BY <1>1, <1>2 DEF Owed, Left, Runners
<1>4. CountTypes' /\ kills <= kills'
  BY <1>1 DEF CountInv, CountTypes
<1> QED
  BY <1>1, <1>3, <1>4, OwesNoMore

\* The batch goes on: what is left of it moves one place up.
LEMMA NextInBatchCounts ==
    ASSUME IInv, CountInv, NextInBatch, ~ApiFree PROVE CountInv'
<1>1. /\ batch # << >> /\ batch' = Tail(batch) /\ pc[API] = "return"
      /\ UNCHANGED <<queue, held, metrics, requests, kills>>
      /\ \E new \in {"idle", "load"} : pc' = [pc EXCEPT ![API] = new]
  BY DEF NextInBatch, ApiFree, service, client
<1>2. batch \in Seq(Contracts)
  BY DEF CountInv, CountTypes
<1>3. /\ batch' \in Seq(Contracts) /\ Len(batch') = Len(batch) - 1
      /\ \A i \in 1..Len(batch') : batch'[i] = batch[i + 1]
  BY <1>1, <1>2
<1>4. CountTypes'
  BY <1>1, <1>3 DEF CountInv, CountTypes
<1> SUFFICES ASSUME NEW c \in Contracts
             PROVE  Cardinality(Owed(c)') + Cardinality(Left(c)') + metrics'[c]
                      <= requests'[c] + kills'
  BY <1>4 DEF CountInv
<1>5. Owed(c)' \subseteq Owed(c)
  BY <1>1, NamesAssumption DEF Owed, IInv, Types
<1>6. IsFiniteSet(Owed(c)) /\ IsFiniteSet(Left(c))
  BY FiniteCounts DEF CountInv
<1>7. Cardinality(Left(c)') \in Nat /\ Cardinality(Left(c)') <= Cardinality(Left(c))
  <2> DEFINE f == [i \in Left(c)' |-> i + 1]
  <2>1. Len(batch) \in Nat
    BY <1>2
  <2>2. \A i \in Left(c)' : i \in 1..Len(batch') /\ batch'[i] = c
    BY DEF Left
  <2>3. \A i \in Left(c)' : i \in Nat /\ i + 1 \in Left(c)
    BY <1>3, <2>1, <2>2 DEF Left
  <2>4. f \in [Left(c)' -> Left(c)]
    BY <2>3
  <2>5. \A i, j \in Left(c)' : f[i] = f[j] => i = j
    BY <2>3
  <2>6. f \in Injection(Left(c)', Left(c))
    BY <2>4, <2>5 DEF Injection, IsInjective
  <2>7. IsFiniteSet(Left(c)') /\ Cardinality(Left(c)') <= Cardinality(Left(c))
    BY <1>6, <2>6, FS_Injection
  <2> QED
    BY <2>7, FS_CardinalityType
<1>8. /\ Cardinality(Owed(c)) \in Nat /\ Cardinality(Owed(c)') \in Nat
      /\ Cardinality(Owed(c)') <= Cardinality(Owed(c)) /\ Cardinality(Left(c)) \in Nat
  BY <1>5, <1>6, Sizes
<1>9. Cardinality(Owed(c)) + Cardinality(Left(c)) + metrics[c] <= requests[c] + kills
  BY DEF CountInv
<1> QED
  BY <1>1, <1>4, <1>7, <1>8, <1>9 DEF CountInv, CountTypes

LEMMA ApiDownCounts ==
    ASSUME IInv, CountInv, ApiDown, kills' \in {kills, kills + 1} PROVE CountInv'
<1>1. /\ batch' = << >> /\ pc' = [pc EXCEPT ![API] = "idle"]
      /\ UNCHANGED <<queue, held, metrics, requests>>
  BY DEF ApiDown, service, client
<1>2. \A c \in Contracts : Owed(c)' \subseteq Owed(c) /\ Left(c)' \subseteq Left(c)
  BY <1>1, NamesAssumption DEF Owed, Left, IInv, Types
<1>3. CountTypes' /\ kills <= kills'
  BY <1>1 DEF CountInv, CountTypes
<1> QED
  BY <1>1, <1>2, <1>3, OwesNoMore

LEMMA WorkerCounts ==
    ASSUME IInv, CountInv, NEW w \in Workers,
           Return(w) \/ Ack(w) \/ \E t \in Tasks : Deliver(w, t)
    PROVE  CountInv'
<1>1. UNCHANGED <<metrics, requests, batch, kills>>
  BY DEF Return, Ack, Deliver, service, client
<1>2. CountTypes' /\ kills <= kills'
  BY <1>1 DEF CountInv, CountTypes
<1>3. ASSUME NEW c \in Contracts PROVE Left(c)' \subseteq Left(c)
  <2>1. \E new \in {"ack", "idle", "load"} : pc' = [pc EXCEPT ![w] = new]
    BY DEF Return, Ack, Deliver
  <2>2. pc'[API] = pc[API]
    BY <2>1, NamesAssumption DEF IInv, Types
  <2> QED
    BY <1>1, <2>2 DEF Left
<1>4. ASSUME NEW c \in Contracts PROVE Owed(c)' \subseteq Owed(c)
  <2>1. CASE Return(w) \/ Ack(w)
    <3>1. UNCHANGED queue /\ pc'[w] \notin Measuring
          /\ \A v \in Workers \ {w} : held'[v] = held[v] /\ pc'[v] = pc[v]
      BY <2>1 DEF Return, Ack, Measuring, IInv, Types, Runners
    <3> QED
      BY <3>1 DEF Owed
  <2>2. ASSUME NEW t \in Tasks, Deliver(w, t) PROVE Owed(c)' \subseteq Owed(c)
    <3>1. /\ t \in queue /\ queue' \subseteq queue /\ held'[w] = t
          /\ \A v \in Workers \ {w} : held'[v] = held[v] /\ pc'[v] = pc[v]
      BY <2>2 DEF Deliver, IInv, Types, Runners
    <3> QED
      BY <3>1 DEF Owed
  <2> QED
    BY <2>1, <2>2
<1> QED
  BY <1>1, <1>2, <1>3, <1>4, OwesNoMore

\* A message that goes back before its metric was owed already; after it, the
\* kill accounts for the second run.
LEMMA RequeueCounts ==
    ASSUME IInv, CountInv, NEW w \in Workers, Crash(w) \/ Kill(w) PROVE CountInv'
<1>1. /\ queue' = queue \cup {held[w]} /\ held' = [held EXCEPT ![w] = None]
      /\ pc' = [pc EXCEPT ![w] = "idle"] /\ pc[w] # "idle"
      /\ UNCHANGED <<metrics, requests, batch>>
  BY DEF Crash, Kill, Requeue, service, client
<1>2. held[w] \in Tasks
  BY <1>1 DEF IInv, Types, DeliveryInv
<1>3. /\ held'[w] = None
      /\ \A v \in Workers \ {w} : held'[v] = held[v] /\ pc'[v] = pc[v]
  BY <1>1 DEF IInv, Types, Runners
<1>4. \A c \in Contracts : Left(c)' \subseteq Left(c)
  BY <1>1, NamesAssumption DEF Left, IInv, Types
<1>5. \A c \in Contracts : Owed(c)' \subseteq Owed(c) \cup {held[w]}
  BY <1>1, <1>2, <1>3, NamesAssumption DEF Owed
<1>6. CASE Crash(w)
  <2>1. kills' = kills /\ pc[w] \in Measuring
    BY <1>6 DEF Crash, Measuring
  <2>2. \A c \in Contracts : Owed(c)' \subseteq Owed(c)
    BY <1>1, <1>2, <1>3, <2>1, NamesAssumption DEF Owed
  <2>3. CountTypes' /\ kills <= kills'
    BY <1>1, <2>1 DEF CountInv, CountTypes
  <2> QED
    BY <1>1, <1>4, <2>2, <2>3, OwesNoMore
<1>7. CASE Kill(w)
  <2>1. kills' = kills + 1
    BY <1>7 DEF Kill
  <2>2. CountTypes'
    BY <1>1, <2>1 DEF CountInv, CountTypes
  <2> SUFFICES ASSUME NEW c \in Contracts
               PROVE  Cardinality(Owed(c)') + Cardinality(Left(c)') + metrics'[c]
                        <= requests'[c] + kills'
    BY <2>2 DEF CountInv
  <2>3. IsFiniteSet(Owed(c)) /\ IsFiniteSet(Left(c))
    BY FiniteCounts DEF CountInv
  <2>4. /\ Cardinality(Owed(c)) \in Nat /\ Cardinality(Owed(c)') \in Nat
        /\ Cardinality(Owed(c)') <= Cardinality(Owed(c)) + 1
    <3>1. PICK t : t = held[w]
      OBVIOUS
    <3>2. Owed(c)' \subseteq Owed(c) \cup {t}
      BY <1>5, <3>1
    <3> QED
      BY <2>3, <3>2, Sizes
  <2>5. /\ Cardinality(Left(c)) \in Nat /\ Cardinality(Left(c)') \in Nat
        /\ Cardinality(Left(c)') <= Cardinality(Left(c))
    BY <1>4, <2>3, Sizes
  <2>6. Cardinality(Owed(c)) + Cardinality(Left(c)) + metrics[c] <= requests[c] + kills
    BY DEF CountInv
  <2> QED
    BY <1>1, <2>1, <2>4, <2>5, <2>6 DEF CountInv, CountTypes
<1> QED
  BY <1>6, <1>7

\* A contract never has more metrics than analyses asked for and kills: a run
\* repeats work only when a process was killed after its metric was written.
THEOREM ExtraRunsAreAlwaysKills == Spec => []ExtraRunsAreKills
<1>1. Init => CountInv
  <2> SUFFICES ASSUME Init PROVE CountInv
    OBVIOUS
  <2>1. CountTypes
    BY DEF Init, CountTypes
  <2>2. ASSUME NEW c \in Contracts PROVE Owed(c) = {} /\ Left(c) = {}
    BY NamesAssumption DEF Init, Owed, Left
  <2>3. ASSUME NEW c \in Contracts
        PROVE  Cardinality(Owed(c)) + Cardinality(Left(c)) + metrics[c] <= requests[c] + kills
    <3>1. Cardinality(Owed(c)) = 0 /\ Cardinality(Left(c)) = 0
      BY <2>2, FS_EmptySet
    <3>2. metrics[c] = 0 /\ requests[c] = 0 /\ kills = 0
      BY DEF Init
    <3> QED
      BY <3>1, <3>2
  <2> QED
    BY <2>1, <2>3 DEF CountInv
<1>2. IInv /\ CountInv /\ [Next]_vars => CountInv'
  <2> SUFFICES ASSUME IInv, CountInv, [Next]_vars PROVE CountInv'
    OBVIOUS
  <2>1. ASSUME UNCHANGED <<queue, held, pc, metrics, requests, batch, kills>> PROVE CountInv'
    <3>1. \A c \in Contracts : Owed(c)' \subseteq Owed(c) /\ Left(c)' \subseteq Left(c)
      BY <2>1 DEF Owed, Left
    <3>2. CountTypes' /\ kills <= kills'
      BY <2>1 DEF CountInv, CountTypes
    <3> QED
      BY <2>1, <3>1, <3>2, OwesNoMore
  <2>2. CASE \E t \in Tasks : Enqueue(t)
    BY <2>2, EnqueueCounts
  <2>3. CASE \E t \in Tasks : Poll(t) \/ GiveUp(t) \/ Expire(t)
    BY <2>1, <2>3 DEF Poll, GiveUp, Expire, service, client
  <2>4. CASE \E list \in Batches : BatchAnalyze(list)
    BY <2>4, BatchCounts
  <2>5. CASE RunBatch
    BY <2>5, RunCounts, MetricsCounts, NextInBatchCounts, ApiDownCounts
       DEF RunBatch, Run, CrashApi, Runners
  <2>6. CASE RestartApi
    BY <2>6, ApiDownCounts DEF RestartApi
  <2>7. ASSUME NEW w \in Workers, Work(w) \/ Kill(w) PROVE CountInv'
    <3>1. w \in Runners /\ w # API
      BY NamesAssumption DEF Runners
    <3> QED
      BY <2>7, <3>1, RunCounts, MetricsCounts, WorkerCounts, RequeueCounts DEF Work, Run
  <2>8. CASE UNCHANGED vars
    BY <2>1, <2>8 DEF vars
  <2> QED
    BY <2>2, <2>3, <2>4, <2>5, <2>6, <2>7, <2>8 DEF Next
<1>3. CountInv => ExtraRunsAreKills
  <2> SUFFICES ASSUME CountInv, NEW c \in Contracts PROVE metrics[c] <= requests[c] + kills
    BY DEF ExtraRunsAreKills
  <2>1. Cardinality(Owed(c)) \in Nat /\ Cardinality(Left(c)) \in Nat
    BY FiniteCounts, FS_CardinalityType DEF CountInv
  <2> QED
    BY <2>1 DEF CountInv, CountTypes
<1> QED
  BY <1>1, <1>2, <1>3, InitInv, NextStep, PTL DEF Spec
-----------------------------------------------------------------------------
\* What the page and the API process do keeps the types.
LEMMA ClientTypes ==
    ASSUME TypeOK,
           \/ \E t \in Tasks : Enqueue(t) \/ Poll(t) \/ GiveUp(t) \/ Expire(t)
           \/ \E list \in Batches : BatchAnalyze(list)
           \/ RestartApi
    PROVE  TypeOK'
<1>1. ASSUME NEW t \in Tasks, Enqueue(t) PROVE TypeOK'
  <2>1. ContractOf[t] \in Contracts /\ requests[ContractOf[t]] + 1 \in Nat
    <3>1. ContractOf[t] \in Contracts
      BY ContractAssumption
    <3>2. requests[ContractOf[t]] \in Nat
      BY <3>1 DEF TypeOK
    <3>3. QED BY <3>1, <3>2
  <2>2. requests' \in [Contracts -> Nat]
    BY <1>1, <2>1 DEF Enqueue, TypeOK
  <2>3. QED BY <1>1, <2>2 DEF Enqueue, TypeOK, backend, service
<1>2. ASSUME NEW t \in Tasks, Poll(t) \/ GiveUp(t) PROVE TypeOK'
  <2>1. seen'[t] \in {"unasked", "PENDING", "STARTED", "SUCCESS", "FAILURE", "gave up"}
    BY <1>2 DEF Poll, GiveUp, TypeOK, Ended
  <2>2. QED BY <1>2, <2>1 DEF Poll, GiveUp, TypeOK, backend, service
<1>3. ASSUME NEW t \in Tasks, Expire(t) PROVE TypeOK'
  BY <1>3 DEF Expire, TypeOK, Ended, client, service
<1>4. ASSUME NEW list \in Batches, BatchAnalyze(list) PROVE TypeOK'
  <2>1. list \in Seq(Contracts)
    BY <1>4, BatchAssumption
  <2>2. ASSUME NEW c \in Contracts PROVE Cardinality({i \in DOMAIN list : list[i] = c}) \in Nat
    <3>1. IsFiniteSet(1..Len(list)) /\ DOMAIN list = 1..Len(list)
      BY <2>1, FS_Interval
    <3>2. {i \in DOMAIN list : list[i] = c} \subseteq 1..Len(list)
      BY <3>1
    <3>3. QED BY <3>1, <3>2, FS_Subset, FS_CardinalityType
  <2>3. ASSUME NEW c \in Contracts
        PROVE  requests[c] + Cardinality({i \in DOMAIN list : list[i] = c}) \in Nat
    <3>1. requests[c] \in Nat
      BY DEF TypeOK
    <3>2. QED BY <2>2, <3>1
  <2>4. requests' \in [Contracts -> Nat]
    BY <1>4, <2>3 DEF BatchAnalyze
  <2>5. QED BY <1>4, <2>1, <2>4 DEF BatchAnalyze, TypeOK, Runners, backend, service
<1>5. ASSUME RestartApi PROVE TypeOK'
  <2>1. kills' \in 0..MaxKills
    <3>1. kills \in 0..MaxKills /\ kills < MaxKills /\ kills' = kills + 1
      BY <1>5 DEF RestartApi, TypeOK
    <3>2. QED BY <3>1, BoundsAssumption
  <2>2. batch' \in Seq(Contracts)
    BY <1>5 DEF RestartApi, ApiDown
  <2>3. QED BY <1>5, <2>1, <2>2 DEF RestartApi, ApiDown, TypeOK, Runners, backend, client, service
<1>6. QED BY <1>1, <1>2, <1>3, <1>4, <1>5

\* And so does the service, wherever it runs.
LEMMA RunTypes ==
    ASSUME TypeOK, NEW r \in Runners, Run(r) PROVE TypeOK'
<1>1. CASE Load(r)
  BY <1>1 DEF Load, TypeOK, backend, client, service
<1>2. CASE Analyze(r)
  BY <1>2 DEF Analyze, TypeOK, backend, client, service
<1>3. CASE Store(r)
  <2>1. record' \in [Contracts -> {"null", "completed", "completed_with_errors"}]
    BY <1>3 DEF Store, TypeOK
  <2>2. QED BY <1>3, <2>1 DEF Store, TypeOK, backend, client
<1>4. CASE StoreMetrics(r)
  <2>1. \A c \in Contracts, row \in {0, 1} : metrics[c] + row \in Nat
    <3>1. \A c \in Contracts : metrics[c] \in Nat
      BY DEF TypeOK
    <3>2. QED BY <3>1
  <2>2. PICK row \in {0, 1} : metrics' = [metrics EXCEPT ![Contract(r)] = @ + row]
    BY <1>4 DEF StoreMetrics
  <2>3. metrics' \in [Contracts -> Nat]
    BY <2>1, <2>2 DEF TypeOK
  <2>4. QED BY <1>4, <2>3 DEF StoreMetrics, TypeOK, backend, client
<1>5. QED BY <1>1, <1>2, <1>3, <1>4 DEF Run

LEMMA WorkerTypes ==
    ASSUME TypeOK, IInv, NEW w \in Workers, Work(w) \/ Kill(w) PROVE TypeOK'
<1>1. w \in Runners
  BY DEF Runners
<1>2. pc[w] # "idle" => held[w] \in Tasks
  <2>1. held[w] \in Tasks \cup {None}
    BY DEF TypeOK
  <2>2. QED BY <2>1 DEF IInv, DeliveryInv
<1>3. CASE Run(w)
  BY <1>1, <1>3, RunTypes
<1>4. CASE Return(w)
  <2>1. outcome[w] \in Analysis \cup {"none"}
    BY <1>1 DEF TypeOK
  <2>2. PICK t \in Tasks :
          \/ UNCHANGED <<state, result>>
          \/ /\ state' = [state EXCEPT ![t] = IF outcome[w] = "none" THEN "FAILURE" ELSE "SUCCESS"]
             /\ result' = [result EXCEPT ![t] = outcome[w]]
    BY <1>2, <1>4 DEF Return, backend
  <2>3. state' \in [Tasks -> {"PENDING", "STARTED"} \cup Ended]
    BY <2>2 DEF TypeOK, Ended
  <2>4. result' \in [Tasks -> Analysis \cup {"none"}]
    BY <2>1, <2>2 DEF TypeOK
  <2>5. QED BY <1>1, <1>4, <2>3, <2>4 DEF Return, TypeOK, client, service
<1>5. CASE Ack(w)
  BY <1>1, <1>5 DEF Ack, TypeOK, backend, client, service
<1>6. ASSUME Requeue(w), pc[w] # "idle", kills' \in 0..MaxKills PROVE TypeOK'
  BY <1>1, <1>2, <1>6 DEF Requeue, TypeOK, backend, client, service
<1>7. CASE Crash(w)
  BY <1>6, <1>7 DEF Crash, TypeOK
<1>8. CASE Kill(w)
  <2>1. kills' \in 0..MaxKills
    <3>1. kills \in 0..MaxKills /\ kills < MaxKills /\ kills' = kills + 1
      BY <1>8 DEF Kill, TypeOK
    <3>2. QED BY <3>1, BoundsAssumption
  <2>2. QED BY <1>6, <1>8, <2>1 DEF Kill
<1>9. ASSUME NEW t \in Tasks, Deliver(w, t) PROVE TypeOK'
  BY <1>1, <1>9 DEF Deliver, TypeOK, Ended, client, service
<1>10. QED BY <1>3, <1>4, <1>5, <1>7, <1>8, <1>9 DEF Work

LEMMA BatchTypes ==
    ASSUME TypeOK, RunBatch PROVE TypeOK'
<1>1. API \in Runners
  BY DEF Runners
<1>2. CASE Run(API)
  BY <1>1, <1>2, RunTypes
<1>3. CASE NextInBatch
  <2>1. batch # << >> /\ batch' = Tail(batch)
    BY <1>3 DEF RunBatch, ApiFree, NextInBatch
  <2>2. batch \in Seq(Contracts)
    BY DEF TypeOK
  <2>3. batch' \in Seq(Contracts)
    BY <2>1, <2>2
  <2>4. QED BY <1>1, <1>3, <2>3 DEF NextInBatch, TypeOK, backend, client, service
<1>4. CASE CrashApi
  <2>1. batch' \in Seq(Contracts)
    BY <1>4 DEF CrashApi, ApiDown
  <2>2. QED BY <1>1, <1>4, <2>1 DEF CrashApi, ApiDown, TypeOK, backend, client, service
<1>5. QED BY <1>2, <1>3, <1>4 DEF RunBatch

LEMMA TypeInit == Init => TypeOK
BY BoundsAssumption DEF Init, TypeOK, Analysis, Ended

LEMMA TypeStep == TypeOK /\ IInv /\ [Next]_vars => TypeOK'
<1>1. ASSUME TypeOK, UNCHANGED vars PROVE TypeOK'
  BY <1>1 DEF vars, TypeOK
<1>2. QED BY <1>1, ClientTypes, WorkerTypes, BatchTypes DEF Next

\* Every variable keeps its type, whatever is killed, redelivered or expires.
THEOREM TypeCorrect == Spec => []TypeOK
BY TypeInit, TypeStep, InitInv, NextStep, PTL DEF Spec

-----------------------------------------------------------------------------
(* What EveryTaskEnds rests on: fairness of the workers adds only that one   *)
(* that can go on does.                                                      *)

\* The most steps a worker still takes for a task, and the page that asks for it:
\* a run of the service has six, one for each place of its worker, and a kill
\* costs at most the step back to the queue.
Stage == [idle |-> 0, ack |-> 1, return |-> 2, metrics |-> 3, store |-> 4, analyze |-> 5, load |-> 6]
Holder(t) == CHOOSE w \in Workers : held[w] = t
RunLeft(t) ==
    IF seen[t] = "unasked" THEN 8
    ELSE IF t \in queue THEN 7
    ELSE IF \E w \in Workers : held[w] = t THEN Stage[pc[Holder(t)]] ELSE 0
StepsLeft(t) == 7 * (MaxKills - kills) + RunLeft(t)

\* A step for task t: by the worker that has it, or its delivery to one.
StepFor(t) == \E w \in Workers : (held[w] = t /\ (Work(w) \/ Kill(w))) \/ Deliver(w, t)

LEMMA HolderIs ==
    ASSUME NEW h, NEW t, NEW w \in Workers, h[w] = t, \A v \in Workers : h[v] = t => v = w
    PROVE  (CHOOSE v \in Workers : h[v] = t) = w
OBVIOUS

\* What is left of a run is known from where the task is, before and after.
LEMMA LeftOfHeld ==
    ASSUME IInv, NEW t \in Tasks, NEW w \in Workers, held[w] = t
    PROVE  RunLeft(t) = Stage[pc[w]] /\ pc[w] # "idle"
<1>1. t \notin queue /\ seen[t] # "unasked" /\ pc[w] # "idle" /\ t # None
  BY NamesAssumption DEF IInv, DeliveryInv, OneWorkerPerTask
<1>2. \A v \in Workers : held[v] = t => v = w
  BY <1>1 DEF IInv, DeliveryInv, OneWorkerPerTask
<1>3. Holder(t) = w
  BY <1>2, HolderIs DEF Holder
<1> QED
  BY <1>1, <1>3 DEF RunLeft

LEMMA LeftOfHeldNext ==
    ASSUME IInv', NEW t \in Tasks, NEW w \in Workers, held'[w] = t
    PROVE  RunLeft(t)' = Stage[pc'[w]]
<1>1. t \notin queue' /\ seen'[t] # "unasked" /\ t # None
  BY NamesAssumption DEF IInv, DeliveryInv, OneWorkerPerTask
<1>2. \A v \in Workers : held'[v] = t => v = w
  BY <1>1 DEF IInv, DeliveryInv, OneWorkerPerTask
<1>3. Holder(t)' = w
  BY <1>2, HolderIs DEF Holder
<1> QED
  BY <1>1, <1>3 DEF RunLeft

\* A step that leaves a task and the place of its worker alone leaves it as
\* much to do.
LEMMA LeftFrame ==
    ASSUME IInv, IInv', NEW t \in Tasks,
           seen'[t] = "unasked" <=> seen[t] = "unasked", t \in queue' <=> t \in queue,
           \A w \in Workers : held'[w] = t <=> held[w] = t,
           \A w \in Workers : held[w] = t => pc'[w] = pc[w]
    PROVE  RunLeft(t)' = RunLeft(t)
<1>1. ASSUME NEW w \in Workers, held[w] = t PROVE RunLeft(t)' = RunLeft(t)
  BY <1>1, LeftOfHeld, LeftOfHeldNext
<1>2. CASE ~ \E w \in Workers : held[w] = t
  BY <1>2 DEF RunLeft
<1> QED
  BY <1>1, <1>2

LEMMA LeftType ==
    ASSUME TypeOK, IInv, NEW t \in Tasks
    PROVE  RunLeft(t) \in 0 .. 8 /\ StepsLeft(t) \in 0 .. 7 * MaxKills + 8
<1>1. RunLeft(t) \in 0 .. 8
  <2>1. ASSUME NEW w \in Workers, held[w] = t PROVE RunLeft(t) \in 0 .. 8
    <3>1. pc[w] \in {"idle", "load", "analyze", "store", "metrics", "return", "ack"}
      BY DEF TypeOK, Runners
    <3> QED
      BY <2>1, <3>1, LeftOfHeld DEF Stage
  <2>2. CASE ~ \E w \in Workers : held[w] = t
    BY <2>2 DEF RunLeft
  <2> QED
    BY <2>1, <2>2
<1>2. MaxKills \in Nat /\ kills \in 0 .. MaxKills
  BY BoundsAssumption DEF TypeOK
<1> QED
  BY <1>1, <1>2 DEF StepsLeft

\* The steps of a worker, for the task it has and for the others.
LEMMA WorkCounts ==
    ASSUME TypeOK, IInv, IInv', NEW w \in Workers, Run(w) \/ Return(w) \/ Ack(w) \/ Crash(w),
           NEW t \in Tasks, ContractOf[t] \notin Poison
    PROVE  /\ held[w] # t => RunLeft(t)' = RunLeft(t)
           /\ held[w] = t => RunLeft(t)' < RunLeft(t)
           /\ kills' = kills
<1>1. w # API /\ w \in Runners
  BY NamesAssumption DEF Runners
<1>2. kills' = kills /\ seen' = seen
  BY DEF Run, Load, Analyze, Store, StoreMetrics, Return, Ack, Crash, Requeue, client
<1>3. CASE Run(w) \/ Return(w)
  <2>1. UNCHANGED <<queue, held>>
    BY <1>3 DEF Run, Load, Analyze, Store, StoreMetrics, Return
  <2>2. PICK new : /\ pc' = [pc EXCEPT ![w] = new]
                   /\ \/ pc[w] = "load" /\ new \in {"analyze", "return"}
                      \/ pc[w] = "analyze" /\ new = "store"
                      \/ pc[w] = "store" /\ new \in {"metrics", "return"}
                      \/ pc[w] = "metrics" /\ new = "return"
                      \/ pc[w] = "return" /\ new = "ack"
    BY <1>3 DEF Run, Load, Analyze, Store, StoreMetrics, Return
  <2>3. pc'[w] = new /\ \A v \in Workers \ {w} : pc'[v] = pc[v]
    BY <1>1, <2>2 DEF TypeOK, Runners
  <2>4. CASE held[w] # t
    BY <1>2, <2>1, <2>3, <2>4, LeftFrame
  <2>5. CASE held[w] = t
    <3>1. RunLeft(t) = Stage[pc[w]] /\ RunLeft(t)' = Stage[pc'[w]]
      BY <2>1, <2>5, LeftOfHeld, LeftOfHeldNext
    <3> QED
      BY <1>2, <2>2, <2>3, <2>5, <3>1 DEF Stage
  <2> QED
    BY <1>2, <2>4, <2>5
<1>4. CASE Ack(w)
  <2>1. /\ pc[w] = "ack" /\ queue' = queue /\ held' = [held EXCEPT ![w] = None]
        /\ pc' = [pc EXCEPT ![w] = "idle"]
    BY <1>4 DEF Ack
  <2>2. /\ held'[w] = None
        /\ \A v \in Workers \ {w} : held'[v] = held[v] /\ pc'[v] = pc[v]
    BY <1>1, <2>1 DEF TypeOK, Runners
  <2>3. CASE held[w] # t
    BY <1>2, <2>1, <2>2, <2>3, NamesAssumption, LeftFrame
  <2>4. CASE held[w] = t
    <3>1. RunLeft(t) = 1
      BY <2>1, <2>4, LeftOfHeld DEF Stage
    <3>2. t \notin queue /\ seen[t] # "unasked" /\ \A v \in Workers \ {w} : held[v] # t
      BY <2>4, NamesAssumption DEF IInv, DeliveryInv, OneWorkerPerTask
    <3>3. \A v \in Workers : held'[v] # t
      BY <2>2, <3>2, NamesAssumption
    <3>4. RunLeft(t)' = 0
      BY <1>2, <2>1, <3>2, <3>3 DEF RunLeft
    <3> QED
      BY <1>2, <2>4, <3>1, <3>4
  <2> QED
    BY <1>2, <2>3, <2>4
<1>5. CASE Crash(w)
  <2>1. /\ queue' = queue \cup {held[w]} /\ held' = [held EXCEPT ![w] = None]
        /\ pc' = [pc EXCEPT ![w] = "idle"]
    BY <1>5 DEF Crash, Requeue
  <2>2. held[w] # t
    BY <1>1, <1>5 DEF Crash, Contract
  <2>3. /\ held'[w] = None
        /\ \A v \in Workers \ {w} : held'[v] = held[v] /\ pc'[v] = pc[v]
    BY <1>1, <2>1 DEF TypeOK, Runners
  <2> QED
    BY <1>2, <2>1, <2>2, <2>3, NamesAssumption, LeftFrame
<1> QED
  BY <1>3, <1>4, <1>5

LEMMA DeliverCounts ==
    ASSUME TypeOK, IInv, IInv', NEW w \in Workers, NEW u \in Tasks, Deliver(w, u), NEW t \in Tasks
    PROVE  /\ u # t => RunLeft(t)' = RunLeft(t)
           /\ u = t => RunLeft(t)' < RunLeft(t)
           /\ kills' = kills
<1>1. /\ pc[w] = "idle" /\ u \in queue /\ queue' = queue \ {u} /\ held' = [held EXCEPT ![w] = u]
      /\ pc' = [pc EXCEPT ![w] = "load"] /\ seen' = seen /\ kills' = kills
  BY DEF Deliver, client
<1>2. w \in Runners /\ held[w] = None
  BY <1>1 DEF Runners, IInv, DeliveryInv
<1>3. /\ held'[w] = u /\ pc'[w] = "load"
      /\ \A v \in Workers \ {w} : held'[v] = held[v] /\ pc'[v] = pc[v]
  BY <1>1, <1>2 DEF TypeOK, Runners
<1>4. CASE u # t
  BY <1>1, <1>2, <1>3, <1>4, NamesAssumption, LeftFrame
<1>5. CASE u = t
  <2>1. RunLeft(t) = 7
    BY <1>1, <1>5 DEF RunLeft, IInv, DeliveryInv
  <2>2. RunLeft(t)' = 6
    BY <1>3, <1>5, LeftOfHeldNext DEF Stage
  <2> QED
    BY <1>1, <1>5, <2>1, <2>2
<1> QED
  BY <1>1, <1>4, <1>5

\* A kill costs at most the seven steps its run has taken, of what is left.
LEMMA KillCounts ==
    ASSUME TypeOK, IInv, IInv', NEW w \in Workers, Kill(w), NEW t \in Tasks
    PROVE  RunLeft(t)' < RunLeft(t) + 7 /\ kills' = kills + 1
<1>1. /\ pc[w] # "idle" /\ queue' = queue \cup {held[w]} /\ held' = [held EXCEPT ![w] = None]
      /\ pc' = [pc EXCEPT ![w] = "idle"] /\ seen' = seen /\ kills' = kills + 1
  BY DEF Kill, Requeue, client
<1>2. RunLeft(t) \in 0 .. 8 /\ w \in Runners
  BY LeftType DEF Runners
<1>3. /\ held'[w] = None
      /\ \A v \in Workers \ {w} : held'[v] = held[v] /\ pc'[v] = pc[v]
  BY <1>1, <1>2 DEF TypeOK, Runners
<1>4. CASE held[w] # t
  <2>1. RunLeft(t)' = RunLeft(t)
    BY <1>1, <1>3, <1>4, NamesAssumption, LeftFrame
  <2> QED
    BY <1>1, <1>2, <2>1
<1>5. CASE held[w] = t
  <2>1. RunLeft(t) = Stage[pc[w]] /\ pc[w] # "idle"
    BY <1>5, LeftOfHeld
  <2>2. RunLeft(t) > 0
    <3>1. pc[w] \in {"load", "analyze", "store", "metrics", "return", "ack"}
      BY <1>2, <2>1 DEF TypeOK
    <3> QED
      BY <2>1, <3>1 DEF Stage
  <2>3. RunLeft(t)' = 7
    BY <1>1, <1>5 DEF RunLeft, IInv, DeliveryInv
  <2> QED
    BY <1>1, <1>2, <2>2, <2>3
<1> QED
  BY <1>4, <1>5

\* The page and the API process take no step for a task but the first.
LEMMA ApiCounts ==
    ASSUME TypeOK, IInv, IInv', NEW t \in Tasks,
           \/ \E u \in Tasks : Enqueue(u) \/ Poll(u) \/ GiveUp(u) \/ Expire(u)
           \/ \E list \in Batches : BatchAnalyze(list)
           \/ RunBatch \/ RestartApi
    PROVE  RunLeft(t)' <= RunLeft(t) /\ kills' \in {kills, kills + 1}
<1>1. RunLeft(t) \in 0 .. 8
  BY LeftType
<1>2. ASSUME NEW u \in Tasks, Enqueue(u) PROVE RunLeft(t)' <= RunLeft(t) /\ kills' = kills
  <2>1. /\ seen[u] = "unasked" /\ queue' = queue \cup {u} /\ UNCHANGED <<held, pc, kills>>
        /\ seen' = [seen EXCEPT ![u] = "PENDING"]
    BY <1>2 DEF Enqueue
  <2>2. CASE u = t
    <3>1. seen'[t] # "unasked"
      BY <2>1, <2>2 DEF TypeOK
    <3>2. RunLeft(t)' = 7 /\ RunLeft(t) = 8
      BY <2>1, <2>2, <3>1 DEF RunLeft
    <3> QED
      BY <2>1, <3>2
  <2>3. CASE u # t
    <3>1. RunLeft(t)' = RunLeft(t)
      BY <2>1, <2>3, LeftFrame
    <3> QED
      BY <1>1, <2>1, <3>1
  <2> QED
    BY <2>2, <2>3
<1>3. ASSUME NEW u \in Tasks, Poll(u) \/ GiveUp(u) \/ Expire(u)
      PROVE  RunLeft(t)' <= RunLeft(t) /\ kills' = kills
  <2>1. /\ UNCHANGED <<queue, held, pc, kills>>
        /\ seen'[t] = "unasked" <=> seen[t] = "unasked"
    BY <1>3 DEF Poll, GiveUp, Expire, Polling, client, TypeOK, Ended
  <2>2. RunLeft(t)' = RunLeft(t)
    BY <2>1, LeftFrame
  <2> QED
    BY <1>1, <2>1, <2>2
<1>4. CASE (\E list \in Batches : BatchAnalyze(list)) \/ RunBatch \/ RestartApi
  <2>1. UNCHANGED <<queue, held>> /\ kills' \in {kills, kills + 1}
    BY <1>4 DEF BatchAnalyze, RunBatch, Run, Load, Analyze, Store, StoreMetrics, NextInBatch,
                CrashApi, RestartApi, ApiDown
  <2>2. seen'[t] = seen[t]
    BY <1>4 DEF BatchAnalyze, RunBatch, Run, Load, Analyze, Store, StoreMetrics, NextInBatch,
                CrashApi, RestartApi, ApiDown, client
  <2>3. PICK new : pc' = [pc EXCEPT ![API] = new]
    BY <1>4 DEF BatchAnalyze, RunBatch, Run, Load, Analyze, Store, StoreMetrics, NextInBatch,
                CrashApi, RestartApi, ApiDown
  <2>4. \A w \in Workers : pc'[w] = pc[w]
    BY <2>3, NamesAssumption DEF TypeOK, Runners
  <2>5. RunLeft(t)' = RunLeft(t)
    BY <2>1, <2>2, <2>4, LeftFrame
  <2> QED
    BY <1>1, <2>1, <2>5
<1> QED
  BY <1>2, <1>3, <1>4

LEMMA LeftTypeNext ==
    ASSUME TypeOK', IInv', NEW t \in Tasks PROVE RunLeft(t)' \in 0 .. 8
<1>1. ASSUME NEW w \in Workers, held'[w] = t PROVE RunLeft(t)' \in 0 .. 8
  <2>1. pc'[w] \in {"idle", "load", "analyze", "store", "metrics", "return", "ack"}
    BY DEF TypeOK, Runners
  <2> QED
    BY <1>1, <2>1, LeftOfHeldNext DEF Stage
<1>2. CASE ~ \E w \in Workers : held'[w] = t
  BY <1>2 DEF RunLeft
<1> QED
  BY <1>1, <1>2

LEMMA TaskSteps ==
    ASSUME TypeOK, IInv, TypeOK', IInv', Next, NEW t \in Tasks, ContractOf[t] \notin Poison
    PROVE  /\ StepsLeft(t)' <= StepsLeft(t)
           /\ StepFor(t) => StepsLeft(t)' < StepsLeft(t)
<1>1. RunLeft(t) \in 0 .. 8 /\ RunLeft(t)' \in 0 .. 8 /\ kills \in Int /\ MaxKills \in Int
  <2>1. RunLeft(t) \in 0 .. 8 /\ RunLeft(t)' \in 0 .. 8
    BY LeftType, LeftTypeNext
  <2>2. MaxKills \in Nat
    BY BoundsAssumption
  <2>3. kills \in 0 .. MaxKills
    BY DEF TypeOK
  <2> QED
    BY <2>1, <2>2, <2>3
<1>2. /\ StepsLeft(t) = 7 * (MaxKills - kills) + RunLeft(t)
      /\ StepsLeft(t)' = 7 * (MaxKills - kills') + RunLeft(t)'
  BY DEF StepsLeft
<1>3. ASSUME NEW w \in Workers, Run(w) \/ Return(w) \/ Ack(w) \/ Crash(w)
      PROVE  /\ StepsLeft(t)' <= StepsLeft(t)
             /\ held[w] = t => StepsLeft(t)' < StepsLeft(t)
  <2>1. /\ held[w] # t => RunLeft(t)' = RunLeft(t)
        /\ held[w] = t => RunLeft(t)' < RunLeft(t)
        /\ kills' = kills
    BY <1>3, WorkCounts
  <2> QED
    BY <1>1, <1>2, <2>1
<1>4. ASSUME NEW w \in Workers, NEW u \in Tasks, Deliver(w, u)
      PROVE  /\ StepsLeft(t)' <= StepsLeft(t)
             /\ u = t => StepsLeft(t)' < StepsLeft(t)
  <2>1. /\ u # t => RunLeft(t)' = RunLeft(t)
        /\ u = t => RunLeft(t)' < RunLeft(t)
        /\ kills' = kills
    BY <1>4, DeliverCounts
  <2> QED
    BY <1>1, <1>2, <2>1
<1>5. ASSUME NEW w \in Workers, Kill(w) PROVE StepsLeft(t)' < StepsLeft(t)
  <2>1. RunLeft(t)' < RunLeft(t) + 7 /\ kills' = kills + 1
    BY <1>5, KillCounts
  <2> QED
    BY <1>1, <1>2, <2>1
<1>6. ASSUME \/ \E u \in Tasks : Enqueue(u) \/ Poll(u) \/ GiveUp(u) \/ Expire(u)
             \/ \E list \in Batches : BatchAnalyze(list)
             \/ RunBatch \/ RestartApi
      PROVE  StepsLeft(t)' <= StepsLeft(t)
  <2>1. RunLeft(t)' <= RunLeft(t) /\ kills' \in {kills, kills + 1}
    BY <1>6, ApiCounts
  <2> QED
    BY <1>1, <1>2, <2>1
<1>7. StepFor(t) => StepsLeft(t)' < StepsLeft(t)
  <2> SUFFICES ASSUME NEW w \in Workers, (held[w] = t /\ (Work(w) \/ Kill(w))) \/ Deliver(w, t)
               PROVE  StepsLeft(t)' < StepsLeft(t)
    BY DEF StepFor
  <2>1. CASE Deliver(w, t)
    BY <1>4, <2>1
  <2>2. CASE held[w] = t /\ Kill(w)
    BY <1>5, <2>2
  <2>3. ASSUME NEW u \in Tasks, Deliver(w, u), held[w] = t PROVE FALSE
    BY <2>3, NamesAssumption DEF Deliver, IInv, DeliveryInv
  <2>4. CASE held[w] = t /\ Work(w)
    BY <1>3, <2>3, <2>4 DEF Work
  <2> QED
    BY <2>1, <2>2, <2>4
<1>8. StepsLeft(t)' <= StepsLeft(t)
  <2>1. ASSUME NEW w \in Workers, Work(w) \/ Kill(w) PROVE StepsLeft(t)' <= StepsLeft(t)
    <3>1. CASE Kill(w)
      <4>1. RunLeft(t)' < RunLeft(t) + 7 /\ kills' = kills + 1
        BY <3>1, KillCounts
      <4> QED
        BY <1>1, <1>2, <4>1
    <3>2. CASE Work(w)
      BY <1>3, <1>4, <3>2 DEF Work
    <3> QED
      BY <2>1, <3>1, <3>2
  <2> QED
    BY <1>6, <2>1 DEF Next
<1> QED
  BY <1>7, <1>8

\* Unless its analysis kills its worker, a task has eight steps and seven more for
\* each kill: every step for it is one of those, and none of another gives it
\* more to do.  Only the message of such a contract goes round for ever.
THEOREM EveryStepCounts ==
    Spec => [][\A t \in Tasks : ContractOf[t] \notin Poison
                 => /\ StepsLeft(t) \in 0 .. 7 * MaxKills + 8
                    /\ StepsLeft(t)' \in 0 .. StepsLeft(t)
                    /\ StepFor(t) => StepsLeft(t)' < StepsLeft(t)]_vars
<1>1. ASSUME TypeOK, IInv, TypeOK', IInv', [Next]_vars
      PROVE  [\A t \in Tasks : ContractOf[t] \notin Poison
                 => /\ StepsLeft(t) \in 0 .. 7 * MaxKills + 8
                    /\ StepsLeft(t)' \in 0 .. StepsLeft(t)
                    /\ StepFor(t) => StepsLeft(t)' < StepsLeft(t)]_vars
  <2> SUFFICES ASSUME Next, NEW t \in Tasks, ContractOf[t] \notin Poison
               PROVE  /\ StepsLeft(t) \in 0 .. 7 * MaxKills + 8
                      /\ StepsLeft(t)' \in 0 .. StepsLeft(t)
                      /\ StepFor(t) => StepsLeft(t)' < StepsLeft(t)
    BY <1>1
  <2>1. StepsLeft(t) \in 0 .. 7 * MaxKills + 8 /\ StepsLeft(t)' \in Nat
    <3>1. StepsLeft(t) \in 0 .. 7 * MaxKills + 8
      BY <1>1, LeftType
    <3>2. RunLeft(t)' \in 0 .. 8
      BY <1>1, LeftTypeNext
    <3>3. kills' \in 0 .. MaxKills /\ MaxKills \in Nat
      BY <1>1, BoundsAssumption DEF TypeOK
    <3>4. StepsLeft(t)' = 7 * (MaxKills - kills') + RunLeft(t)'
      BY DEF StepsLeft
    <3> QED
      BY <3>1, <3>2, <3>3, <3>4
  <2>2. StepsLeft(t)' <= StepsLeft(t) /\ (StepFor(t) => StepsLeft(t)' < StepsLeft(t))
    BY <1>1, TaskSteps
  <2> QED
    BY <2>1, <2>2, BoundsAssumption
<1> QED
  BY <1>1, TypeCorrect, InitInv, NextStep, PTL DEF Spec
=============================================================================
