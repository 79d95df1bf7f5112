------------------------------- MODULE Progress -------------------------------
(***************************************************************************)
(* The progress of a planned analysis, published by the engine             *)
(* (backend/agents/planning/execution_engine.py, through                   *)
(* agents/supervisor/progress_publisher.py) and read from an event stream  *)
(* of the API (backend/api/supervisor_api.py).  Redis pub/sub: a message   *)
(* reaches who is subscribed when it is published, in order, or nobody.    *)
(* The channel is the contract's, so other runs of it are heard as well.   *)
(***************************************************************************)
EXTENDS Orchestrator

CONSTANTS
    Watched      \* bound: the queries whose runs somebody watches

ASSUME WatchedAssumption == Watched \subseteq Query

VARIABLES
    stream,    \* of a reader: "none", "open", or "ended" by a message of this run
    told       \* the messages of the plan at hand an open or ended stream was sent since
               \* it was opened or since one was lost, <<step_type, status>>

channel == <<stream, told>>
pvars   == <<ovars, channel>>

Messages == (StepType \X {"success", "partial", "failed"})
                \cup ({"workflow"} \X {"started", "complete", "failed"})
Terminal == {<<"workflow", "complete">>, <<"workflow", "failed">>}

PInit ==
    /\ OInit
    /\ stream = "none"
    /\ told = {}

-----------------------------------------------------------------------------
(* The publisher                                                           *)

\* Mutant of StepMessage: the status is the tool call's, not the step's.
MutantStepMessage == <<step.type, IF results'[step.id] THEN "success" ELSE "failed">>

StepMessage == <<step.type, status'[step.type]>>

\* What the engine publishes when it goes on, or ends its plan as `ending`.
Published(ending) ==
    (IF pos = 1 /\ phase = "waiting" THEN {<<"workflow", "started">>} ELSE {})
    \cup (IF pos' > pos THEN {StepMessage} ELSE {})
    \cup (IF phase' = "done" THEN {<<"workflow", ending>>} ELSE {})

\* publish_step_progress raises nothing: if Redis does not take the messages,
\* they are lost.  Nor does it know whether anybody listens.
Publish(messages) ==
    \/ /\ stream = "open"
       /\ told' = told \cup messages
       /\ stream' = IF messages \cap Terminal # {} THEN "ended" ELSE "open"
    \/ /\ stream = "open"
       /\ messages # {}
       /\ told' = {}
       /\ UNCHANGED stream
    \/ /\ stream # "open"
       /\ UNCHANGED channel

-----------------------------------------------------------------------------
(* The stream                                                              *)

\* A reader may come at any time of a plan's run, or after it.
Subscribe ==
    /\ query \in Watched
    /\ route # "traditional"
    /\ stream = "none"
    /\ stream' = "open"
    /\ UNCHANGED <<ovars, told>>

\* _STREAM_MAX_SECONDS, or the reader leaves.  Another run of the contract that
\* publishes on the channel is like it: the stream goes on, with messages of
\* both runs or ended by the other, but says nothing of this one any more.
Unfollow ==
    /\ stream = "open"
    /\ stream' = "none"
    /\ told' = {}
    /\ UNCHANGED ovars

-----------------------------------------------------------------------------
\* Only the engine publishes: nothing is heard of the traditional workflow.
POrchestrate ==
    \/ PlanGoesOn /\ Publish(Published("complete"))
    \/ (PlanningAnswers \/ TraditionalNode \/ TraditionalAnswers) /\ UNCHANGED channel

PNext ==
    \/ POrchestrate
    \/ PlanAborts /\ Publish(Published("failed"))
    \/ PlanningRaises /\ told' = {} /\ UNCHANGED stream
    \/ TraditionalRaises /\ UNCHANGED channel
    \/ BreakerChanges /\ UNCHANGED <<route, workflow, answer, channel>>
    \/ Subscribe \/ Unfollow

PSpec == PInit /\ [][PNext]_pvars

\* As for the orchestrator; the reader owes nothing.
PFairSpec == PSpec /\ WF_pvars(POrchestrate)

-----------------------------------------------------------------------------
(* Property                                                                *)

\* The statuses told of a run's steps.
Steps(messages) == {m \in messages : m[1] \in StepType}

\* A stream that another run does not interfere with tells the truth of this
\* run as long as the planning path is in charge: no step is told with another
\* status than the analysis keeps for it.  A stream that was told of the
\* start has, when a message ends it, told of every step that has a status, and it
\* ends with the run, not before.
StreamTellsTheRun ==
    route = "planning" \/ answer.path = "planning"
        => LET known == {m \in Messages : m[1] \in StepType /\ status[m[1]] = m[2]} IN
           /\ Steps(told) \subseteq known
           /\ stream = "ended" => phase = "done"
           /\ stream = "ended" /\ <<"workflow", "started">> \in told
                => /\ Steps(told) = known
                   /\ <<"workflow", "failed">> \in told => ~result.complete
=============================================================================
