# Verification of the contract analysis backend

TLA+ models of the backend of the contract intelligence application (`src/backend`), the TLC runs that check them
and the theorems TLAPS proves about them. Line numbers are those of the commit the models were written from.

* [The system](#the-system): its parts, their state and how they interact
* [The modules](#the-modules): what models what
* [The runs](#the-runs): what TLC checks, in which bounds
* [Fairness](#fairness), [The proofs](#the-proofs), [Where code and documentation disagree](#where-code-and-documentation-disagree)
* [Not modelled](#not-modelled) and [Plan](#plan)

## The system

A FastAPI process, Celery workers, Redis and Neo4j. A user uploads a contract; its text is stored as a graph; on
request a worker extracts its clauses with an LLM, checks them against the tenant's policies, scores the risk, proposes
redlines and stores the result, which a page polls for. Users search the graph, or ask an agent that does.

| Part | State it keeps | Operations | Talks to |
|---|---|---|---|
| Circuit breakers (`shared/reliability/circuit_breaker.py`) | three Redis keys per breaker: state, failure_count, opened_at | guard, allow_request, record_success, record_failure | Redis; everything that calls an LLM or Neo4j goes through one |
| LLM calls (`agents/llm_*_service.py`, `agents/policy_evaluation_service.py`, `agents/reranker_service.py`, `shared/utils/llm_concurrency.py`) | a semaphore per process, results cached in Redis | extract_clauses, extract_clauses_grouped, classify, evaluate_clause, rerank | providers in order, each behind its breaker |
| Planner and execution engine (`agents/planning`, `agents/intelligence_tools.py`, `agents/supervisor/quality_grader.py`) | plan, step results, step_status, execution_context | create_execution_plan, execute_plan, execute_step with retries | LLM calls through its tools; progress channel |
| Orchestrator (`agents/contract_intelligence_agents.py`) | IntelligenceState of one run | planned analysis; the traditional workflow of five nodes, if asked for or if the plan raises | the engine, the tools |
| Progress (`agents/supervisor/progress_publisher.py`, `api/supervisor_api.py`) | a Redis channel per contract | publish, stream | the engine publishes, a page listens |
| Analysis tasks (`tasks.py`, `celery_app.py`, `contract_intelligence_service.py`, `api/contract_intelligence.py`) | broker queue, result backend, Contract status, PerformanceMetric nodes | analyze, poll, batch; load, analyse, store | orchestrator, Neo4j, Redis |
| Document upload (`api/document_upload.py`, `contract_repository.py`, extraction agents, `enhanced_document_processing_service.py`) | temporary file; Document, Contract, party, Section and Clause nodes | upload, enhanced upload, streamed upload | chunking, Neo4j, LLM calls |
| Chunking (`infrastructure/chunking`, `agents/chunking_agent.py`) | Chunk and DocumentChunk nodes, embeddings | process_document, process_document_sync | embedding model, Neo4j |
| Search (`application/services/enhanced_search_service.py`, `shared/utils/*contract_search_tool.py`) | a Redis cache of answers | REST search by level, chat tools, re-ranking | Neo4j, the re-ranking call |
| Chat (`contract_chat_agent.py`, `main.py`, `frontend` history) | messages of a page, state of a run | submit, agent loop, tools, guards, reset | chat model, search, MCP tools |
| CUAD tools and feedback (`agents/*cuad_tools.py`, `feedback_learning_system.py`) | LegalDecision nodes, learned patterns of an analysis, cached answers | submit decisions, detect deviations, adapt, match precedents, rate clauses | Neo4j, Redis; a step of the plan and a node of the workflow |
| Policies (`policy_repository.py`, `policy_agents.py`, `policy_rule_resolver.py`) | PolicyDocument, Chunk and PolicyRule nodes | upload, delete, resolve, check | Neo4j; read by the policy check of an analysis |
| Accounts (`auth_api.py`, `user_repository.py`, `invite_repository.py`) | User and Invite nodes | register, invite, accept, Google login | Neo4j |
| Queries API, monitoring, middleware, governance, MCP tools, migrations, frontend, training | see [Not modelled](#not-modelled) | | |

The parts meet in this order: the page posts an analysis (AnalysisTask), a worker runs the service, the service runs
the orchestrator (Orchestrator), which runs a plan (PlanExecution) or the traditional workflow, whose steps call an LLM
(LLMCalls) through a breaker (CircuitBreaker) that all processes share, resolve policies (Policies) and rate clauses
(Mitigation); the plan publishes its progress (Progress). An upload (EnhancedUpload) cuts its text (Chunking) for the
searches (Search) an agent runs (Chat). Modules that share state extend one another, as the table below says. Between
the others each takes the outcomes of the one below as inputs, unconstrained: `Analyze` of AnalysisTask may produce any
analysis, `ExtractClauses` of PlanExecution may succeed, find nothing or fail silently, `PassOver` of LLMCalls stands
for a breaker that is open at any time. What is shown of one therefore does not depend on what is shown of another.

What is hard to test in it, each listed with its line under `hazards` in `PROJECT.json`:

* several processes update three Redis keys without a transaction, and die in between;
* a task is delivered again after its worker is lost, to code that is not idempotent;
* failures are turned into plausible results (an empty list, an empty analysis, a dictionary with an error in it) at several
  levels, and each level above has to tell them apart again;
* an analysis has two paths, of which one replaces the other in the middle;
* the upload is a dozen awaits with a duplicate check at the start and the CREATE at the end; invites, first registrations
  and policy rules are likewise read and written in separate queries;
* caches keyed by a hash are shared by all tenants;
* what a model answers (tool calls, ranks) is input to code that indexes by it;
* permits, temporary files and cache entries on every way out of a handler.

## The modules

| Module | Models | What its variables and actions are |
|---|---|---|
| `CircuitBreaker` | `circuit_breaker.py` | The three Redis keys; `pc`, where each caller is inside `guard()`. One action per Redis operation, so callers interleave between any two. `failed_calls` is history. |
| `AtomicBreaker` | the class docstring, lines 20-23 | The abstract CLOSED/OPEN/HALF_OPEN machine, one action per call. |
| `SequentialBreaker` | | One caller: the refinement mapping from `CircuitBreaker` to `AtomicBreaker`. |
| `Planner` | `planning_agent.py` | Pure operators from a query to a plan: strategies, templates, refinement. |
| `PlanExecution` | `execution_engine.py`, `intelligence_tools.py`, `quality_grader.py` | The step loop of one plan. `results`, `status`, `context`, `result` are the engine's; `breaker` is what other requests do to the Gemini breaker; `lost` is history: the step types whose work was in fact not done. Extends `Planner`. |
| `Orchestrator` | `contract_intelligence_agents.py` | Extends `PlanExecution`: `route` is the path in charge, `node` and `node_status` the traditional workflow, whose nodes call the same tools. A plan that raises starts the workflow from nothing. |
| `Progress` | `progress_publisher.py`, `supervisor_api.py` | Extends `Orchestrator`: each of its steps publishes what the code publishes there, to a reader that may come late, leave, or lose a message. |
| `LLMCalls` | the LLM services, `llm_fallback_service.py`, `llm_concurrency.py`, `redis_cache.py` | A thread per call, of five kinds: `pc`, its request, the providers that did not serve it; the semaphore; the cache. In a result `to` and `failed` are history. |
| `AnalysisTask` | `api/contract_intelligence.py`, `tasks.py`, `celery_app.py`, `contract_intelligence_service.py`, the polling page | Broker, workers, result backend, what the page has seen, the stored status and metrics, the batch in the API process. |
| `DocumentUpload` | `api/document_upload.py` and what it awaits | One step is the code between two awaits of the single event loop. Nodes by upload, as an upload's UUID names its Document and its Contract. |
| `Embeddings` | `embeddings/orchestrator.py`, `embeddings/agents/{document,clause,relationship}_embedding_agent.py` | What an enhanced upload finds in a text, as a sequence of embeddings to store. |
| `EnhancedUpload` | `/enhanced/upload`, `/upload-stream`, `enable_enhanced`, `enhanced_document_processing_service.py` | Extends `DocumentUpload` and `Embeddings`: all endpoints on one event loop. `todo` is what a response still has to store, one query each, `nodes` what MERGE made of it. |
| `Positions` | | `sorted` and filtering comprehensions: the members of a set in an order, the items of a sequence at a set of positions, the order of nested loops. `Chunking`, `Embeddings` and `Search` extend it. |
| `Chunking` | `infrastructure/chunking`, `chunking_agent.py` | One document through `process_document`: its strategies as functions over sentences, each loop a function of how far it has got, overlap, duplicates, then the Chunk nodes and embeddings one query each. A chunk's `own` text is history. |
| `Search` | both contract search tools, `enhanced_search_service.py`, `search_strategies.py`, `reranker_service.py` | A search per caller: its levels one query each, the graph that grows, the cache of one Redis. |
| `Chat` | `contract_chat_agent.py`, `main.py`, the page's history | Extends `Search`: the agent's runs are callers; the model replies with any tool calls; tools search for the run. |
| `Learning` | `feedback_learning_system.py`, its API | LegalDecision nodes and what is learned from them: overrides, approval and rejection patterns. |
| `Mitigation` | the three generations of CUAD tools, the rating of clauses | Extends `Learning`: an analysis goes from tool to tool, falls back a generation when one raises, and rates its clauses one by one. |
| `Accounts` | `auth_api.py`, `user_repository.py`, `invite_repository.py` | User and Invite nodes; `pc` and `req`, the handler of each process, one action per query. `origin` and `late` of a user and `lost` are history. |
| `Policies` | `policy_api.py`, `policy_agents.py`, `policy_repository.py`, `policy_rule_resolver.py` | Nodes by policy id; `pc` and `job` of each process, one action per query. A text is a sequence of lines, from which chunks and rules are functions. `before` is history. |
| `MC*` | | Instances for TLC: small sets, functions, symmetry. |
| `*Proofs` | | Theorems, one module per component. |

Operators called `Mutant...` are the same definitions with a plausible bug, each next to the one it is a bug of. No
specification uses them; `PROJECT.json` pairs each with the property that has to notice it.

What the models abstract: contents (a clause is in a list or not, a text a set of the words that are looked for, a result
complete, partial or empty, the deviations of a clause a set), wording, vectors (a row has a score for a text), time (the breaker keeps ages in ticks up
to its timeout, everything else has none), Prometheus counters, logs and audit events. What is kept is every state
change, guard, early return and error path of the modelled operations.

External behaviour assumed, and from where:

* Celery 5 with a Redis broker: messages in no assumed order, at least once; an unacknowledged message of a lost worker is
  put back (`task_acks_late`, `task_reject_on_worker_lost`, `celery_app.py:68,73`); the visibility timeout is longer than
  an analysis; a stored SUCCESS is not overwritten by a later run of the task. The production worker uses the solo pool,
  so a task that kills its process kills the worker (`docker-compose.prod.yml:129`).
* The container restarts a worker that died (`restart: unless-stopped`).
* Neo4j executes one query at a time; its uniqueness constraints (user names, policy ids) are those of the migrations.
* `store_contract` of the repository has no await, so its statements do not interleave with other uploads; each may fail.
* `threading.Semaphore` is not FIFO; `RedisCache` swallows errors of reads and writes; an entry may expire at any time.
* Redis pub/sub delivers to those subscribed at that time, in order, and keeps nothing.

## The runs

All bounds are constants in the `.cfg` files; no run replaces a definition. Every run passes.

| Run | Instance | Shows |
|---|---|---|
| `breaker` | 2 callers, threshold 2, timeout 2, Redis that comes and goes, 1 crash | `NoSpuriousOpen`: the breaker leaves CLOSED only after threshold calls really failed, however counting, resets and crashes interleave. `NeverWedged`: a caller that dies with the half-open trial blocks nobody. `Recovers`: a healthy dependency ends with the breaker closed. `FailsFast`: a dead one keeps opening it. |
| `breaker_sequential` | 1 caller, threshold 3, timeout 3 | `ImplementsDocstring`: alone, the Redis steps implement the documented machine. |
| `plan_execution` | a query on each side of every decision of the planner, tools that raise, both paths, readers of the application's own kind of run | `CompleteIsHonest`, `GoodGradeIsEarned`: a complete result, or an A or B, has lost no work but clauses that were not extracted and what the tools of a mitigation swallowed (`QuietLosses`). `ResultAgreesWithItself`: score and redlines come from the violations reported, which only the order of the plan ensures. `FallbackIsHonest`: the same of the traditional workflow, which may lose the whole mitigation. `StreamTellsTheRun`: a stream tells the statuses the analysis keeps, and ends with it. `Answers`: the untimed wait for dependencies always ends. |
| `llm_calls` | an extraction and a classification of one text on a pinned model, two evaluations that share a key, a search without candidates, 1 permit, 1 provider with a key | `PermitsBalance`: permits are out exactly for calls with a provider. `AnswersAreReal`: what is returned or cached was answered to that question. `FoundIsKept`: a failed second request costs an extraction nothing. `EveryCallEnds`: with one permit, although an extraction needs it twice. |
| `analysis_task` | 2 tasks, 2 workers, a batch, a contract that kills its process, 1 kill, 2 requests of a contract | `NoTaskIsLost`, `OneWorkerPerTask`; `ExtraRunsAreKills`: runs beyond those asked for are paid by kills; `NeverSeenGoingBack`: the page never sees a finished or started task go back, although results expire. |
| `analysis_task_ends` | 2 tasks on one contract, 1 worker killed twice | `EveryTaskEnds` in SUCCESS or FAILURE. No contract asked for here kills its process: such a task is delivered for ever. |
| `document_upload` | two uploads of one file and one of its name by another tenant; or two enhanced uploads and a streamed one; or one of each kind; 1 restart; any step may fail | `AnswersNameTheirContract`, `OneContractPerName` (unless uploads of the name overlap or the check failed), `FilesAreRemoved` (but for streamed uploads that were answered 500 or got no service), `DocumentsPointToWholeContracts`, and `EmbeddingsAreTheContracts`: sections, clauses and parties of a Contract are its own text's, and all there when the answer says so. |
| `accounts` | 2 processes, 3 names, 2 Google identities, 2 invites, 1 tenant, 1 crash | `InvitesAreAccountedFor`: a used invite is held by one request, in one account, or spent by a request that failed. `LateRequestsCreateNothing`: only requests that overlap can both found a tenant or link an identity. |
| `policies` | 2 processes, 2 tenants, 2 uploads of three texts, deletions, failing queries, processes that die | `OwnRulesOrDefaults`, `NeverUnchecked`: a contract is judged by its tenant's rules or the default ones, never by none. `StoredRulesApply`: by all that applied when the check began. `SuccessIsAllOrNothing`: a successful upload has a rule for every stored chunk, or none at all. |
| `chunking` | documents of up to five sentences of seven kinds, and four of 12 to 17 sentences, through all three methods; 1 failed call | `ChunksAreTheDocument`: cutting, overlapping and removing duplicates lose, repeat and reorder no text. `NodesAreTheChunks`: every node has its own chunk's text and embedding. |
| `search_and_chat` | 2 callers, runs of one page or REST searches of 2 tenants, 1 cached answer, 2 runs, 1 round of up to two tool calls, a pool of 3, an answer of 2, aggregations of up to 1 row | `AnswersAreTheAskers`: rows of the asker's tenant, contract, kind and filters, whoever filled the cache; not for an aggregation the chat's model writes, for which tenants are not kept apart. `RankingIsHonest`: re-ranking loses, repeats and invents nothing. `FailuresAreNotCached`, but for two levels it names. `ToolMessagesAnswerTheirCalls`: in their order, each once, of the user's tenant whatever the model asks, unless it is such an aggregation. |
| `mitigation` | 2 analyses that share a clause type, 3 decisions of which one is malformed, 2 faults, 1 cached answer; two decisions where the code asks for five, one alike where it asks for three | `AdjustmentsAreEarned`: a risk level changes only as two decisions on its type say. `AlikeClausesAreRatedAlike` within an analysis, although decisions arrive meanwhile. `ToolsAnswerTheirContract`: through the cache and every fallback. |

Why these bounds suffice to be interesting:

* Two callers are what a race of the breaker needs, and a threshold of two is the least at which a count can be lost; the
  theorem has any number of both. A timeout of two tells an old opened_at from a new one.
* The plans are all of them, not a sample: the planner distinguishes only what `EveryKind` enumerates.
* One permit makes every wait for a second permit a deadlock. Re-rankings that ask a provider and the groups of
  `extract_clauses_grouped` would make that run several times as long: they are covered by the theorems about LLMCalls only.
* One kill at any step separates delivery from acknowledgement, and the second kill in `analysis_task_ends` hits the
  redelivered run.
* Two uploads of one name race, and the third tells a check by name from a check by tenant and name. Which uploads arrive
  together (`Groups`) is bounded, as six at a time are beyond reach; each pair of kinds with interfering steps is in one.
* Two requests race for an invite while the second invite and the third name let each of them go wrong by itself.
* Two policy uploads: one before and one during a check. The texts have lines that become rules, headers, or nothing.
* The long documents pass the threshold of ten chunks and the batches of three sizes; `Alike` duplicates need equal
  sentences, which `Written(.., TRUE)` makes.
* One entry suffices for an answer that is wrongly shared. The thresholds of Search and Learning are constants: what matters
  is that pools and decisions below, at and above them occur.

Deadlock is checked in the breaker, plan and policy runs. The others say `CHECK_DEADLOCK FALSE`, because everything that
was asked for may have been answered.

## Fairness

* CircuitBreaker: weak fairness of each caller's steps (threads run, every guarded client has a timeout) and of the
  clock. None for crashes, Redis errors or changes of the dependency; `Recovers` and `FailsFast` assume that the
  dependency settles.
* Progress (and with it the plan and the orchestrator): weak fairness of `POrchestrate`, a step of whichever path is in
  charge. Tools are synchronous and their clients time out. None for an abort, an exception or a reader.
* LLMCalls: weak fairness per thread; `DEFAULT_TIMEOUT_SECONDS` bounds every request. Weak fairness is enough although a
  call can be overtaken at the semaphore: calls are finitely many. That a call in an endless stream of others is served
  is not claimed, and a `threading.Semaphore` does not promise it.
* AnalysisTask: weak fairness of each worker and of the API's background task; none for users, kills or expiry.
* The other modules have safety properties only: their requests are answered or cut off in a bounded number of steps.

## The proofs

`tlapm` checks every leaf. Assumptions are the named `ASSUME`s of the modules, on constants only: sets of callers and
calls are finite, thresholds and limits positive, functions have their domains, texts are sequences, `None` is none of the values. TLC
evaluates them in every run that uses the module. Type invariants are proved, as `TypeCorrect`, rather than run.

* **`CircuitBreakerProofs`**, `TypeCorrect`, `NeverOpensSpuriously`. `NoSpuriousOpen` is not inductive: a caller about to
  trip the breaker carries a decision it made from a count others have since reset. `OpenInv` adds that a count plus
  the callers still to count never exceeds the calls that failed (`CountedOnce`), and that whoever has seen the breaker
  open, or is past the threshold test, is evidence of enough failures (`Evidence`). `ImplementsTheDocstring` is the
  refinement of `AtomicBreaker` step by step, for any threshold and timeout, under the hypothesis `Alone`: one caller, a
  Redis that answers, no crash. `AloneInv` says what that caller knows of the keys at each of its operations, so that a
  test and the write that follows it are one step of the abstract machine and the rest stutter.
  Of the liveness properties the part without fairness is proved: `RejectionsEnd` (it rejects only
  while a bounded time is left, which only a failed call prolongs and each tick shortens) for `NeverWedged`, `ClosedForGood`
  (the "for good") for `Recovers`, `FailuresAddUp` for `FailsFast`.
* **`LLMCallsProofs`**, `TypeCorrect`, `PermitsBalanceAlways`, `AnswersAreRealAlways`, `FoundIsAlwaysKept`, for calls of all
  five kinds. `PermitsBalance` needs only the types and that each step moves at most one call into or out of a request.
  `AnswersAreReal` needs `ResultInv`: a call has nothing before its first answer, only extractions make a second request,
  and they carry a real result into it. The lemma `KeysTellQuestions` is where the cache key matters. `FoundIsKept` is
  an action property and follows from the same invariant. What `EveryCallEnds` rests on is proved as well, for any calls,
  providers and permits: `EveryStepCounts`, with the measure `StepsLeft` that `CallsAreBounded` bounds, and
  `NeverAllWaiting`, from `PermitsBalance`: without a permit left somebody is asking a provider, and who asks does not wait.
* **`OrchestratorProofs`**, `TypeCorrect`, `CompleteIsAlwaysHonest`, `GoodGradesAreEarned`, `ResultsAgree`,
  `FallbackIsAlwaysHonest`, `StreamsTellTheRun`, for any set of queries. `TwoPlans` shows that the planner has two
  plans, so a step is known by its position. `EngineInv` says of the steps done that a loss, but for the quiet ones, is
  noted in a status, or in the risk that validation looks at (`LossInv`), and that what a later step was given is still
  what the context has (`BasisInv`); a result is complete only if it was computed from that at the end (`ResultInv`).
  `FallbackInv` is the same for the nodes of the workflow, and `PathsInv` says which of the two holds: an exception
  resets everything. `StreamInv` relates what a reader was told to the statuses kept; `ReadersChangeNothing` (PSpec =>
  OSpec) carries the first four theorems to the specification with readers, which is the one the run checks. For
  `Answers`: `NeverWaitsForAResult`, as a step depends on earlier steps of its plan only and each of those leaves a
  result, failed or not; `AnalysesAreBounded` and `EveryStepCounts`, where attempts, retries, what is left of the plan,
  and the fallback make the measure. The tools of the analysis are proved here too: `ToolsAlwaysAnswerTheirContract`,
  `AdjustmentsAreAlwaysEarned`, `AlikeClausesAreAlwaysRatedAlike`, over `MSpec`, for any contracts, decisions and
  thresholds. `ToolsInv` says what the tools have found once an analysis is past them (`Answered`), which needs of a
  shared cache that each entry answers its key (`EntryInv`). `RatingInv` says that an analysis learns once about a type
  and rates all clauses of it by that (`RatedAlike`); as decisions are only added, what they once supported stays
  supported (`DecisionsGrow`, `SupportStays`).
* **`AnalysisTaskProofs`**, `TypeCorrect`, `NoTaskIsEverLost`, `OneWorkerPerTaskAlways`, from `DeliveryInv`: a worker is
  idle exactly when it holds nothing, acknowledges only what has ended, and what nobody asked for is nowhere.
  `SeenNeverGoesBack` follows from `SeenInv`, what the page has seen against the state of its task.
  `ExtraRunsAreAlwaysKills` counts: deliveries that still owe a metric, runs of a batch that are left, and metrics
  written, are never more than requests and kills together (`CountInv`); its lemmas are about cardinalities of sets of
  tasks. For `EveryTaskEnds`: `EveryStepCounts`, whose bounded measure has the place of the worker that holds the task
  and the kills still to come. The hypothesis on `Poison` is the code's: a message that kills its worker is delivered
  again, for ever.
* **`EnhancedUploadProofs`** proves, per action and first over `Spec`, the uploads by themselves, `TypeCorrect`,
  `OneContractPerNameAlways`, `AnswersNameTheirContractAlways`, `NoFileIsEverLeft`,
  `DocumentsAlwaysPointToWholeContracts`. `ClaimInv`: an upload holds a claim on its name from the check to the end and
  its Contract holds it for ever; two claims on a name are excused. `StoreInv`: the Contract comes with the store, and a
  successful outcome means a whole one. `LinkInv`: a link is made when there is such an outcome. With the same step
  lemmas it carries the four to `ESpec`, the specification the run checks (`AllAnswersNameTheirContract`,
  `OneContractPerNameOfAll`, `AllDocumentsPointToWholeContracts`; for files `FilesOfAllAreRemoved`, as streamed uploads
  have exits without a cleanup), and adds `EmbeddingsAreAlwaysTheContracts`. Its `EmbeddingInv` says that the nodes of a
  Contract are those its results up to the place reached would leave (`Upto`), where a later result takes the place of
  an earlier one at its id: the lemma `UptoNext` is one MERGE. That what is found in a text is a sequence is the lemma
  `ResultsAreASequence`: each agent's results are listed by the order of its loops, from a finite set.
* **`AccountsProofs`**, `TypeCorrect`, `LateRequestsNeverCreate`, `InvitesAlwaysAccountedFor`. Accounts are never deleted,
  so a precondition that had failed stays failed (`Lasting`); `Sound` says, query by query, what the handler already
  knows. An invite's holder, account or loss are exclusive, as only `consume` moves it.
* **`PoliciesProofs`**, `TypeCorrect`, `AlwaysChecked`, `OnlyOwnRules`, `AllStoredRulesApply`,
  `SuccessIsAlwaysAllOrNothing`. A policy appears together with its first rule, rules are never removed and every stored
  rule applies to all contracts, because chunks keep nothing of what it applies to (`Bare`): so a check that listed a
  policy will find a rule, whatever is deleted meanwhile. For the types, `WorkInv` says that an upload under way is the
  work of one process. `StoredInv`: a policy has no rule before the last chunk is stored, after which no chunk changes,
  and one that succeeded has a rule for each or none; `BeforeInv`: what applied when a check began still does, as far as
  it has got.
* **`RetrievalProofs`**, `AnswersAreAlwaysTheAskers`, `RankingIsAlwaysHonest`, `FailuresAreNeverCached` and
  `ToolMessagesAlwaysAnswerTheirCalls`, over `CSpec`, for any callers, rows, queries, answers of the ranking model and
  replies of the agent's. The order a page is in is a set of pairs: `InOrderIsAnOrder` shows that `InOrder` lists a
  finite set by any strict total order, each member once, and `RankedIsHonest` that best first and earlier given first
  is one. `SearchInv` says of each caller that the parts found so far answer its search (`PartsOf`; an aggregation is
  only honest about its pool), and of each entry of the cache that it answers its key (`EntryInv`), failures included;
  `Progress`, that a search of one level has one part at its end, is what lets `Finish` judge a search by its first
  part. `ChatInv` says that the calls still pending are the end of those of the last reply, the others answered
  (`Round`), that the search under way is that of the first of them (`SearchOf`), and that what was said stays an answer
  (`Answers`); without `SearchOf` an answer could be another call's. `ChatIsInductive` is both. What the searches read
  is proved here too, as it needs the same orders: `ChunksAreAlwaysTheDocument` and `NodesAreAlwaysTheChunks`, over
  Chunking's `Spec`, for documents of any length. Every loop of Chunking is a function on `0..n`: `Loop` says that such
  a function has its values, in a set that each turn stays in, `Upwards` that what each turn keeps holds at the end, and
  `ByAppending` is induction over a sequence. From them, splitting and packing lose nothing (`SplitBefore`, `Pack`),
  each strategy's chunks are the document, both overlaps only put text before a chunk's own, gathering batches gives
  back the chunks (`InBatches`), and the removal of duplicates keeps some of them in order with one alike for each it
  drops. The inductive invariant is `Accounted`: nothing is cut before its stage, what is cut says what the document
  says, and what is left of it is what the removal keeps. `AsStored`, inductive together with it, has which path takes
  which step, that a node is the chunk at its place and an embedding that of the chunk at its id, and, as long as no
  call failed, that each chunk tried has an embedding that waits or is stored (`Complete`). TLC finds both invariants
  true in the run `chunking`.

Only model-checked: liveness and everything with fairness or ENABLED (`NeverWedged`, `Recovers`, `FailsFast`, `Answers`,
`EveryCallEnds`, `EveryTaskEnds`), which is out of the prover's reach. Of each, a part that needs no fairness is
proved for all constants. For the last three that is all but fairness itself: each step lowers a bounded measure, and what is
waited for is there or will be (the results a step depends on; a permit that a call which does not wait holds; the message
of a task, which `NoTaskIsEverLost` finds with a worker or in the queue). What TLC adds, on the instances of the runs, is
that such a step is ENABLED and weak fairness takes it. Every invariant and action property a run checks
without fairness has a theorem. Folds and `SelectSeq` take operators as arguments, and so do the library's
induction theorems, which the provers cannot instantiate. Where a proof needs induction over numbers it takes the
least number that goes wrong (`HasFirst`, from the well-founded order of the naturals), and Search and Chunking state their
loops, orders and selections without folds for that reason; the sizes that Chunking still adds up with folds decide where
a text is cut, which no theorem depends on. No module has RECURSIVE operators.

## Where code and documentation disagree

Met while modelling, and visible in the models: each is what the modelled code does, and where a property would say
otherwise the property names the exception. Paths are below `src/`, and below `src/backend/` for Python files.

Analyses:

* `README.md:28` "a failed step surfaces as `processing_complete: false`": a failed extraction is a success unless the
  breaker is open when its status is computed (`execution_engine.py:527`), and the traditional workflow reports completion
  when all three generations of CUAD tools failed (`contract_intelligence_agents.py:376`). `CompleteIsHonest` and
  `FallbackIsHonest` leave these two out.
* The same sentence against the mitigation: each CUAD tool catches its own exception and answers an empty list or an error
  text as a success (`enhanced_cuad_tools.py:46-48,343-345`, `optimized_cuad_tools.py:116-118`), a pattern that takes longer
  than a second or a precedent longer than five is skipped (`:52-55,109-112`), and the optimized matcher calls its search
  without the tenant it requires (`:123`), so that with any clauses it loses every precedent. None of it shows in a status,
  a completion or a grade: `Swallowed`, and `QuietLosses`, which the properties leave out by name.
* `tasks.py:120` "Raises on failure (...) rather than swallowing it": an exception of the pipeline becomes an empty analysis
  in a SUCCESS (`contract_intelligence_service.py:50`). A failed store leaves the "completed" of an earlier analysis
  (`:282`).
* `celery_app.py:69` "instead of endless requeue-and-recrash": a task that kills its worker is requeued each time.
* `contract_intelligence.py:170`: a batch never suspends its coroutine, so the API answers nothing until it is over; `:216`:
  `round(None)` turns the dashboard of a tenant without analyses into a 500.
* `quality_grader.py:64` against `:48`: an engine result with a partial step gets D, never the documented C.
  `cuad_analysis_status` is "completed" whatever the tools did.
* Progress: messages published before a reader subscribes are lost, runs of one contract share a channel, the last message
  says "complete" whatever the result's `processing_complete`, and the traditional workflow publishes nothing, so that a
  stream runs into its 300 seconds while the answer comes by the other path.

Breakers and LLM calls:

* `circuit_breaker.py:110` "exactly this one trial call is let through": every caller that reads HALF_OPEN is. `:139` trips in
  two writes: a reader between them pairs OPEN with an old opened_at and is admitted at once (docstring, 20-22). `:118`:
  a slow success from before the trip closes the breaker again.
* `llm_extraction_service.py:490` caches the result of an extraction whose requests failed, for 24 hours, and so does a
  classification; `docs/CAPSTONE_SUMMARY.md:138` says "a failed call never reaches the cache-set step", which holds for
  evaluations only. It is the exemption in `Real`. `:438` says the second request "only fires when the primary pass found
  none of those categories"; it fires when any is missing (`Extracted`).
* `llm_fallback_service.py:244` says re-ranking must never be what makes a search take longer; a re-ranking waits without a
  timeout on the semaphore extractions hold through three providers of 120 s each (`Acquire`).

Uploads and chunking:

* `chunking_agent.py:351`: when chunking falls back, the Document of a real upload is stored without its tenant, against
  `storage_service.py:34` "Required, not optional" (`Fallback`); the last fallback stores it under `demo_tenant_1`.
* `document_upload.py:336` says the upload "continues without chunking"; `contract_id` is then unbound and the upload ends
  in a 500 (`Fail`). The duplicate check bypasses the Neo4j breaker, against the docstring of the repository's `_query`.
* `enable_enhanced` asks a graph for a node it does not have, so such an upload is always answered with an error
  (`EnableEnhanced`). An enhanced upload looks for its file name inside the contract ids of all tenants, ends in a 500 when
  it finds it, and stores its Contract without a file name, so no later check finds that. With `enable_embeddings=false` it
  always ends in an error. Several clauses that start at one place are one node, of the last type (`Deserved`).
* `/upload-stream` ends with "completion" whether or not a Contract was stored; what raises in it makes an error event. It
  writes its file (`document_upload.py:512`) where no cleanup covers it: an exception before the response is a 500 that leaves
  the file (`:595-599`, `Unstreamed`); when `create_service` raises (`:527`) the `finally` (`:584`) raises a NameError of its
  own, and when the reader is gone before the generator begins it never runs (`Unserved`). Elsewhere `os.remove` is taken
  to succeed.
* The 'sentence' and 'hybrid' strategies raise when made with sizes, so a fallback runs. Overlap followed by the removal of
  duplicates can drop a short last clause, against "real, verbatim paragraphs" (`enhanced_contract_search_tool.py:662`):
  `ChunksAreTheDocument` asks only that what is dropped is nearly all in what is kept.

Search and chat:

* `enhanced_search_service.py:78` "Never cache a transient failure": it is done for searches of all levels at once, and for
  chunks that fell back to their text. Nothing invalidates the cache when a contract is stored.
* `contract_chat_agent.py` injects the tenant so that the model cannot choose it, but `ContractSearch` takes a
  `cypher_aggregation` from the model (`contract_search_tool.py:222-225`) and appends it to its query as it is, in place of
  the RETURN (`:176-177`); the agent passes it on unvalidated (`contract_chat_agent.py:159`). Behind a `WITH` it may match
  any nodes, so isolation of tenants does not hold for such a call: `Aggregate` answers any rows, in any order, and the two
  properties leave it out by name (`Aggregated`, `OwnAggregation`). It may also write, which is not modelled. The enhanced
  tool takes the argument too, and uses it in the key of its cache only.
* The index is asked for `VECTOR_SEARCH_OVERFETCH` nearest rows of all tenants, of which a tenant may have none
  (`Nearest` in Search). The chat's document search ignores several of its filters; a search of all levels ignores all.
* Arguments of a tool call bypass pydantic, so a nested filter that is a dictionary raises and the stream breaks off
  without its `end`. A call of a tool that does not exist gets no message. The page sends a history that already has the
  prompt, and the answer is appended to it (`main.py:349,446`), against `docs/FLOW.md`; a Reset during a run is undone when
  the run ends. Redaction replaces only the last message.

Policies, accounts, feedback:

* Deletion of a policy only sets `active` to false and no query that resolves rules reads it; the policy cache's `invalidate`
  does nothing. What a rule applies to, and how severe it is, is lost between chunk and rule (`policy_api.py:268`); a line
  that starts with a letter and says "must" becomes a section header and never a rule; "must not" is a mandatory rule.
  Failures of the chunk store are swallowed. A 400 of the validation is answered as a 500 (`policy_api.py:57`).
* `consume_backup_code` says it is atomic and is a read and a write (`user_repository.py:355`). An invite is consumed before
  the account is created, so one whose name is taken is spent.
* Decisions of all tenants are learned from; one on an unknown contract is stored and unlinked, and answered as a success;
  one whose content is no text makes learning raise, and the step falls back or fails (`RatingRaises`). The enhanced matcher
  is called without a tenant and looks for precedents of `demo_tenant_1`; the optimized one never finds any
  (`optimized_cuad_tools.py:123`). What a timed-out pattern left out is cached for half an hour.

## Not modelled

`PROJECT.json` lists every component with its reason. In short:

* Contract queries API, dashboards and read endpoints of every part: they change nothing. What a chat's `cypher_aggregation`
  might write into the graph; what it reads is modelled as any rows.
* Monitoring: best-effort counters and log entries, every failure swallowed, by which nothing decides. Workflow trackers
  likewise.
* Middleware (configuration of libraries), governance and encryption (stateless filters; what they do to a conversation is
  in Chat, to a chunk in Chunking), MCP tools (read-only; their call is `CallMCP` of Chat), migrations (run by hand, once),
  training, research and scripts (offline), the frontend but for its history and its polling (a client that may call
  anything at any time).
* Password login and MFA, which write only to the account they are about; token formats.
* Code without callers in the running system: `update_policy_version`, `store_policy_document`, `PolicyWorkflowSupervisor`,
  `BatchProcessor` but for a monitoring call, `advanced_rag_agent.py`, `embedding_optimizer.py`, `pdf_tools.py`, the nodes
  behind the enhanced agent.
* Numbers as such: similarity, quality scores and confidences are ordered values; the quality of chunks only decides a
  retry. Contents of vectors and prompts.

## Plan

Every step of the plan is done: the breaker with its abstract machine, planner and engine, tasks, uploads and LLM calls
first; then the orchestrator and the progress stream, policies, accounts, chunking, enhanced uploads, search and chat,
feedback and mitigation, each with its run; then the proofs: of the breaker and its refinement, the engine, the fallback,
the stream, policies, accounts, tasks, uploads, chunking, searches, chat and mitigation.

What would come next: password login and MFA with the backup codes of one account in two processes; re-rankings
and searches in one module with the permits they wait for, for a bound on what a search can be made to wait.
