--------------------------------- MODULE Chat ---------------------------------
(***************************************************************************)
(* Contract Chat: a page (components/features/contracts/input.tsx) posts a *)
(* prompt with the history it keeps to /api/run/, where runner() (main.py) *)
(* guards it, runs the agent of contract_chat_agent.py, which calls tools, *)
(* and streams events back, the new history last.  Several runs, of one    *)
(* page or several, go on at a time; Search has the tools' searches.       *)
(***************************************************************************)
EXTENDS Search

CONSTANTS
    Pages,
    TenantOf,      \* by page: the tenant of its user's token
    Selections,    \* contracts a page may select, Nothing for all
    Replies,       \* what the model may reply, see Reply
    MaxRuns,       \* bound: runs and REST searches started
    MaxRounds      \* bound: rounds of tool calls in a run

Tools == {"EnhancedContractSearch", "ContractSearch", "MCP tool"}

\* A call of a tool, or of none there is.  The tenant and the contract are what
\* the model may add of its own; `shaped` is FALSE of arguments _run fails on,
\* such as a monetary_value that is a dict still.
Call == [tool : Tools \cup {"unknown"}, tenant : Tenants \cup {Nothing}, params : Params,
         shaped : BOOLEAN]
\* `private` is a text that PIIEngine would change.
Reply == [text : {"none", "plain", "private"}, calls : Seq(Call)]

ASSUME ChatAssumption ==
    /\ TenantOf \in [Pages -> Tenants]
    /\ Selections \subseteq {Nothing} \cup STRING
    /\ Replies \subseteq Reply

VARIABLES
    history,   \* by page: the messages it sends with its next prompt
    run,       \* by caller: its run of the agent
    turn       \* runs and REST searches started

chatting == <<history, run, turn>>
cvars == <<svars, chatting>>

CInit ==
    /\ SInit
    /\ history = [p \in Pages |-> <<>>]
    /\ run = [c \in Callers |-> Nothing]
    /\ turn = 0

Message(by, text, calls, of, what) ==
    [by |-> by, text |-> text, calls |-> calls, of |-> of, answer |-> what]

\* A run that begins: the history the page sent, and the prompt.
NewRun(p, contract) ==
    [page |-> p, contract |-> contract, stage |-> "assistant", pending |-> <<>>,
     sent |-> Len(history[p]),
     context |-> Append(history[p], Message("user", "plain", <<>>, turn + 1, Nothing))]

\* The messages of a run itself, after those the page sent.
Said(r) == SubSeq(r.context, r.sent + 2, Len(r.context))

\* A prompt the guard lets through; one it blocks is answered with an error.
\* The button is disabled during a run, the Enter key is not.
Submit(c, p, contract) ==
    /\ Idle(c) /\ run[c] = Nothing /\ turn < MaxRuns
    /\ turn' = turn + 1
    /\ run' = [run EXCEPT ![c] = NewRun(p, contract)] \/ UNCHANGED run
    /\ UNCHANGED <<svars, history>>

At(c, stage) == run[c] # Nothing /\ run[c].stage = stage
Broken(c) == run' = [run EXCEPT ![c] = Nothing]

\* assistant and should_continue.
Assistant(c) ==
    /\ At(c, "assistant")
    /\ \E reply \in Replies :
        /\ reply.calls # <<>> =>
              Cardinality({i \in DOMAIN Said(run[c]) : Said(run[c])[i].calls # <<>>}) < MaxRounds
        /\ run' = [run EXCEPT
                  ![c].context = Append(@, Message("ai", reply.text, reply.calls, Nothing, Nothing)),
                  ![c].pending = [i \in DOMAIN reply.calls |-> i],
                  ![c].stage = IF reply.calls = <<>> THEN "guard" ELSE "tools"]
    /\ UNCHANGED <<svars, history, turn>>

\* The model raises, or LangGraph's recursion limit is reached: the stream ends
\* without an end.
AssistantRaises(c) ==
    /\ At(c, "assistant")
    /\ Broken(c)
    /\ UNCHANGED <<svars, history, turn>>

LastReply(r) == LET context == r.context IN
    context[CHOOSE i \in DOMAIN context :
                context[i].by = "ai" /\ \A j \in DOMAIN context : context[j].by = "ai" => j <= i]
ThisCall(r) == LastReply(r).calls[Head(r.pending)]

\* Mutant of Injected: a tenant the model gave is not overwritten.
MutantInjected(r, call) ==
    [api |-> IF call.tool = "ContractSearch" THEN "legacy tool" ELSE "tool",
     tenant |-> IF call.tenant = Nothing THEN TenantOf[r.page] ELSE call.tenant,
     level |-> IF call.tool = "ContractSearch" THEN "document" ELSE call.params.level,
     contract |-> IF call.tool # "ContractSearch" /\ r.contract # Nothing THEN r.contract
                  ELSE call.params.contract,
     text |-> call.params.text, kinds |-> call.params.kinds, where |-> call.params.where,
     custom |-> call.params.custom]

\* The arguments of a search: the tenant of the token and the selected contract
\* overwrite what the model gave; the rest is as the model wrote it.
Injected(r, call) ==
    [api |-> IF call.tool = "ContractSearch" THEN "legacy tool" ELSE "tool",
     tenant |-> TenantOf[r.page],
     level |-> IF call.tool = "ContractSearch" THEN "document" ELSE call.params.level,
     contract |-> IF call.tool # "ContractSearch" /\ r.contract # Nothing THEN r.contract
                  ELSE call.params.contract,
     text |-> call.params.text, kinds |-> call.params.kinds, where |-> call.params.where,
     custom |-> call.params.custom]

\* _run takes these arguments: ContractSearch has no contract_id and no types of
\* clauses or sections.
Accepted(call) ==
    /\ call.shaped
    /\ call.tool = "ContractSearch" =>
          call.params.contract = Nothing /\ call.params.kinds["clause"] \cup call.params.kinds["section"] = {}

Calling(c, tools) == At(c, "tools") /\ run[c].pending # <<>> /\ ThisCall(run[c]).tool \in tools

Returned(c, what) ==
    run' = [run EXCEPT
              ![c].context = Append(@, Message("tool", "none", <<>>, Head(run[c].pending), what)),
              ![c].pending = Tail(@),
              ![c].stage = "tools"]

CallSearch(c) ==
    /\ Calling(c, {"EnhancedContractSearch", "ContractSearch"})
    /\ Accepted(ThisCall(run[c]))
    /\ Ask(c, Injected(run[c], ThisCall(run[c])))
    /\ run' = [run EXCEPT ![c].stage = "searching"]
    /\ UNCHANGED <<rows, cache, answer, history, turn>>

\* An exception is logged and raised again: no message of this round is kept.
CallRaises(c) ==
    /\ \/ /\ Calling(c, {"EnhancedContractSearch", "ContractSearch"})
          /\ ~Accepted(ThisCall(run[c]))
          /\ UNCHANGED answer
       \/ /\ At(c, "searching") /\ answer[c] = Error
          /\ answer' = [answer EXCEPT ![c] = Nothing]
    /\ Broken(c)
    /\ UNCHANGED <<rows, cache, asked, todo, found, history, turn>>

SearchReturns(c) ==
    /\ At(c, "searching") /\ answer[c] \notin {Nothing, Error}
    /\ Returned(c, answer[c])
    /\ answer' = [answer EXCEPT ![c] = Nothing]
    /\ UNCHANGED <<rows, cache, asked, todo, found, history, turn>>

\* call_mcp_tool answers its errors; its tools are not modelled here.
CallMCP(c) ==
    /\ Calling(c, {"MCP tool"})
    /\ Returned(c, Nothing)
    /\ UNCHANGED <<svars, history, turn>>

\* No tool of that name: no message.
CallUnknown(c) ==
    /\ Calling(c, {"unknown"})
    /\ run' = [run EXCEPT ![c].pending = Tail(@)]
    /\ UNCHANGED <<svars, history, turn>>

ToolsDone(c) ==
    /\ At(c, "tools") /\ run[c].pending = <<>>
    /\ run' = [run EXCEPT ![c].stage = "assistant"]
    /\ UNCHANGED <<svars, history, turn>>

\* The last reply is replaced by all that was said, redacted.
Redacted(context) ==
    [i \in DOMAIN context |->
        IF context[i].by = "ai" /\ \A j \in DOMAIN context : context[j].by = "ai" => j <= i
        THEN [context[i] EXCEPT !.text = "redacted"] ELSE context[i]]

\* The output guard, the history event and the end.  The page adds the history
\* it is sent to the one it has; what the guard found unsafe stays in it.
Output(c) ==
    /\ At(c, "guard")
    /\ LET r == run[c]
           private == \E i \in DOMAIN Said(r) : Said(r)[i].text = "private"
       IN  \E safe \in BOOLEAN :
            history' = [history EXCEPT ![r.page] =
                           @ \o (IF safe /\ private THEN Redacted(r.context) ELSE r.context)]
    /\ Broken(c)
    /\ UNCHANGED <<svars, turn>>

\* The reset button, also during a run.
Reset(p) ==
    /\ history[p] # <<>>
    /\ history' = [history EXCEPT ![p] = <<>>]
    /\ UNCHANGED <<svars, run, turn>>

Agent(c) ==
    \/ Assistant(c) \/ AssistantRaises(c)
    \/ CallSearch(c) \/ CallRaises(c) \/ SearchReturns(c) \/ CallMCP(c) \/ CallUnknown(c)
    \/ ToolsDone(c) \/ Output(c)

CNext ==
    \/ \E c \in Callers :
        \/ \E p \in Pages, contract \in Selections : Submit(c, p, contract)
        \/ Agent(c)
        \/ SearchStep(c) /\ UNCHANGED chatting
        \/ /\ run[c] = Nothing
           /\ \/ /\ turn < MaxRuns /\ turn' = turn + 1
                 /\ \E tenant \in Tenants, p \in RestParams : RestAsk(c, tenant, p)
              \/ RestAnswered(c) /\ UNCHANGED turn
           /\ UNCHANGED <<history, run>>
    \/ (Expire \/ Store) /\ UNCHANGED chatting
    \/ \E p \in Pages : Reset(p)

CSpec == CInit /\ [][CNext]_cvars

-----------------------------------------------------------------------------
(* Properties                                                              *)

\* A call by which the model reads the graph with a text of its own.
OwnAggregation(call) == call.tool = "ContractSearch" /\ call.params.custom

\* What the tools tell a run: after a reply the answers to its calls so far, each
\* once and in their order (but for calls of no tool there is), of the tenant
\* of the page's user and the contract it selected, whatever else the model
\* asked, but for its own aggregations.
ToolMessagesAnswerTheirCalls ==
    \A c \in Callers : run[c] # Nothing =>
        LET r == run[c]
            said == Said(r)
            ReplyOf(i) == CHOOSE j \in 1..i - 1 :
                            said[j].by = "ai" /\ \A k \in j + 1..i - 1 : said[k].by # "ai"
        IN  \A i \in DOMAIN said : said[i].by = "tool" =>
                LET reply == ReplyOf(i)
                    calls == said[reply].calls
                IN  /\ \A j \in 1..said[i].of : \/ calls[j].tool = "unknown"
                                                \/ \E k \in reply + 1..i : said[k].of = j
                    /\ \A k \in reply + 1..i - 1 : said[k].of < said[i].of
                    /\ calls[said[i].of].tool # "MCP tool" /\ ~OwnAggregation(calls[said[i].of]) =>
                         \A part \in Range(said[i].answer.parts) :
                            \A item \in Range(part.items) :
                               /\ item.row.tenant = TenantOf[r.page]
                               /\ (calls[said[i].of].tool = "EnhancedContractSearch"
                                   /\ r.contract # Nothing) => item.row.contract = r.contract

=============================================================================
