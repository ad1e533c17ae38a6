----------------------------- MODULE AgentGraph -----------------------------
(***************************************************************************)
(* One chat request: the agent graph (app/agent/graph.py) over the tools   *)
(* (app/agent/tools.py), the answer loop (app/rag/answer.py) and the trace *)
(* that ends it (app/api/chat.py), all in the request's one transaction.   *)
(* The model is the environment: it plans any tools and writes any answer, *)
(* or fails, and the database may refuse any statement.                    *)
(***************************************************************************)
EXTENDS Integers, Sequences, FiniteSets

CONSTANTS
  Calls,              \* tool calls with their arguments, as a plan may hold them
  ToolOf,             \* the tool each call names
  Plans,              \* bound: the plans the model may return
  MaxToolCalls,       \* settings.max_tool_calls
  MaxSameToolCalls,   \* settings.max_same_tool_calls
  MaxRetries,         \* settings.max_answer_retries
  FirstSize,          \* chunks in the first context
  BroadSize,          \* chunks in the context of a retry
  MaxMark             \* bound: the largest n of a citation [Sn]

Tools == {"search_documents", "query_database", "calculate", "call_internal_api",
          "escalate_to_human"}
Guarded == {"query_database", "call_internal_api"}   \* requires_roles(...)
Audited == {"query_database", "escalate_to_human"}   \* write to audit_log when they go through

Replies == [cited : SUBSET (0..MaxMark), leak : BOOLEAN]

ASSUME AgentAssumption ==
  /\ ToolOf \in [Calls -> Tools \cup {"unknown"}]
  /\ Plans \subseteq Seq(Calls)
  /\ MaxToolCalls \in Nat /\ MaxSameToolCalls \in Nat /\ MaxRetries \in Nat
  /\ FirstSize \in Nat \ {0} /\ BroadSize \in Nat \ {0} /\ MaxMark \in Nat

VARIABLES
  node,         \* where the graph is; within generate: at the answer or at its judge
  intent,       \* what understand made of the question
  queries,      \* queries of the state: the question, and rephrasings of it
  searched,     \* the ones a search was made for
  authorized,   \* whether the user holds a role that the guarded tools ask for
  retrieval,    \* result.candidates: none retrieved, none found, below or above the threshold
  planned,      \* the model was asked for a plan
  plan,         \* its answer
  next,         \* the call of the plan that is due
  made,         \* calls_made
  results,      \* tool_results
  late,         \* max_wall_clock_seconds have passed
  txOk,         \* the transaction takes further statements
  audits,       \* the results with a row in audit_log
  attempt,      \* generate_answer: retries so far
  context,      \* which chunks _citations_from and verify_egress go by
  shown,        \* which chunks the model was given
  reply,        \* what the model wrote
  answer,       \* answer, citations, refused, hallucination_flag of the state
  stopReason,   \* stop_reason of the state
  trace         \* the stop_reason of the traces row, "none" without one

graphVars == <<intent, queries, searched, authorized, retrieval>>
toolVars == <<planned, plan, next, made, results>>
answerVars == <<attempt, context, shown, reply>>
vars == <<node, graphVars, toolVars, late, txOk, audits, answerVars, answer, stopReason, trace>>

-----------------------------------------------------------------------------
Intents == {"knowledge", "data", "hybrid", "chitchat"}
Statuses == {"ok", "blocked", "failed", "empty"}
StopReasons == {"running", "completed", "tool_budget_exceeded", "wall_clock_exceeded", "no_context",
                "blocked", "below_threshold", "egress_violation", "no_citations"}
Ended == {"done", "failed"}

\* ran: the call returned; barred: for want of a role; late: it ended past the deadline.
Result == [call : Calls, status : Statuses, ran : BOOLEAN, barred : BOOLEAN, late : BOOLEAN]
Answer == [refused : BOOLEAN, cited : SUBSET (0..MaxMark), flagged : BOOLEAN,
           parts : SUBSET {"model", "tools"}]

NoReply == [cited |-> {}, leak |-> FALSE]
NoAnswer == [refused |-> FALSE, cited |-> {}, flagged |-> FALSE, parts |-> {}]

\* The answer, citations and flags of a refusal: REFUSAL_TEXT or another fixed sentence.
\* It is not the whole response, see DataSent.
Refusal(flag) == [refused |-> TRUE, cited |-> {}, flagged |-> flag, parts |-> {}]

Size(which) == IF which = "first" THEN FirstSize ELSE BroadSize

Remaining == MaxToolCalls            \* plan_tools runs once, with tool_calls = 0
CallsDue == next <= Len(plan) /\ next <= Remaining

\* Mutant of Seen: a signature is counted once its call returned.
SeenReturned ==
  1 + Cardinality({i \in DOMAIN results : results[i].call = plan[next] /\ results[i].ran})

\* How often the due call stands in the plan up to here: seen[signature] in the code.
Seen == Cardinality({i \in 1..next : plan[i] = plan[next]})

Init ==
  /\ node = "understand"
  /\ intent = "knowledge"
  /\ queries = {} /\ searched = {}
  /\ authorized \in BOOLEAN
  /\ retrieval = "none"
  /\ planned = FALSE /\ plan = <<>> /\ next = 1 /\ made = 0 /\ results = <<>>
  /\ late = FALSE /\ txOk = TRUE /\ audits = {}
  /\ attempt = 0 /\ context = "first" /\ shown = "first" /\ reply = NoReply
  /\ answer = NoAnswer /\ stopReason = "running" /\ trace = "none"

\* An exception leaves the graph: get_conn rolls back, the client gets a 500.
Fail ==
  /\ node' = "failed"
  /\ audits' = {}
  /\ UNCHANGED <<graphVars, toolVars, late, txOk, answerVars, answer, stopReason, trace>>

-----------------------------------------------------------------------------
(* understand, route, retrieve, extract_policy                             *)

Route(what) ==
  CASE what = "data" -> "plan_tools" [] what = "hybrid" -> "retrieve_for_hybrid"
    [] what = "chitchat" -> "generate" [] OTHER -> "retrieve"

\* A failing model counts as the intent `knowledge` and the question alone.
Understand(what, rephrased) ==
  /\ node = "understand"
  /\ intent' = what
  /\ queries' = {"question"} \cup rephrased
  /\ node' = Route(what)
  /\ UNCHANGED <<searched, authorized, retrieval, toolVars, late, txOk, audits, answerVars,
                 answer, stopReason, trace>>

\* A reply of the model that is JSON, but not of the shape it was asked for.
UnreadableReply ==
  /\ node = "understand" \/ (node = "plan_tools" /\ ~late /\ MaxToolCalls > 0)
  /\ Fail

\* use_understanding=False: the pipeline searches for the question alone.
Retrieve(what) ==
  /\ node \in {"retrieve", "retrieve_for_hybrid"}
  /\ retrieval' = what
  /\ searched' = {"question"}
  /\ node' = IF node = "retrieve" THEN "generate" ELSE "extract_policy"
  /\ UNCHANGED <<intent, queries, authorized, toolVars, late, txOk, audits, answerVars, answer,
                 stopReason, trace>>

RetrievalRaises == node \in {"retrieve", "retrieve_for_hybrid"} /\ Fail

\* The thresholds found in the chunks go to the planning prompt only.
ExtractPolicy ==
  /\ node = "extract_policy"
  /\ node' = "plan_tools"
  /\ UNCHANGED <<graphVars, toolVars, late, txOk, audits, answerVars, answer, stopReason, trace>>

-----------------------------------------------------------------------------
(* plan_tools                                                              *)

StopEarly ==
  /\ node = "plan_tools"
  /\ late \/ MaxToolCalls = 0
  /\ stopReason' = IF MaxToolCalls = 0 THEN "tool_budget_exceeded" ELSE "wall_clock_exceeded"
  /\ node' = "generate"
  /\ UNCHANGED <<graphVars, toolVars, late, txOk, audits, answerVars, answer, trace>>

\* A failing model counts as an empty plan.
MakePlan(p) ==
  /\ node = "plan_tools"
  /\ ~late /\ MaxToolCalls > 0
  /\ planned' = TRUE
  /\ plan' = p
  /\ node' = "call_tools"
  /\ UNCHANGED <<graphVars, next, made, results, late, txOk, audits, answerVars, answer,
                 stopReason, trace>>

Tool == ToolOf[plan[next]]
UsesDatabase ==
  \/ Tool \in {"search_documents", "query_database", "escalate_to_human"}
  \/ Tool \in Guarded /\ ~authorized

Outcome(status, ran, barred) ==
  [call |-> plan[next], status |-> status, ran |-> ran, barred |-> barred, late |-> late]

\* A call that was not made, or raised: it does not count, and the loop goes on.
Skip(status) ==
  /\ results' = Append(results, Outcome(status, FALSE, FALSE))
  /\ next' = next + 1
  /\ UNCHANGED <<node, graphVars, planned, plan, made, late, audits, answerVars, answer,
                 stopReason, trace>>

\* A call that returned; the budgets are checked after it.
Count(status, barred) ==
  /\ results' = Append(results, Outcome(status, TRUE, barred))
  /\ next' = next + 1
  /\ made' = made + 1
  /\ node' = IF made + 1 >= MaxToolCalls \/ late THEN "generate" ELSE "call_tools"
  /\ UNCHANGED <<graphVars, planned, plan, late, txOk, answerVars, answer, stopReason, trace>>

Due(tool) == node = "call_tools" /\ CallsDue /\ Tool = tool

UnknownTool == Due("unknown") /\ Skip("failed") /\ UNCHANGED txOk

RepeatedTool ==
  /\ node = "call_tools" /\ CallsDue /\ Tool # "unknown"
  /\ Seen > MaxSameToolCalls
  /\ Skip("blocked")
  /\ UNCHANGED txOk

Allowed(tool) == Due(tool) /\ Seen <= MaxSameToolCalls

\* requires_roles, or the roles of one catalog query: refused, with an audit row.
BarredTool ==
  /\ \E tool \in Guarded : Allowed(tool)
  /\ authorized => Tool = "query_database"
  /\ txOk
  /\ Count("blocked", TRUE)
  /\ audits' = audits \cup {Len(results) + 1}

\* Wrong arguments or any other exception; one of the database's own ends the transaction.
ToolRaises ==
  /\ \E tool \in Tools : Allowed(tool)
  /\ txOk' \in IF UsesDatabase THEN {txOk, FALSE} ELSE {txOk}
  /\ Skip("failed")

\* `blocked`, from call_internal_api, says that the endpoint is not an approved one.
Returns(tool) ==
  CASE tool = "search_documents" -> {"ok", "empty"}
    [] tool = "query_database" -> {"ok", "empty"}
    [] tool = "calculate" -> {"ok", "failed"}
    [] tool = "call_internal_api" -> {"ok", "blocked"}
    [] tool = "escalate_to_human" -> {"ok"}

ToolReturns(status) ==
  /\ \E tool \in Tools : Allowed(tool)
  /\ Tool \in Guarded => authorized
  /\ status \in Returns(Tool)
  /\ UsesDatabase => txOk
  /\ Count(status, FALSE)
  /\ audits' = IF Tool \in Audited THEN audits \cup {Len(results) + 1} ELSE audits

\* query_database before any SQL: no such query, or parameters that do not validate.
QueryRejected ==
  /\ Allowed("query_database")
  /\ authorized
  /\ Count("failed", FALSE)
  /\ UNCHANGED audits

PlanExhausted ==
  /\ node = "call_tools" /\ ~CallsDue
  /\ node' = "generate"
  /\ UNCHANGED <<graphVars, toolVars, late, txOk, audits, answerVars, answer, stopReason, trace>>

CallTool ==
  \/ UnknownTool \/ RepeatedTool \/ BarredTool \/ ToolRaises \/ QueryRejected \/ PlanExhausted
  \/ \E status \in Statuses : ToolReturns(status)

-----------------------------------------------------------------------------
(* generate: from the tools alone, or by generate_answer                   *)

\* node_generate returns; finalize leaves every stop_reason but `running` as it is.
Give(what, why) ==
  /\ answer' = what
  /\ stopReason' = why
  /\ node' = "finalize"
  /\ UNCHANGED <<graphVars, toolVars, late, txOk, audits, trace>>

NoContext ==
  /\ node = "generate" /\ retrieval \in {"none", "empty"} /\ results = <<>>
  /\ Give(Refusal(FALSE), "no_context")
  /\ UNCHANGED answerVars

Have(status) == \E i \in DOMAIN results : results[i].status = status

\* _render_tool_results: results of the other tools that went well leave no line.
Rendered ==
  \E i \in DOMAIN results :
    results[i].status = "ok" => ToolOf[results[i].call] \in {"query_database", "calculate"}

AnswerFromTools ==
  /\ node = "generate" /\ retrieval \in {"none", "empty"} /\ results # <<>>
  /\ IF Have("blocked") /\ ~Have("ok")
     THEN Give(Refusal(FALSE), "blocked")
     ELSE Give([refused |-> ~Rendered, cited |-> {}, flagged |-> FALSE,
                parts |-> IF Rendered THEN {"tools"} ELSE {}], "completed")
  /\ UNCHANGED answerVars

BelowThreshold ==
  /\ node = "generate" /\ retrieval = "below"
  /\ Give(Refusal(FALSE), "below_threshold")
  /\ UNCHANGED answerVars

StartAnswer ==
  /\ node = "generate" /\ retrieval = "above"
  /\ node' = "answer"
  /\ UNCHANGED <<graphVars, toolVars, late, txOk, audits, answerVars, answer, stopReason, trace>>

\* Mutant of EgressOk: counts the chunks of the broad context from the start.
CountsBroad(r) == ~r.leak /\ r.cited \subseteq 1..BroadSize

\* verify_egress: no invented citation and no marker of a leak.
EgressOk(r) == ~r.leak /\ r.cited \subseteq 1..Size(context)

\* The block is built anew from the context in each round, and the model writes.
Write(r) ==
  /\ node = "answer" /\ EgressOk(r)
  /\ shown' = context
  /\ reply' = r
  /\ node' = "judge"
  /\ UNCHANGED <<graphVars, toolVars, late, txOk, audits, attempt, context, answer, stopReason, trace>>

\* An answer that fails verify_egress: once more with the broad context, then a refusal.
WriteBadly(r) ==
  /\ node = "answer" /\ ~EgressOk(r)
  /\ shown' = context
  /\ reply' = r
  /\ attempt' = attempt + 1
  /\ IF attempt + 1 <= MaxRetries
     THEN /\ context' = "broad"
          /\ UNCHANGED <<node, graphVars, toolVars, late, txOk, audits, answer, stopReason, trace>>
     ELSE Give(Refusal(TRUE), "egress_violation") /\ UNCHANGED context

\* The gateway raises: both models failed, or the quota is used up.
GenerationRaises == node = "answer" /\ Fail

\* Mutant of AskAgain: the round is not counted.
AsksForever(verdict) ==
  /\ node = "judge" /\ verdict = "low" /\ attempt < MaxRetries
  /\ node' = "answer"
  /\ UNCHANGED <<graphVars, toolVars, late, txOk, audits, answerVars, answer, stopReason, trace>>

\* check_groundedness: `low` is below min_groundedness, `unchecked` a judge that failed.
AskAgain(verdict) ==
  /\ node = "judge" /\ verdict = "low" /\ attempt < MaxRetries
  /\ attempt' = attempt + 1
  /\ node' = "answer"
  /\ UNCHANGED <<graphVars, toolVars, late, txOk, audits, context, shown, reply, answer,
                 stopReason, trace>>

\* Mutant of NoCitations: the tools' results are appended to a refusal too.
RefusesWithTools(verdict) ==
  /\ node = "judge" /\ ~(verdict = "low" /\ attempt < MaxRetries)
  /\ reply.cited = {}
  /\ Give([Refusal(FALSE) EXCEPT !.parts = IF results = <<>> THEN {} ELSE {"tools"}], "no_citations")
  /\ UNCHANGED answerVars

NoCitations(verdict) ==
  /\ node = "judge" /\ ~(verdict = "low" /\ attempt < MaxRetries)
  /\ reply.cited = {}
  /\ Give(Refusal(FALSE), "no_citations")
  /\ UNCHANGED answerVars

\* _citations_from keeps the markers that lie within the context.
Serve(verdict) ==
  /\ node = "judge" /\ ~(verdict = "low" /\ attempt < MaxRetries)
  /\ reply.cited # {}
  /\ Give([refused |-> FALSE, cited |-> reply.cited \cap (1..Size(context)),
           flagged |-> (verdict = "low"),
           parts |-> {"model"} \cup (IF results = <<>> THEN {} ELSE {"tools"})], "completed")
  /\ UNCHANGED answerVars

Judge(verdict) == AskAgain(verdict) \/ NoCitations(verdict) \/ Serve(verdict)

-----------------------------------------------------------------------------
(* finalize, _save_trace and the commit                                    *)

Finalize ==
  /\ node = "finalize"
  /\ stopReason' = IF stopReason = "running" THEN "completed" ELSE stopReason
  /\ node' = "save"
  /\ UNCHANGED <<graphVars, toolVars, late, txOk, audits, answerVars, answer, trace>>

\* Mutant of SaveTrace: the trace goes over a connection of its own.
SavesAnyway ==
  /\ node = "save"
  /\ trace' = stopReason
  /\ node' = "done"
  /\ UNCHANGED <<graphVars, toolVars, late, txOk, audits, answerVars, answer, stopReason>>

SaveTrace ==
  /\ node = "save" /\ txOk
  /\ trace' = stopReason
  /\ node' = "done"
  /\ UNCHANGED <<graphVars, toolVars, late, txOk, audits, answerVars, answer, stopReason>>

\* The INSERT or the COMMIT is refused; always after an error of an earlier statement.
SaveRaises == node = "save" /\ Fail

\* max_wall_clock_seconds pass.
TimePasses ==
  /\ ~late /\ node \notin Ended
  /\ late' = TRUE
  /\ UNCHANGED <<node, graphVars, toolVars, txOk, audits, answerVars, answer, stopReason, trace>>

Step ==
  \/ \E what \in Intents, rephrased \in SUBSET {"rephrasing"} : Understand(what, rephrased)
  \/ UnreadableReply
  \/ \E what \in {"empty", "below", "above"} : Retrieve(what)
  \/ RetrievalRaises \/ ExtractPolicy
  \/ StopEarly
  \/ \E p \in Plans : MakePlan(p)
  \/ CallTool
  \/ NoContext \/ AnswerFromTools \/ BelowThreshold \/ StartAnswer
  \/ \E r \in Replies : Write(r) \/ WriteBadly(r)
  \/ GenerationRaises
  \/ \E verdict \in {"high", "low", "unchecked"} : Judge(verdict)
  \/ Finalize \/ SaveTrace \/ SaveRaises

\* ChatResponse.tools_called: all the results go out beside the answer, refused or not, and
\* those that are `ok` with their data; the others have none, or an empty list.
DataSent(tool) ==
  {i \in DOMAIN results : results[i].status = "ok" /\ ToolOf[results[i].call] = tool}

Finished == node \in Ended /\ UNCHANGED vars

Next == Step \/ TimePasses \/ Finished

Spec == Init /\ [][Next]_vars

\* Every await of the request returns: model calls and statements have timeouts.
FairSpec == Spec /\ WF_vars(Step)

-----------------------------------------------------------------------------
(* Properties                                                              *)

\* Every variable keeps to its set, and one result stands for each call dealt with.
TypeOK ==
  /\ node \in {"understand", "retrieve", "retrieve_for_hybrid", "extract_policy", "plan_tools",
               "call_tools", "generate", "answer", "judge", "finalize", "save"} \cup Ended
  /\ intent \in Intents
  /\ queries \subseteq {"question", "rephrasing"} /\ searched \subseteq {"question", "rephrasing"}
  /\ authorized \in BOOLEAN
  /\ retrieval \in {"none", "empty", "below", "above"}
  /\ planned \in BOOLEAN /\ plan \in Plans \cup {<<>>}
  /\ results \in Seq(Result) /\ next = Len(results) + 1
  /\ Len(results) <= Len(plan)
  /\ made = Cardinality({i \in DOMAIN results : results[i].ran})
  /\ late \in BOOLEAN /\ txOk \in BOOLEAN /\ audits \subseteq DOMAIN results
  /\ attempt \in 0..(MaxRetries + 1)
  /\ context \in {"first", "broad"} /\ shown \in {"first", "broad"}
  /\ reply \in Replies
  /\ answer \in Answer
  /\ stopReason \in StopReasons
  /\ trace \in StopReasons \cup {"none"}

\* The result stands for a call that reached its tool: it returned or it raised.
Reached(i) ==
  results[i].ran \/ (results[i].status = "failed" /\ ToolOf[results[i].call] # "unknown")

\* No plan makes the agent call more than max_tool_calls tools, or one tool with the same
\* arguments more than max_same_tool_calls times, failures included (plan_tools).
ToolLimits ==
  /\ Len(results) <= MaxToolCalls
  /\ \A c \in Calls :
       Cardinality({i \in DOMAIN results : results[i].call = c /\ Reached(i)}) <= MaxSameToolCalls

\* An answer of the model that is given to the user carries no leak, cites something, and
\* cites only chunks the model was given when it wrote that text, whatever context the
\* retries went through; and no chunk was below the threshold (generate_answer).
ServedAnswerVerified ==
  "model" \in answer.parts =>
    /\ retrieval = "above"
    /\ ~reply.leak
    /\ reply.cited # {} /\ answer.cited = reply.cited
    /\ reply.cited \subseteq 1..Size(shown)

DocumentRefusals == {"below_threshold", "egress_violation", "no_citations"}

\* A refusal says nothing: its text holds no citation, nothing of the model's and none of the
\* tools' results, whichever exit of node_generate and generate_answer it comes from.  The
\* response lists the tools' results beside it, and rows of the database are among them only if
\* it was the answer from the documents that was refused: a refusal because all tools were
\* blocked, or for want of any context, goes out with no data at all, and no other refusal of
\* _answer_from_tools hides rows of a query or a computed value.  A stop_reason that names a
\* refusal stands on refusals only.
RefusalIsBare ==
  /\ answer.refused => answer.parts = {} /\ answer.cited = {}
  /\ answer.refused /\ stopReason \notin DocumentRefusals =>
       DataSent("query_database") = {} /\ DataSent("calculate") = {}
  /\ stopReason \in {"no_context", "blocked"} =>
       answer.refused /\ \A tool \in Tools : DataSent(tool) = {}
  /\ stopReason \in DocumentRefusals => answer.refused

\* What tool result i should have left in audit_log: a refusal, a query, an escalation.
Accountable(i) ==
  results[i].barred
    \/ (ToolOf[results[i].call] \in Audited /\ results[i].status \in {"ok", "empty"})

\* The trace and the audit rows stand or fall together: a request that ended well has its
\* trace and a row for each accountable call, one that failed has neither, and no error
\* a tool swallowed lets a half of them commit.
TraceAndAuditsTogether ==
  /\ node = "done" => /\ txOk /\ trace = stopReason /\ trace # "running"
                      /\ audits = {i \in DOMAIN results : Accountable(i)}
  /\ node = "failed" => trace = "none" /\ audits = {}

\* Every request ends, whatever the model plans, writes and judges (FairSpec).
Terminates == <>(node \in Ended)

-----------------------------------------------------------------------------
(* What the docs and comments say, and the code does not do                *)

\* Calls of the plan were left out for the budget or the clock.
CutShort ==
  IF planned THEN Len(results) < Len(plan) ELSE intent \in {"data", "hybrid"}

\* graph.py:15-17: stop_reason gets a searchable value when a limit stops the tools.
BudgetStopIsRecorded ==
  node = "done" /\ CutShort => trace \in {"tool_budget_exceeded", "wall_clock_exceeded"}

\* graph.py:15-16: the limits are enforced wherever a tool is invoked: once a call has ended
\* past the deadline, no other is made.
DeadlineStopsCalls ==
  \A i, j \in DOMAIN results : i < j /\ Reached(i) /\ Reached(j) => ~results[i].late

\* ADR 0002: every blocked access is written to audit_log.
BarredCallIsRecorded ==
  node \in Ended => \A i \in DOMAIN results : results[i].barred => i \in audits

\* graph.py:116 and traces.rewritten_queries: the rephrasings made in `understand` are what
\* is searched for.
TracedQueriesWereSearched == node = "done" /\ searched # {} => searched = queries

=============================================================================
