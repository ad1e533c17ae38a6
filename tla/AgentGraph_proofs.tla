-------------------------- MODULE AgentGraph_proofs --------------------------
(***************************************************************************)
(* Proofs about AgentGraph: types, the limits on tool calls, what an       *)
(* answer or a refusal may hold, and that the trace and the audit rows     *)
(* stand or fall together; for any tools, plans, limits and replies.       *)
(***************************************************************************)
EXTENDS AgentGraph, FiniteSetTheorems, SequenceTheorems, TLAPS

Ran == {i \in DOMAIN results : results[i].ran}
Accounted == {i \in DOMAIN results : Accountable(i)}
CallsReached(c) == {i \in DOMAIN results : results[i].call = c /\ Reached(i)}

\* The results stand, in order, for the first calls of the plan.
Tooling ==
  /\ plan \in Plans \cup {<<>>}
  /\ results \in Seq(Result) /\ next = Len(results) + 1
  /\ Len(results) <= Len(plan)
  /\ made = Cardinality(Ran)
  /\ \A i \in DOMAIN results : results[i].call = plan[i]
  /\ ToolLimits

\* The other variables.
Typed ==
  /\ node \in {"understand", "retrieve", "retrieve_for_hybrid", "extract_policy", "plan_tools",
               "call_tools", "generate", "answer", "judge", "finalize", "save"} \cup Ended
  /\ intent \in Intents
  /\ queries \subseteq {"question", "rephrasing"} /\ searched \subseteq {"question", "rephrasing"}
  /\ authorized \in BOOLEAN
  /\ retrieval \in {"none", "empty", "below", "above"}
  /\ planned \in BOOLEAN
  /\ late \in BOOLEAN /\ txOk \in BOOLEAN
  /\ attempt \in 0..(MaxRetries + 1)
  /\ context \in {"first", "broad"} /\ shown \in {"first", "broad"}
  /\ reply \in Replies
  /\ answer \in Answer
  /\ stopReason \in StopReasons
  /\ trace \in StopReasons \cup {"none"}

Unplanned == {"understand", "retrieve", "retrieve_for_hybrid", "extract_policy", "plan_tools"}
Unanswered == Unplanned \cup {"call_tools", "generate", "answer", "judge"}

\* What the nodes know of what went before them.
Placed ==
  /\ node \in Unplanned => results = <<>>
  /\ node \in Unanswered =>
       /\ answer = NoAnswer /\ attempt <= MaxRetries
       /\ stopReason \in {"running", "tool_budget_exceeded", "wall_clock_exceeded"}
  /\ node \in {"answer", "judge"} => retrieval = "above"
  /\ node = "judge" => EgressOk(reply) /\ shown = context
  /\ node = "save" => stopReason # "running"

\* The rows of the transaction, and the trace as the last of them.
Booked ==
  /\ node = "done" => txOk /\ trace = stopReason /\ trace # "running"
  /\ node # "done" => trace = "none"
  /\ audits = IF node = "failed" THEN {} ELSE Accounted

Inv == Tooling /\ Typed /\ Placed /\ Booked /\ ServedAnswerVerified /\ RefusalIsBare

-----------------------------------------------------------------------------
(* Tool calls                                                              *)

LEMMA ResultsKept ==
  ASSUME UNCHANGED results
  PROVE  /\ Ran' = Ran /\ Accounted' = Accounted
         /\ ToolLimits <=> ToolLimits'
BY DEF Ran, Accounted, Accountable, ToolLimits, Reached

LEMMA ToolingKept ==
  ASSUME Tooling, UNCHANGED <<plan, next, made, results>>
  PROVE  Tooling'
BY ResultsKept DEF Tooling

LEMMA NoneYet ==
  ASSUME results = <<>>
  PROVE  Ran = {} /\ Accounted = {} /\ ToolLimits
<1>1. DOMAIN results = {}
  OBVIOUS
<1>2. \A c \in Calls : {i \in DOMAIN results : results[i].call = c /\ Reached(i)} = {}
  BY <1>1
<1>3. Len(results) = 0
  OBVIOUS
<1> QED BY <1>1, <1>2, <1>3, FS_EmptySet, AgentAssumption DEF Ran, Accounted, ToolLimits

\* One more result: what the sets of results become, and the limits if the call was made only
\* after as many of its kind as are allowed.
LEMMA ResultAppended ==
  ASSUME Tooling, CallsDue,
         NEW r \in Result, r.call = plan[next],
         results' = Append(results, r), next' = next + 1, UNCHANGED plan,
         r.ran \/ (r.status = "failed" /\ Tool # "unknown") => Seen <= MaxSameToolCalls,
         made' = IF r.ran THEN made + 1 ELSE made
  PROVE  /\ Tooling'
         /\ Accounted' = IF \/ r.barred
                            \/ Tool \in Audited /\ r.status \in {"ok", "empty"}
                         THEN Accounted \cup {next} ELSE Accounted
<1>1. /\ Len(results) \in Nat /\ DOMAIN results = 1..Len(results)
      /\ next = Len(results) + 1 /\ next <= Len(plan) /\ next <= MaxToolCalls
  BY LenProperties DEF Tooling, CallsDue, Remaining
<1>2. /\ results' \in Seq(Result) /\ Len(results') = next
      /\ DOMAIN results' = DOMAIN results \cup {next} /\ next \notin DOMAIN results
      /\ \A i \in DOMAIN results : results'[i] = results[i]
      /\ results'[next] = r
  BY <1>1, AppendProperties DEF Tooling
<1>3. Ran' = IF r.ran THEN Ran \cup {next} ELSE Ran
  BY <1>2 DEF Ran
<1>4. Accounted' = IF r.barred \/ (Tool \in Audited /\ r.status \in {"ok", "empty"})
                   THEN Accounted \cup {next} ELSE Accounted
  BY <1>2 DEF Accounted, Accountable, Tool
<1>5. made' = Cardinality(Ran')
  <2>1. IsFiniteSet(Ran)
    <3>1. Ran \subseteq 1..Len(results)
      BY <1>1 DEF Ran
    <3>2. IsFiniteSet(1..Len(results))
      BY <1>1, FS_Interval
    <3> QED BY <3>1, <3>2, FS_Subset
  <2>2. next \notin Ran
    BY <1>2 DEF Ran
  <2>3. Cardinality(Ran \cup {next}) = Cardinality(Ran) + 1
    BY <2>1, <2>2, FS_AddElement
  <2> QED BY <1>3, <2>3 DEF Tooling
<1>6. \A i \in DOMAIN results' : results'[i].call = plan'[i]
  BY <1>2 DEF Tooling
<1>7. ASSUME NEW c \in Calls
      PROVE  Cardinality(CallsReached(c)') <= MaxSameToolCalls
  <2>1. CallsReached(c)' = IF /\ r.call = c
                              /\ r.ran \/ (r.status = "failed" /\ Tool # "unknown")
                           THEN CallsReached(c) \cup {next} ELSE CallsReached(c)
    BY <1>2 DEF CallsReached, Reached, Tool
  <2>2. Cardinality(CallsReached(c)) <= MaxSameToolCalls
    BY DEF Tooling, ToolLimits, CallsReached
  <2>3. CASE r.call = c /\ (r.ran \/ (r.status = "failed" /\ Tool # "unknown"))
    <3> DEFINE same == {i \in 1..next : plan[i] = plan[next]}
    <3>1. IsFiniteSet(same)
      <4>1. same \subseteq 1..next
        OBVIOUS
      <4> QED BY <4>1, <1>1, FS_Interval, FS_Subset
    <3>2. CallsReached(c) \cup {next} \subseteq same
      <4>1. \A i \in CallsReached(c) : i \in 1..Len(results) /\ plan[i] = c
        BY <1>1 DEF CallsReached, Tooling
      <4>2. plan[next] = c /\ Len(results) < next
        BY <1>1, <2>3
      <4> QED BY <1>1, <4>1, <4>2
    <3>3. /\ Cardinality(CallsReached(c) \cup {next}) <= Cardinality(same)
          /\ Cardinality(CallsReached(c) \cup {next}) \in Nat /\ Cardinality(same) \in Nat
      BY <3>1, <3>2, FS_Subset, FS_CardinalityType
    <3>4. Cardinality(same) <= MaxSameToolCalls
      BY <2>3 DEF Seen
    <3> QED BY <2>1, <2>3, <3>3, <3>4, AgentAssumption
  <2> QED BY <2>1, <2>2, <2>3
<1>8. ToolLimits'
  BY <1>1, <1>2, <1>7 DEF ToolLimits, CallsReached
<1> QED BY <1>1, <1>2, <1>4, <1>5, <1>6, <1>8 DEF Tooling

\* The call that is due names a tool that there is, or none.
LEMMA DueCall ==
  ASSUME Tooling, CallsDue
  PROVE  plan[next] \in Calls /\ Tool \in Tools \cup {"unknown"}
<1>1. plan \in Seq(Calls)
  BY AgentAssumption, EmptySeq DEF Tooling
<1>2. next \in 1..Len(plan)
  BY LenProperties DEF Tooling, CallsDue
<1>3. plan[next] \in Calls
  BY <1>1, <1>2, ElementOfSeq
<1> QED BY <1>3, AgentAssumption DEF Tool

\* What was given stays as bare as it was, and as long as nothing was there is nothing to be bare.
LEMMA StillBare ==
  ASSUME RefusalIsBare, UNCHANGED <<answer, stopReason, results>>
  PROVE  RefusalIsBare'
BY DEF RefusalIsBare, DataSent

LEMMA BareSoFar ==
  ASSUME Placed, node \in Unanswered, UNCHANGED <<answer, stopReason>>
  PROVE  RefusalIsBare'
<1>1. answer'.refused = FALSE
  BY DEF Placed, NoAnswer
<1>2. stopReason' \in {"running", "tool_budget_exceeded", "wall_clock_exceeded"}
  BY DEF Placed
<1> QED BY <1>1, <1>2 DEF RefusalIsBare, DocumentRefusals

LEMMA SkipKeeps ==
  ASSUME Inv, node = "call_tools", CallsDue,
         NEW status \in {"failed", "blocked"}, Skip(status),
         status = "failed" /\ Tool # "unknown" => Seen <= MaxSameToolCalls,
         txOk' \in BOOLEAN
  PROVE  Inv'
<1> DEFINE r == Outcome(status, FALSE, FALSE)
<1>1. r \in Result /\ r.call = plan[next] /\ ~r.ran /\ ~r.barred /\ r.status = status
  BY DueCall DEF Inv, Typed, Outcome, Result, Statuses
<1>2. /\ results' = Append(results, r) /\ next' = next + 1
      /\ UNCHANGED <<node, graphVars, planned, plan, made, late, audits, answerVars, answer,
                     stopReason, trace>>
  BY DEF Skip
<1> HIDE DEF r
<1>3. Tooling' /\ Accounted' = Accounted
  BY <1>1, <1>2, ResultAppended DEF Inv
<1>4. Typed'
  BY <1>2 DEF Inv, Typed, graphVars, answerVars
<1>5. Placed'
  BY <1>2 DEF Inv, Placed, Unplanned, Unanswered, EgressOk, Size, graphVars, answerVars
<1>6. Booked'
  BY <1>2, <1>3 DEF Inv, Booked
<1>7. ServedAnswerVerified' /\ RefusalIsBare'
  <2>1. node \in Unanswered
    BY DEF Unanswered
  <2>2. ServedAnswerVerified'
    BY <1>2 DEF Inv, ServedAnswerVerified, Size, graphVars, answerVars
  <2> QED BY <1>2, <2>1, <2>2, BareSoFar DEF Inv
<1> QED BY <1>3, <1>4, <1>5, <1>6, <1>7 DEF Inv

LEMMA CountKeeps ==
  ASSUME Inv, node = "call_tools", CallsDue, Seen <= MaxSameToolCalls,
         NEW status \in Statuses, NEW barred \in BOOLEAN, Count(status, barred),
         audits' = IF barred \/ (Tool \in Audited /\ status \in {"ok", "empty"})
                   THEN audits \cup {next} ELSE audits
  PROVE  Inv'
<1> DEFINE r == Outcome(status, TRUE, barred)
<1>1. r \in Result /\ r.call = plan[next] /\ r.ran /\ r.barred = barred /\ r.status = status
  BY DueCall DEF Inv, Typed, Outcome, Result
<1>2. /\ results' = Append(results, r) /\ next' = next + 1 /\ made' = made + 1
      /\ node' \in {"generate", "call_tools"}
      /\ UNCHANGED <<graphVars, planned, plan, late, txOk, answerVars, answer, stopReason, trace>>
  BY DEF Count
<1> HIDE DEF r
<1>3. /\ Tooling'
      /\ Accounted' = IF barred \/ (Tool \in Audited /\ status \in {"ok", "empty"})
                      THEN Accounted \cup {next} ELSE Accounted
  BY <1>1, <1>2, ResultAppended DEF Inv
<1>4. Typed'
  BY <1>2 DEF Inv, Typed, graphVars, answerVars
<1>5. Placed'
  BY <1>2 DEF Inv, Placed, Unplanned, Unanswered, graphVars, answerVars
<1>6. Booked'
  BY <1>2, <1>3 DEF Inv, Booked
<1>7. ServedAnswerVerified' /\ RefusalIsBare'
  <2>1. node \in Unanswered
    BY DEF Unanswered
  <2>2. ServedAnswerVerified'
    BY <1>2 DEF Inv, ServedAnswerVerified, Size, graphVars, answerVars
  <2> QED BY <1>2, <2>1, <2>2, BareSoFar DEF Inv
<1> QED BY <1>3, <1>4, <1>5, <1>6, <1>7 DEF Inv

LEMMA CallToolKeeps == Inv /\ CallTool => Inv'
<1> SUFFICES ASSUME Inv, CallTool PROVE Inv'
  OBVIOUS
<1>1. CASE UnknownTool
  <2>1. node = "call_tools" /\ CallsDue /\ Tool = "unknown" /\ Skip("failed") /\ txOk' = txOk
    BY <1>1 DEF UnknownTool, Due
  <2>2. txOk' \in BOOLEAN
    BY <2>1 DEF Inv, Typed
  <2> QED BY <2>1, <2>2, SkipKeeps
<1>2. CASE RepeatedTool
  <2>1. node = "call_tools" /\ CallsDue /\ Skip("blocked") /\ txOk' = txOk
    BY <1>2 DEF RepeatedTool
  <2>2. txOk' \in BOOLEAN
    BY <2>1 DEF Inv, Typed
  <2> QED BY <2>1, <2>2, SkipKeeps
<1>3. CASE BarredTool
  <2>1. /\ node = "call_tools" /\ CallsDue /\ Seen <= MaxSameToolCalls
        /\ Count("blocked", TRUE) /\ audits' = audits \cup {Len(results) + 1}
    BY <1>3 DEF BarredTool, Allowed, Due
  <2>2. Len(results) + 1 = next
    BY DEF Inv, Tooling
  <2> QED BY <2>1, <2>2, CountKeeps DEF Statuses
<1>4. CASE ToolRaises
  <2>1. node = "call_tools" /\ CallsDue /\ Seen <= MaxSameToolCalls /\ Skip("failed")
    BY <1>4 DEF ToolRaises, Allowed, Due
  <2>2. txOk' \in BOOLEAN
    BY <1>4 DEF ToolRaises, Inv, Typed
  <2> QED BY <2>1, <2>2, SkipKeeps
<1>5. CASE QueryRejected
  <2>1. /\ node = "call_tools" /\ CallsDue /\ Seen <= MaxSameToolCalls
        /\ Count("failed", FALSE) /\ audits' = audits
    BY <1>5 DEF QueryRejected, Allowed, Due
  <2> QED BY <2>1, CountKeeps DEF Statuses
<1>6. CASE PlanExhausted
  <2>1. /\ node = "call_tools" /\ node' = "generate"
        /\ UNCHANGED <<graphVars, toolVars, late, txOk, audits, answerVars, answer, stopReason,
                       trace>>
    BY <1>6 DEF PlanExhausted
  <2>2. Tooling' /\ Accounted' = Accounted
    BY <2>1, ToolingKept, ResultsKept DEF Inv, toolVars
  <2>3. Typed'
    BY <2>1 DEF Inv, Typed, graphVars, toolVars, answerVars
  <2>4. Placed'
    BY <2>1 DEF Inv, Placed, Unplanned, Unanswered, graphVars, answerVars
  <2>5. Booked'
    BY <2>1, <2>2 DEF Inv, Booked
  <2>6. ServedAnswerVerified' /\ RefusalIsBare'
    BY <2>1, StillBare DEF Inv, ServedAnswerVerified, Size, graphVars, answerVars, toolVars
  <2> QED BY <2>2, <2>3, <2>4, <2>5, <2>6 DEF Inv
<1>7. ASSUME NEW status \in Statuses, ToolReturns(status) PROVE Inv'
  <2>1. /\ node = "call_tools" /\ CallsDue /\ Seen <= MaxSameToolCalls
        /\ Count(status, FALSE) /\ Tool \in Tools /\ status \in Returns(Tool)
        /\ audits' = IF Tool \in Audited THEN audits \cup {Len(results) + 1} ELSE audits
    BY <1>7 DEF ToolReturns, Allowed, Due
  <2>2. Tool \in Audited => status \in {"ok", "empty"}
    BY <2>1 DEF Audited, Returns
  <2>3. Len(results) + 1 = next
    BY DEF Inv, Tooling
  <2> QED BY <2>1, <2>2, <2>3, CountKeeps
<1> QED BY <1>1, <1>2, <1>3, <1>4, <1>5, <1>6, <1>7 DEF CallTool

-----------------------------------------------------------------------------
(* The other steps                                                         *)

\* A step that calls no tool keeps what is known of the tools.
LEMMA QuietStep ==
  ASSUME Inv, UNCHANGED <<plan, next, made, results>>
  PROVE  Tooling' /\ Accounted' = Accounted
BY ToolingKept, ResultsKept DEF Inv

LEMMA FailKeeps == Inv /\ node \notin Ended /\ Fail => Inv'
<1> SUFFICES ASSUME Inv, node \notin Ended, Fail PROVE Inv'
  OBVIOUS
<1>1. /\ node' = "failed" /\ audits' = {}
      /\ UNCHANGED <<graphVars, toolVars, late, txOk, answerVars, answer, stopReason, trace>>
  BY DEF Fail
<1>2. Tooling'
  BY <1>1, QuietStep DEF toolVars
<1>3. Typed'
  BY <1>1 DEF Inv, Typed, Ended, graphVars, toolVars, answerVars
<1>4. Placed' /\ Booked'
  BY <1>1 DEF Inv, Placed, Booked, Unplanned, Unanswered, Ended
<1>5. ServedAnswerVerified' /\ RefusalIsBare'
  BY <1>1, StillBare DEF Inv, ServedAnswerVerified, Size, graphVars, answerVars, toolVars
<1> QED BY <1>2, <1>3, <1>4, <1>5 DEF Inv

\* The nodes before the answer but for the tools.
LEMMA EarlyKeeps ==
  ASSUME Inv,
         \/ \E what \in Intents, rephrased \in SUBSET {"rephrasing"} : Understand(what, rephrased)
         \/ \E what \in {"empty", "below", "above"} : Retrieve(what)
         \/ ExtractPolicy \/ StopEarly \/ StartAnswer
  PROVE  Inv'
<1>1. UNCHANGED <<authorized, toolVars, late, txOk, audits, answerVars, answer, trace>>
  BY DEF Understand, Retrieve, ExtractPolicy, StopEarly, StartAnswer, graphVars
<1>2. /\ node \in Unplanned \cup {"generate"}
      /\ node' \in Unplanned \cup {"generate"} \/ (node' = "answer" /\ retrieval' = "above")
      /\ node' \in Unplanned => node \in Unplanned
      /\ stopReason' \in {stopReason, "tool_budget_exceeded", "wall_clock_exceeded"}
      /\ intent' \in Intents
      /\ queries' \subseteq {"question", "rephrasing"}
      /\ searched' \subseteq {"question", "rephrasing"}
      /\ retrieval' \in {"none", "empty", "below", "above"}
  BY DEF Understand, Retrieve, ExtractPolicy, StopEarly, StartAnswer, Route, Intents, Unplanned,
     graphVars, Inv, Typed
<1>3. Tooling' /\ Accounted' = Accounted
  BY <1>1, QuietStep DEF toolVars
<1>4. Typed'
  BY <1>1, <1>2 DEF Inv, Typed, Unplanned, toolVars, answerVars, StopReasons
<1>5. Placed'
  BY <1>1, <1>2 DEF Inv, Placed, Unplanned, Unanswered, toolVars, answerVars
<1>6. Booked'
  BY <1>1, <1>2, <1>3 DEF Inv, Booked, Unplanned
<1>7. ServedAnswerVerified' /\ RefusalIsBare'
  <2>1. answer' = NoAnswer
    BY <1>1, <1>2 DEF Inv, Placed, Unanswered
  <2>2. stopReason' \in {"running", "tool_budget_exceeded", "wall_clock_exceeded"}
    BY <1>2 DEF Inv, Placed, Unanswered
  <2> QED BY <2>1, <2>2 DEF ServedAnswerVerified, RefusalIsBare, DocumentRefusals, NoAnswer
<1> QED BY <1>3, <1>4, <1>5, <1>6, <1>7 DEF Inv

LEMMA PlanKeeps ==
  ASSUME Inv, NEW p \in Plans, MakePlan(p)
  PROVE  Inv'
<1>1. /\ node = "plan_tools" /\ node' = "call_tools" /\ plan' = p /\ planned' = TRUE
      /\ UNCHANGED <<graphVars, next, made, results, late, txOk, audits, answerVars, answer,
                     stopReason, trace>>
  BY DEF MakePlan
<1>2. results = <<>>
  BY <1>1 DEF Inv, Placed, Unplanned
<1>3. Tooling'
  <2>1. Len(p) \in Nat
    BY AgentAssumption, LenProperties
  <2>2. ToolLimits' /\ Ran' = Ran
    BY <1>1, <1>2, NoneYet, ResultsKept
  <2> QED BY <1>1, <1>2, <2>1, <2>2 DEF Inv, Tooling
<1>4. Accounted' = Accounted
  BY <1>1, ResultsKept
<1>5. Typed'
  BY <1>1 DEF Inv, Typed, graphVars, answerVars
<1>6. Placed' /\ Booked'
  BY <1>1, <1>4 DEF Inv, Placed, Booked, Unplanned, Unanswered, answerVars
<1>7. ServedAnswerVerified' /\ RefusalIsBare'
  BY <1>1, StillBare DEF Inv, ServedAnswerVerified, Size, graphVars, answerVars
<1> QED BY <1>3, <1>4, <1>5, <1>6, <1>7 DEF Inv

\* A round of generate_answer that does not end it.
LEMMA RoundKeeps ==
  ASSUME Inv,
         \/ \E r \in Replies : Write(r) \/ (WriteBadly(r) /\ node' = "answer")
         \/ \E verdict \in {"high", "low", "unchecked"} : AskAgain(verdict)
  PROVE  Inv'
<1>1. /\ node \in {"answer", "judge"} /\ node' \in {"answer", "judge"}
      /\ UNCHANGED <<graphVars, toolVars, late, txOk, audits, answer, stopReason, trace>>
  BY DEF Write, WriteBadly, AskAgain, Give
<1>2. /\ context' \in {"first", "broad"} /\ shown' \in {"first", "broad"} /\ reply' \in Replies
      /\ attempt' \in 0..MaxRetries
      /\ node' = "judge" => EgressOk(reply)' /\ shown' = context'
  <2>1. ASSUME NEW r \in Replies, Write(r)
        PROVE  /\ UNCHANGED <<attempt, context>> /\ shown' = context /\ reply' = r
               /\ EgressOk(r)
    BY <2>1 DEF Write
  <2>2. ASSUME NEW r \in Replies, WriteBadly(r), node' = "answer"
        PROVE  /\ attempt' = attempt + 1 /\ attempt + 1 <= MaxRetries
               /\ context' = "broad" /\ shown' = context /\ reply' = r
    BY <2>2 DEF WriteBadly, Give
  <2>3. ASSUME NEW verdict \in {"high", "low", "unchecked"}, AskAgain(verdict)
        PROVE  /\ attempt' = attempt + 1 /\ attempt < MaxRetries /\ node' = "answer"
               /\ UNCHANGED <<context, shown, reply>>
    BY <2>3 DEF AskAgain
  <2>4. /\ attempt \in Nat /\ attempt <= MaxRetries /\ MaxRetries \in Nat
        /\ context \in {"first", "broad"} /\ shown \in {"first", "broad"} /\ reply \in Replies
    BY <1>1, AgentAssumption DEF Inv, Typed, Placed, Unanswered
  <2> QED BY <2>1, <2>2, <2>3, <2>4 DEF EgressOk, Size
<1>3. Tooling' /\ Accounted' = Accounted
  BY <1>1, QuietStep DEF toolVars
<1>4. Typed'
  BY <1>1, <1>2, AgentAssumption DEF Inv, Typed, graphVars, toolVars
<1>5. Placed' /\ Booked'
  BY <1>1, <1>2, <1>3 DEF Inv, Placed, Booked, Unplanned, Unanswered, graphVars
<1>6. ServedAnswerVerified' /\ RefusalIsBare'
  BY <1>1, StillBare DEF Inv, Placed, Unanswered, NoAnswer, ServedAnswerVerified, toolVars
<1> QED BY <1>3, <1>4, <1>5, <1>6 DEF Inv

\* Whatever node_generate gives keeps the invariant, if it is an answer of the model that was
\* verified, or one without the model; a refusal, if its stop_reason says so, with no more of the
\* tools' data beside it than RefusalIsBare allows.
LEMMA GiveKeeps ==
  ASSUME Inv, NEW what \in Answer, NEW why \in StopReasons \ {"running"}, Give(what, why),
         node \in {"generate", "answer", "judge"},
         attempt' \in 0..(MaxRetries + 1), context' = context,
         shown' \in {"first", "broad"}, reply' \in Replies,
         "model" \in what.parts =>
           /\ node = "judge" /\ UNCHANGED answerVars
           /\ reply.cited # {} /\ what.cited = reply.cited \cap (1..Size(context)),
         what.refused => what.parts = {} /\ what.cited = {},
         why # "completed" => what.refused,
         why \in {"no_context", "blocked"} => \A tool \in Tools : DataSent(tool) = {},
         what.refused /\ why \notin DocumentRefusals =>
           DataSent("query_database") = {} /\ DataSent("calculate") = {}
  PROVE  Inv'
<1>1. /\ node' = "finalize" /\ answer' = what /\ stopReason' = why
      /\ UNCHANGED <<graphVars, toolVars, late, txOk, audits, trace>>
  BY DEF Give
<1>2. Tooling' /\ Accounted' = Accounted
  BY <1>1, QuietStep DEF toolVars
<1>3. Typed'
  BY <1>1 DEF Inv, Typed, graphVars, toolVars
<1>4. Placed' /\ Booked'
  BY <1>1, <1>2 DEF Inv, Placed, Booked, Unplanned, Unanswered, graphVars
<1>5. ServedAnswerVerified'
  BY <1>1 DEF Inv, Placed, EgressOk, ServedAnswerVerified, Size, graphVars, answerVars
<1>6. RefusalIsBare'
  <2>1. \A tool : DataSent(tool)' = DataSent(tool)
    BY <1>1 DEF DataSent, toolVars
  <2>2. "completed" \notin DocumentRefusals
    BY DEF DocumentRefusals
  <2>3. answer' = what /\ stopReason' = why
    BY <1>1
  <2>4. what.refused /\ why \notin DocumentRefusals =>
          DataSent("query_database")' = {} /\ DataSent("calculate")' = {}
    BY <2>1
  <2>5. why \in {"no_context", "blocked"} => \A tool \in Tools : DataSent(tool)' = {}
    BY <2>1
  <2>6. /\ why \in {"no_context", "blocked"} => what.refused
        /\ why \in DocumentRefusals => what.refused
    BY <2>2
  <2> QED BY <2>3, <2>4, <2>5, <2>6, Zenon DEF RefusalIsBare
<1> QED BY <1>2, <1>3, <1>4, <1>5, <1>6 DEF Inv

\* The same for a refusal: nothing is left to say of what it holds.
LEMMA RefusalKeeps ==
  ASSUME Inv, NEW flag \in BOOLEAN, NEW why \in StopReasons \ {"running", "completed"},
         Give(Refusal(flag), why), node \in {"generate", "answer", "judge"},
         attempt' \in 0..(MaxRetries + 1), context' = context,
         shown' \in {"first", "broad"}, reply' \in Replies,
         why \in {"no_context", "blocked"} => \A tool \in Tools : DataSent(tool) = {},
         why \notin DocumentRefusals =>
           DataSent("query_database") = {} /\ DataSent("calculate") = {}
  PROVE  Inv'
<1>1. /\ Refusal(flag) \in Answer /\ Refusal(flag).refused
      /\ Refusal(flag).parts = {} /\ Refusal(flag).cited = {}
  BY DEF Refusal, Answer
<1>2. "model" \notin Refusal(flag).parts
  BY <1>1
<1>3. PICK what \in Answer : what = Refusal(flag)
  BY <1>1
<1>4. /\ what.refused /\ what.parts = {} /\ what.cited = {} /\ "model" \notin what.parts
      /\ Give(what, why)
  BY <1>1, <1>2, <1>3
<1>5. why \in StopReasons \ {"running"}
  OBVIOUS
<1> QED BY <1>4, <1>5, GiveKeeps

LEMMA AnswersKeep ==
  ASSUME Inv,
         \/ NoContext \/ AnswerFromTools \/ BelowThreshold
         \/ \E r \in Replies : WriteBadly(r) /\ node' # "answer"
         \/ \E verdict \in {"high", "low", "unchecked"} : NoCitations(verdict) \/ Serve(verdict)
  PROVE  Inv'
<1> USE DEF Answer, StopReasons
<1>1. /\ attempt \in 0..MaxRetries \/ node \notin Unanswered
      /\ attempt \in 0..(MaxRetries + 1) /\ shown \in {"first", "broad"} /\ reply \in Replies
  BY AgentAssumption DEF Inv, Typed, Placed
<1>2. CASE NoContext
  <2>1. /\ node = "generate" /\ UNCHANGED answerVars /\ results = <<>>
        /\ Give(Refusal(FALSE), "no_context")
    BY <1>2 DEF NoContext
  <2>2. \A tool : DataSent(tool) = {}
    BY <2>1 DEF DataSent
  <2> QED BY <1>1, <2>1, <2>2, RefusalKeeps DEF answerVars
<1>3. CASE BelowThreshold
  <2>1. /\ node = "generate" /\ UNCHANGED answerVars
        /\ Give(Refusal(FALSE), "below_threshold")
    BY <1>3 DEF BelowThreshold
  <2> QED BY <1>1, <2>1, RefusalKeeps DEF DocumentRefusals, answerVars
<1>4. CASE AnswerFromTools
  <2> DEFINE told == [refused |-> ~Rendered, cited |-> {}, flagged |-> FALSE,
                      parts |-> IF Rendered THEN {"tools"} ELSE {}]
  <2>1. /\ told \in Answer /\ "model" \notin told.parts
        /\ told.refused => told.parts = {} /\ told.cited = {}
    OBVIOUS
  <2>2. /\ node = "generate" /\ UNCHANGED answerVars
        /\ \/ Give(Refusal(FALSE), "blocked") /\ ~Have("ok")
           \/ Give(told, "completed")
    BY <1>4 DEF AnswerFromTools
  <2>3. ~Have("ok") => \A tool : DataSent(tool) = {}
    BY DEF Have, DataSent
  <2>4. told.refused => DataSent("query_database") = {} /\ DataSent("calculate") = {}
    BY DEF Rendered, DataSent
  <2> HIDE DEF told
  <2>5. CASE Give(Refusal(FALSE), "blocked") /\ ~Have("ok")
    BY <1>1, <2>2, <2>3, <2>5, RefusalKeeps DEF answerVars, Tools
  <2>6. CASE Give(told, "completed")
    BY <1>1, <2>1, <2>2, <2>4, <2>6, GiveKeeps DEF answerVars
  <2> QED BY <2>2, <2>5, <2>6
<1>5. ASSUME NEW r \in Replies, WriteBadly(r), node' # "answer" PROVE Inv'
  <2>1. /\ node = "answer" /\ Give(Refusal(TRUE), "egress_violation") /\ UNCHANGED context
        /\ shown' = context /\ reply' = r /\ attempt' = attempt + 1
    BY <1>5 DEF WriteBadly
  <2>2. attempt' \in 0..(MaxRetries + 1) /\ shown' \in {"first", "broad"}
    BY <1>1, <2>1, AgentAssumption DEF Unanswered, Inv, Typed
  <2> QED BY <2>1, <2>2, RefusalKeeps DEF DocumentRefusals
<1>6. ASSUME NEW verdict \in {"high", "low", "unchecked"}, NoCitations(verdict) PROVE Inv'
  BY <1>1, <1>6, RefusalKeeps DEF NoCitations, DocumentRefusals, answerVars
<1>7. ASSUME NEW verdict \in {"high", "low", "unchecked"}, Serve(verdict) PROVE Inv'
  <2> DEFINE served == [refused |-> FALSE, cited |-> reply.cited \cap (1..Size(context)),
                        flagged |-> (verdict = "low"),
                        parts |-> {"model"} \cup (IF results = <<>> THEN {} ELSE {"tools"})]
  <2>1. served \in Answer /\ ~served.refused /\ served.cited = reply.cited \cap (1..Size(context))
    BY <1>1 DEF Replies
  <2>2. node = "judge" /\ reply.cited # {} /\ Give(served, "completed") /\ UNCHANGED answerVars
    BY <1>7 DEF Serve
  <2> HIDE DEF served
  <2> QED BY <1>1, <2>1, <2>2, GiveKeeps DEF answerVars
<1> QED BY <1>2, <1>3, <1>4, <1>5, <1>6, <1>7

\* finalize, the trace, and the time that passes.
LEMMA EndKeeps ==
  ASSUME Inv, Finalize \/ SaveTrace \/ TimePasses \/ UNCHANGED vars
  PROVE  Inv'
<1>1. UNCHANGED <<graphVars, toolVars, txOk, audits, answerVars, answer>>
  BY DEF Finalize, SaveTrace, TimePasses, vars
<1>2. Tooling' /\ Accounted' = Accounted
  BY <1>1, QuietStep DEF toolVars
<1>3. Typed'
  <2>1. /\ node' \in {node, "save", "done"} /\ late' \in {late, TRUE}
        /\ stopReason' \in {stopReason, "completed"} /\ trace' \in {trace, stopReason}
    BY DEF Finalize, SaveTrace, TimePasses, vars
  <2>2. late' \in BOOLEAN /\ stopReason' \in StopReasons /\ trace' \in StopReasons \cup {"none"}
    BY <2>1 DEF Inv, Typed, StopReasons
  <2> QED BY <1>1, <2>1, <2>2 DEF Inv, Typed, Ended, graphVars, toolVars, answerVars
<1>4. Placed' /\ Booked'
  BY <1>1, <1>2 DEF Finalize, SaveTrace, TimePasses, vars, Inv, Placed, Booked, Unplanned,
     Unanswered, EgressOk, Size, graphVars, toolVars, answerVars
<1>5. ServedAnswerVerified'
  BY <1>1 DEF Inv, ServedAnswerVerified, Size, graphVars, answerVars
<1>6. RefusalIsBare'
  <2>1. stopReason' = stopReason \/ (stopReason = "running" /\ stopReason' = "completed")
    BY DEF Finalize, SaveTrace, TimePasses, vars
  <2>2. \A tool : DataSent(tool)' = DataSent(tool)
    BY <1>1 DEF DataSent, toolVars
  <2>3. "running" \notin DocumentRefusals /\ "completed" \notin DocumentRefusals
    BY DEF DocumentRefusals
  <2> QED BY <1>1, <2>1, <2>2, <2>3 DEF Inv, RefusalIsBare
<1> QED BY <1>2, <1>3, <1>4, <1>5, <1>6 DEF Inv

-----------------------------------------------------------------------------
(* The invariant and the theorems                                          *)

LEMMA InitInv == Init => Inv
<1> SUFFICES ASSUME Init PROVE Inv
  OBVIOUS
<1>1. Tooling /\ Accounted = {}
  <2>1. results = <<>> /\ plan = <<>> /\ next = 1 /\ made = 0
    BY DEF Init
  <2>2. results \in Seq(Result) /\ Len(results) = 0 /\ Len(plan) = 0 /\ DOMAIN results = {}
    BY <2>1
  <2>3. Ran = {} /\ Accounted = {} /\ ToolLimits /\ Cardinality(Ran) = 0
    BY <2>1, NoneYet, FS_EmptySet
  <2> QED BY <2>1, <2>2, <2>3 DEF Tooling
<1>2. Typed
  <2>1. NoReply \in Replies /\ NoAnswer \in Answer
    BY DEF NoReply, Replies, NoAnswer, Answer
  <2>2. 0 \in 0..(MaxRetries + 1)
    BY AgentAssumption
  <2> QED BY <2>1, <2>2 DEF Init, Typed, Intents, StopReasons
<1>3. Placed /\ Booked
  BY <1>1, AgentAssumption DEF Init, Placed, Booked, Unplanned, Unanswered
<1>4. ServedAnswerVerified /\ RefusalIsBare
  BY DEF Init, ServedAnswerVerified, RefusalIsBare, DocumentRefusals, NoAnswer
<1> QED BY <1>1, <1>2, <1>3, <1>4 DEF Inv

LEMMA NextInv == Inv /\ [Next]_vars => Inv'
<1> SUFFICES ASSUME Inv, [Next]_vars PROVE Inv'
  OBVIOUS
<1>1. CASE UnreadableReply \/ RetrievalRaises \/ GenerationRaises \/ SaveRaises
  <2>1. node \notin Ended /\ Fail
    BY <1>1 DEF UnreadableReply, RetrievalRaises, GenerationRaises, SaveRaises, Ended
  <2> QED BY <2>1, FailKeeps
<1>2. CASE \E p \in Plans : MakePlan(p)
  BY <1>2, PlanKeeps
<1>3. CASE CallTool
  BY <1>3, CallToolKeeps
<1>4. CASE \E r \in Replies : Write(r) \/ WriteBadly(r)
  <2> PICK r \in Replies : Write(r) \/ WriteBadly(r)
    BY <1>4
  <2>1. CASE Write(r) \/ node' = "answer"
    BY <2>1, RoundKeeps
  <2>2. CASE WriteBadly(r) /\ node' # "answer"
    BY <2>2, AnswersKeep
  <2> QED BY <2>1, <2>2
<1>5. CASE \E verdict \in {"high", "low", "unchecked"} : Judge(verdict)
  BY <1>5, RoundKeeps, AnswersKeep DEF Judge
<1>6. CASE Finalize \/ SaveTrace \/ TimePasses \/ UNCHANGED vars
  BY <1>6, EndKeeps
<1> QED BY <1>1, <1>2, <1>3, <1>4, <1>5, <1>6, EarlyKeeps, AnswersKeep DEF Next, Step, Finished

LEMMA Invariance == Spec => []Inv
BY InitInv, NextInv, PTL DEF Spec

\* Every variable keeps its type, and one result stands for each call of the plan dealt with.
THEOREM TypeCorrect == Spec => []TypeOK
<1>1. Inv => TypeOK
  <2> SUFFICES ASSUME Inv PROVE TypeOK
    OBVIOUS
  <2>1. audits \subseteq DOMAIN results
    BY DEF Inv, Booked, Accounted
  <2> QED BY <2>1 DEF Inv, Tooling, Typed, TypeOK, Ran
<1> QED BY <1>1, Invariance, PTL

\* No plan makes plan_tools pass the limits on calls, for any plans, tools and limits.
THEOREM WithinLimits == Spec => []ToolLimits
<1>1. Inv => ToolLimits
  BY DEF Inv, Tooling
<1> QED BY <1>1, Invariance, PTL

\* An answer of the model that generate_answer lets out has passed verify_egress against the
\* chunks it was written from, for any number of retries and sizes of the two contexts.
THEOREM ServedIsVerified == Spec => []ServedAnswerVerified
<1>1. Inv => ServedAnswerVerified
  BY DEF Inv
<1> QED BY <1>1, Invariance, PTL

\* The text of a refusal holds nothing; beside it go rows of the database only where the answer
\* from the documents was refused, whatever tools were called and however they ended.
THEOREM RefusalsAreBare == Spec => []RefusalIsBare
<1>1. Inv => RefusalIsBare
  BY DEF Inv
<1> QED BY <1>1, Invariance, PTL

\* The traces row and the audit rows of a request are both there, complete, or both not,
\* though tools swallow errors of the transaction they share.
THEOREM TogetherOrNot == Spec => []TraceAndAuditsTogether
<1>1. Inv => TraceAndAuditsTogether
  BY DEF Inv, Booked, Accounted, TraceAndAuditsTogether
<1> QED BY <1>1, Invariance, PTL
=============================================================================
