------------------------------ MODULE Gateway ------------------------------
(***************************************************************************)
(* The model gateway (app/llm/gateway.py), the single way of all chat      *)
(* requests to the models: its semaphore, its daily quota and its          *)
(* fallback, under requests that each make a series of calls.              *)
(* The order of a request's calls is that of AgentGraph; here only its     *)
(* calls matter.  Between two awaits the event loop runs one request, so   *)
(* each action is the code from one await to the next.                     *)
(***************************************************************************)
EXTENDS Integers, Sequences, FiniteSets

CONSTANTS
  Requests, Users,
  UserOf,            \* the user of each request
  Permits,           \* settings.llm_max_concurrency
  DailyLimit,        \* settings.daily_token_quota
  TokenCounts,       \* bound: the tokens one call may take
  MaxTokens,         \* the largest of them
  Generation, Utility, Judge,   \* settings.generation_model, utility_model, judge_model
  MaxRounds          \* settings.max_answer_retries

Models == {Generation, Utility, Judge}
NoModel == "none"

ASSUME GatewayAssumption ==
  /\ IsFiniteSet(Requests)
  /\ UserOf \in [Requests -> Users]
  /\ Permits \in Nat \ {0} /\ DailyLimit \in Nat \ {0} /\ MaxRounds \in Nat
  /\ MaxTokens \in Nat /\ TokenCounts \subseteq 0..MaxTokens
  /\ NoModel \notin Models

VARIABLES
  task,        \* what the request is at: not begun, a task of the model, its trace, ended
  step,        \* within complete(): before it, waiting for a permit, at a model
  round,       \* retries of generate_answer so far
  author,      \* the model that wrote the answer at hand
  holders,     \* the requests inside `async with self._sem`
  queue,       \* the waiters of the semaphore
  used         \* quota._used, of the current day

vars == <<task, step, round, author, holders, queue, used>>

Tasks == {"understanding", "routing", "generation", "judge"}
Ended == {"done", "failed"}
Steps == {"out", "waiting", "primary", "fallback"}

\* The primary model of a task and the one it falls back to.
Primary(t) ==
  CASE t = "generation" -> Generation [] t = "judge" -> Judge [] OTHER -> Utility
Fallback(t) == IF t \in {"generation", "judge"} THEN Utility ELSE Generation

\* The model that request r is at.
At(r) == IF step[r] = "primary" THEN Primary(task[r]) ELSE Fallback(task[r])

Init ==
  /\ task = [r \in Requests |-> "new"]
  /\ step = [r \in Requests |-> "out"]
  /\ round = [r \in Requests |-> 0]
  /\ author = [r \in Requests |-> NoModel]
  /\ holders = {} /\ queue = <<>>
  /\ used = [u \in Users |-> 0]

-----------------------------------------------------------------------------
(* The request: which call comes after which                               *)

\* Another round of generate_answer, while rounds are left.
Again(r) == IF round[r] < MaxRounds THEN {"generation"} ELSE {}

\* What may follow the current task: after an answer of the model, and after an exception,
\* which every task but the generation swallows.
AfterAnswer(r) ==
  CASE task[r] = "understanding" -> {"routing", "generation", "save"}
    [] task[r] = "routing" -> {"generation", "save"}
    [] task[r] = "generation" -> {"judge"} \cup (IF Again(r) = {} THEN {"save"} ELSE Again(r))
    [] task[r] = "judge" -> {"save"} \cup Again(r)
AfterError(r) ==
  CASE task[r] \in {"understanding", "routing"} -> {"generation", "save"}
    [] task[r] = "generation" -> {"failed"}
    [] task[r] = "judge" -> {"save"}

GoOn(r, to) ==
  /\ task' = [task EXCEPT ![r] = to]
  /\ round' = [round EXCEPT ![r] = IF to = "generation" /\ task[r] \in {"generation", "judge"}
                                   THEN @ + 1 ELSE @]

Arrive(r) ==
  /\ task[r] = "new"
  /\ task' = [task EXCEPT ![r] = "understanding"]
  /\ UNCHANGED <<step, round, author, holders, queue, used>>

\* _save_trace and the commit; Books says what the trace holds.
SaveTrace(r) ==
  /\ task[r] = "save"
  /\ task' = [task EXCEPT ![r] = "done"]
  /\ UNCHANGED <<step, round, author, holders, queue, used>>

-----------------------------------------------------------------------------
(* complete()                                                              *)

Ready(r) == task[r] \in Tasks /\ step[r] = "out"

\* Mutant of WithinQuota: the limit may be reached and passed by one more call.
PastLimit(r) == used[UserOf[r]] <= DailyLimit

WithinQuota(r) == used[UserOf[r]] < DailyLimit

\* Semaphore.acquire takes a permit at once only if nobody waits.
Free == Cardinality(holders) < Permits /\ queue = <<>>

EnterFree(r) ==
  /\ Ready(r) /\ WithinQuota(r) /\ Free
  /\ step' = [step EXCEPT ![r] = "primary"]
  /\ holders' = holders \cup {r}
  /\ UNCHANGED <<task, round, author, queue, used>>

EnterQueue(r) ==
  /\ Ready(r) /\ WithinQuota(r) /\ ~Free
  /\ step' = [step EXCEPT ![r] = "waiting"]
  /\ queue' = Append(queue, r)
  /\ UNCHANGED <<task, round, author, holders, used>>

\* quota.check raises before the semaphore is asked.
QuotaExceeded(r) ==
  /\ Ready(r) /\ ~WithinQuota(r)
  /\ \E to \in AfterError(r) : GoOn(r, to)
  /\ UNCHANGED <<step, author, holders, queue, used>>

\* Semaphore.release hands the permit to the first waiter, if there is one.
Release(r) ==
  IF queue = <<>>
  THEN /\ holders' = holders \ {r}
       /\ queue' = queue
       /\ step' = [step EXCEPT ![r] = "out"]
  ELSE /\ holders' = (holders \ {r}) \cup {Head(queue)}
       /\ queue' = Tail(queue)
       /\ step' = [step EXCEPT ![r] = "out", ![Head(queue)] = "primary"]

\* The model answers: the permit is released, the quota is written.
Answer(r, tokens) ==
  /\ step[r] \in {"primary", "fallback"}
  /\ Release(r)
  /\ used' = [used EXCEPT ![UserOf[r]] = @ + tokens]
  /\ author' = IF task[r] = "generation" THEN [author EXCEPT ![r] = At(r)] ELSE author
  /\ \E to \in AfterAnswer(r) : GoOn(r, to)

\* LLMError (a timeout, no connection, an HTTP error): the other model, with the same permit.
FallBack(r) ==
  /\ step[r] = "primary"
  /\ step' = [step EXCEPT ![r] = "fallback"]
  /\ UNCHANGED <<task, round, author, holders, queue, used>>

\* Mutant of Break: the permit of a call that raises is not given back.
BreakAndKeep(r) ==
  /\ step[r] \in {"primary", "fallback"}
  /\ step' = [step EXCEPT ![r] = "out"]
  /\ \E to \in AfterError(r) : GoOn(r, to)
  /\ UNCHANGED <<author, holders, queue, used>>

\* Any error of the second model, or one of the first that is no LLMError.
Break(r) ==
  /\ step[r] \in {"primary", "fallback"}
  /\ Release(r)
  /\ \E to \in AfterError(r) : GoOn(r, to)
  /\ UNCHANGED <<author, used>>

-----------------------------------------------------------------------------
(* The surroundings                                                        *)

\* Midnight: _used is keyed by the date, and the entries of past days are not read again.
NextDay ==
  /\ used' = [u \in Users |-> 0]
  /\ UNCHANGED <<task, step, round, author, holders, queue>>

\* The process dies and another one starts: the gateway's memory and the requests under way
\* are gone, the traces are in the database.
Restart ==
  /\ task' = [r \in Requests |-> IF task[r] \in Ended \cup {"new"} THEN task[r] ELSE "failed"]
  /\ step' = [r \in Requests |-> "out"]
  /\ holders' = {} /\ queue' = <<>>
  /\ used' = [u \in Users |-> 0]
  /\ UNCHANGED <<round, author>>

Work(r) ==
  \/ SaveTrace(r)
  \/ EnterFree(r) \/ EnterQueue(r) \/ QuotaExceeded(r)
  \/ \E tokens \in TokenCounts : Answer(r, tokens)
  \/ FallBack(r) \/ Break(r)

Next ==
  \/ \E r \in Requests : Arrive(r) \/ Work(r)
  \/ NextDay
  \/ Restart

Spec == Init /\ [][Next]_vars

\* The event loop runs whoever is ready, and every model call ends: llm_timeout_seconds.
FairSpec == Spec /\ \A r \in Requests : WF_vars(Work(r))

-----------------------------------------------------------------------------
(* Properties                                                              *)

TypeOK ==
  /\ task \in [Requests -> Tasks \cup Ended \cup {"new", "save"}]
  /\ step \in [Requests -> Steps]
  /\ round \in [Requests -> 0..MaxRounds]
  /\ author \in [Requests -> Models \cup {NoModel}]
  /\ holders \subseteq Requests
  /\ queue \in Seq(Requests)
  /\ used \in [Users -> Nat]

Waiting == {queue[i] : i \in DOMAIN queue}

\* The semaphore and the requests agree, through every exit of complete(), exceptions and
\* fallbacks included: a request is at a model exactly while it holds one of the permits and
\* waits exactly while it queues, once; the permits are never exceeded; and no permit lies
\* idle while someone waits for it.
PermitsKept ==
  /\ holders = {r \in Requests : step[r] \in {"primary", "fallback"}}
  /\ Waiting = {r \in Requests : step[r] = "waiting"}
  /\ \A i, j \in DOMAIN queue : queue[i] = queue[j] => i = j
  /\ \A r \in Requests : step[r] # "out" => task[r] \in Tasks
  /\ Cardinality(holders) <= Permits
  /\ queue # <<>> => Cardinality(holders) = Permits

Of(u) == {r \in Requests : UserOf[r] = u}

\* The quota is looked at before the wait and the call, and written after them, so requests
\* in flight overshoot it; but never by more than what one call for each of the user's
\* requests can add, midnight in the middle of a call or not.  All of the user's requests
\* count, as any of them may have been in flight together.
OvershootBounded ==
  \A u \in Users : used[u] <= (DailyLimit - 1) + MaxTokens * Cardinality(Of(u))

\* Every request that has begun ends, whoever else waits for the models.
EveryRequestEnds == \A r \in Requests : task[r] # "new" ~> task[r] \in Ended

-----------------------------------------------------------------------------
(* What the docs say, and the code does not do                             *)

\* gateway.py:6-7, ADR 0007: the judge is another model than the one that wrote the answer.
JudgeIsAnotherModel ==
  \A r \in Requests : task[r] = "judge" /\ step[r] \in {"primary", "fallback"} => At(r) # author[r]
=============================================================================
