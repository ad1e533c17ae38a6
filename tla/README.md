# A verification project for Meridian

Meridian answers employees' questions from documents they may read, lets an agent call a
few tools, and carries out one kind of write action, a refund, under an approval policy.
It is a FastAPI application over Postgres with local language models and an Angular
client. This directory holds TLA+ modules of its core, TLC configurations that check them
on small instances, and TLAPS proofs of what matters most for every instance. Paths below
are relative to the repository; the modules' definitions carry the names of the code.

Contents: 1 the system, 2 the plan, 3 the modules, 4 the runs, 5 bounds, 6 fairness,
7 proofs, 8 disagreements between code and documents, 9 what is not modelled.

## 1. The system

### Components, their state and operations

| component | state it keeps | operations |
|---|---|---|
| actions and approvals: `app/agent/actions.py`, `app/api/actions.py` | tables `agent_actions`, `refund_requests`; row locks | request, decide, execute, list, preview |
| identity and audit: `app/core/deps.py` | `users`, `user_roles`, `audit_log`; the caller's roles, read once per request | `get_current_user`, `require_roles`, `audit` |
| transactions: `app/db.py` | the connection pool; one transaction per HTTP request | `get_conn`: commit on return, roll back on an exception |
| approval tiers: `app/agent/approval.py` | none; the policy document FIN-001 as retrieved, built-in fallback, hard ceiling | parse, resolve, `can_approve` |
| agent graph and tools: `app/agent/graph.py`, `tools.py`, `query_catalog.py`, `state.py` | `AgentState` of one request | understand, retrieve, extract_policy, plan_tools, generate, finalize; five tools |
| answers: `app/rag/answer.py`, `verify_egress` of `app/security/prompt_guard.py` | attempt counter, context | generate, check, judge, retry, refuse |
| chat endpoint: `app/api/chat.py` | table `traces` | `/chat`, `/search` |
| model gateway: `app/llm/gateway.py` | semaphore, daily quota, list of calls, all in memory | `complete`, `usage` |
| retrieval: `app/retrieval/` | none; reads `chunks`, `documents`, `document_acl` | vector, lexical and trigram search, fusion, neighbours, rerank, context |
| ingestion: `app/ingestion/pipeline.py`, `app/api/documents.py`, `scripts/ingest_corpus.py` | `documents`, `chunks`, `document_acl`, uploaded files | upload, load, replace, delete, read chunks |
| chunking: `app/ingestion/chunking.py`, after `parsers.py` and `cleaning.py` | section stack, buffer of lines, pending question, of one document | by structure, by row, by question and answer |
| login: `app/api/auth.py`, `app/core/security.py` | tokens of 15 minutes that carry roles | login, me |
| MCP server: `mcp_server/server.py` | the token of its environment | search, catalog query, whoami |
| evaluation: `app/evaluation/`, `scripts/run_eval.py`, `scripts/run_injection.py` | tables `eval_runs`, `eval_results`; the baseline file; the exit status | run a dataset, save runs and a baseline, run the injection suite, gate |
| client: `ui/src/app/` | token and user signals, list of actions, preview | login, logout on 401, load, preview, create, decide |

### How they interact

A request of the client becomes one database transaction. `get_current_user` reads the
user, `is_active`, the roles and the readable documents in its first statements; the
handler then works with that snapshot. Chat requests run the agent graph in that same
transaction, tools included, and write their trace at its end. All model calls go through
one gateway object per process; requests meet there at the semaphore and at the quota of
their user. Actions meet in the database, at the row lock that `decide_action` takes.
The tier of a refund comes from a retrieval of FIN-001 with the requester's own rights,
so it depends on documents, rights and ranking. Documents arrive by uploads and by the
loader, in transactions that meet at the unique indexes of `documents`; a reader's rights
are resolved to row ids in one statement and used in another. What is cited later is decided
when a document is chunked: every chunk carries its section path and page. A retrieval is a
series of statements, each of which sees documents and roles as they are by then. The client
holds a token, which the API checks against the database at each request, while the MCP server
believes it. The evaluation runs the same graph and retrieval in transactions of its own, and
tells the build by its exit status whether to stop.

### What is hard

- Concurrency: decisions on one action race; roles change while a request waits; requests
  queue for connections, for locks, and for the models.
- Atomicity and failure: each handler makes several statements and may fail between them;
  audit rows share the fate of the transaction they report on; a swallowed database error
  leaves a transaction that takes no further statement; the server may die anywhere, and
  the commit may come before or after the response, depending on FastAPI's version.
- Ordering: stop reasons, contexts and results are set by one step of a request and
  overwritten by a later one; the quota is checked before a wait and written after it.
- Untrusted input: the model plans any tools and writes any answer; the policy document
  may be incomplete, contradictory, or outvoted by others.
- State that must change together: lines, path and page of the chunk under way are reset in
  different places.
- Waiting in a circle: inserts wait for others' uncommitted keys, deletions for rows.
- Answers to the client come late, in any order, or never, after a logout or another login.
- Files beside the database: an upload's file and the evaluation's baseline are no part of any
  transaction.
- Termination: two kinds of retry share a counter; loops are bounded by several limits.

### What makes each component correct

- *Actions*: money moves once per completed action; decisions are final, single, made by
  someone entitled, and match the audit log. That every answer told to a client is durable
  depends on the framework's version (section 8).
- *Tiers*: an approver named for a sum is one the policy document grants it to; a larger
  sum never needs a weaker approver; nothing above the ceiling stays below the committee.
- *Agent*: limits on calls hold for every plan; what is served was verified against what was
  shown; the text of a refusal reveals nothing; trace and audit rows stand or fall together;
  every request ends.
- *Gateway*: permits are neither lost nor overdrawn; the quota's overshoot is bounded;
  everybody's turn comes; costs belong to the request they are recorded for.
- *Retrieval*: no chunk outside the reader's rights; the fusion is independent of the
  order of the lists; the budget is kept.
- *Ingestion*: a document is there with its rights and all its chunks, or not at all; one row
  per document; a loss is explained by a deletion or a replacement; a reader is served only
  the version they may read.
- *Chunking*: no text is lost; a chunk names the section and the page of its text; the
  overlap stays within its section; chunks keep to their size.
- *Login, MCP*: a token grants what the database grants, or granted less than its life ago.
- *Client*: what is shown belongs to who is logged in and to what was asked last.
- *Evaluation*: a leak stops the build; what is recorded was measured; a drop is noticed.

PROJECT.json lists the hazards one by one, with the line where each bites and the property
that guards it.

## 2. The plan

Ordered by what an error would cost. Steps 1 to 11 are done.

1. `Approvals` with `Tiers`, its abstraction `ActionLifecycle`, `Approvals_proofs`.
2. `ApprovalTier`, which discharges what `Approvals` takes from `Tiers`; its proofs are in
   `Approvals_proofs` too.
3. `AgentGraph`: one chat request with the transaction it runs in; proofs.
4. `Gateway` for many requests at once, `Books` on top of it; proofs.
5. `Ingestion`: concurrent uploads, replacements, deletions and readers of documents, with
   the file on disk, rollbacks, crashes and deadlocks; `Ingestion_proofs`.
6. `Chunking`: the section stack and the three strategies, over all small documents, and for
   every document in `Ingestion_proofs`.
7. `Catalogue`: what the ingestion promises its readers, a document whole or not at all, as
   the abstract specification that `Ingestion` implements and `Retrieval` reads under.
8. `Retrieval`: access rights over the several statements of one retrieval while documents
   and rights change; the fusion and the context against what is expected of them; proofs.
9. `Sessions`: what a token says against what the database says, for the API and the MCP
   server. `Client`: login, session and the approvals page under late answers; proofs.
10. `Evaluation`: runner, metrics, baseline, gates and the injection suite; proofs.
11. `Sums`: what the proofs need of numbers, finite sets and sums over them; with it every
   safety and action property of the passing runs is a theorem.
12. Left: a composition of `Approvals` and `ApprovalTier` in one state, so that the authority
   theorem speaks of the document itself and not of what `Tiers` says of it.

Modules that are proved about declare no RECURSIVE operator; their parameters are CONSTANTS
with a named assumption.

## 3. The modules

**Approvals** (`app/agent/actions.py`, `app/api/actions.py`, `app/core/deps.py`,
`app/db.py`). Many requests, each with its transaction. `pc` says how far a request has
come: `idle`, `authed` (roles read, in `snapshot`), `locked` (the row is locked and read),
`executing` (approved, before the refund), `returned` or `raised` (the handler is over),
`done`. `tx` holds what the transaction has written and nobody else sees: the row, the
refund, the audit rows (`notes`). `actions`, `refunds`, `auditLog` are the committed tables.
`RequestAction` and `DecideAction` are the two handlers with their early returns, in the
order of the code; `ExecuteAndClose` has the three outcomes of `_perform`: done, failed by
an exception of Python, failed by the database. `Commit`, `Rollback`, `Abort` end the
transaction; `Abort` is also a crash or a lost connection at any point. `EditRoles` is an
operator who grants, revokes or deactivates meanwhile. A statement on rows that only the
transaction itself can see is joined to the statement before it.

**Tiers** is the interface between the write path and the tiers: which roles an amount can
be given. `Approvals` lets any of them occur; `ApprovalTier` shows that no other can.

**ActionLifecycle** is the abstract specification of an action: recorded, perhaps waiting,
decided once, the refund in the step that completes it. `Approvals` implements it with
`status` and `refunded` read from the committed tables.

**ApprovalTier** (`app/agent/approval.py`). `policy` is FIN-001 as a set of sentences,
`found` the sequence of sentences one retrieval yielded, in any order and mixed with
`Foreign` sentences. `Mentions` is the grouping of `parse_tiers_from_text` with its filter
on FIN-001, `Permits`, `Before`, `Selected` the lowest ceiling per tier, the stable sort by
ceiling and `next(...)`, `Usable` the fallback, `Resolve` the hard ceiling.

**AgentGraph** (`app/agent/graph.py`, `tools.py`, `app/rag/answer.py`, `app/api/chat.py`).
One request. Each node is one action or, for plan_tools and generate, one action per call
and per round. `ToolRaises`, `BarredTool`, `QueryRejected`, `ToolReturns` are the ways a
tool ends; `txOk` is false after a database error that was swallowed. The model is free:
any plan, any reply (a reply is its set of cited markers and whether it leaks), any verdict.
`answer.parts` is what the text of the answer holds; `DataSent` is what the response lists
beside it (`tools_called`), refused or not. `TimePasses` lets the wall clock run out between any
two steps.

**Gateway** (`app/llm/gateway.py`). Many requests, each a series of calls as AgentGraph
makes them. An action is the code between two awaits. `holders` and `queue` are the
semaphore, with its hand-over to the first waiter; `used` is the quota of the current day.
`NextDay` and `Restart` empty it. **Books** adds `self.calls`, `usage()` and what
`_save_trace` writes.

**Ingestion** (`app/ingestion/pipeline.py`, `app/api/documents.py`, `scripts/ingest_corpus.py`,
the tables of `migrations/001_init.sql`). Many jobs, each one transaction: an upload, a load
with or without `--replace`, a deletion, or a reader of chunks. `rows` holds the committed
documents, ACL and chunks included; `tx` what a job has deleted and inserted; `files` the
upload directory. A job goes from `begun` over `deleting` (an existing row found) to `ready`
(to insert), `inserted` (row written, ACL and chunks to follow) and `returned` or `raised`.
`FindNothing`, `SkipExisting`, `FindExisting` are the outcomes of the check, `NoText` and
`RefuseInput` those of parsing, `Insert` and `InsertConflicts` those of the INSERT under the
unique indexes, both of which take a value of the id sequence, `Fill` and `RefuseRoles` the rest
of `ingest_file`. `Deleters` and `Blockers` say
on whom a statement of Postgres waits, `DeadlockDetected` ends one of a circle. An insert
waits for all clashing transactions at once, where Postgres waits for one after the other;
in both cases it goes on when none is left. `ResolveAllowed` and `Serve` are the two
statements of a reader.

**Chunking** (`app/ingestion/chunking.py`). One document; an action reads one block. A line is
the index of its block, so that a chunk says which text it holds; only the number of
characters is kept of the text, from which `EstimateTokens` and `ContentTokens` compute what the
code does. `Heading`, `TextFits`, `TextOverflows`, `EndOfStructure` are the branches of
`chunk_by_structure`, with `Flushed` and `CarriedTail` for `flush`; `Push` is
`SectionStack.push`; `QaHeading`, `Question`, `Answer`, `PassOver`, `EndOfQa` are `chunk_by_qa` and
the pass over the prose that follows; `Rows` is `chunk_by_row`. `Outline`, the reference that
paths are compared with, is defined on the document alone.

**Catalogue** is the abstract specification of what is stored: `Put` a document, alone or in the
place of one that it clashes with, `Remove` one, `Waste` an id. `Ingestion` implements it with
`docs` read from the committed rows; `Retrieval` takes its steps as the world it reads.

**Retrieval** (`app/retrieval/pipeline.py`, `search.py`, `rerank.py`). One call of `retrieve`, one
action per SQL statement: the vector and lexical lists of each query, the trigram list when no
word was found, the neighbours. Each list may be any ranking of the chunks that the
statement's conditions (`Visible`, `Current`, the domain) admit, cut at `Limit`; the fusion, the
rerank and `build_context` are the code's arithmetic on them. Between two statements
`Edit` changes the documents, as `Catalogue` lets it, or the user's roles. `seen` collects what
the user might have read at some moment of the retrieval.

**Sessions** (`app/api/auth.py`, `app/core/security.py`, `get_current_user`,
`mcp_server/server.py`). The tokens issued, the users and their role, the clock; `Authorized` is
what the API makes of a token, `CatalogAnswers` what the MCP server does.

**Client** (`ui/src/app/`: `auth.service.ts`, `auth.interceptor.ts`, `auth.guard.ts`,
`login.component.ts`, `approvals.component.ts`) extends Sessions. `net` holds the requests under
way in the order they were sent; the server handles them in any order (`Handle`), the network
may lose them (`Lose`), the browser delivers the answers in any order (`Deliver`). `Click` starts
what the user can do, `Follow` ends a navigation, `Reload` starts anew with the stored token. `view`
is the approvals page of one visit: an answer to an earlier visit is shown nowhere. Of the
server's actions only their being pending is kept; `Approvals` has the rest.

**Evaluation** (`app/evaluation/`, `scripts/run_eval.py`, `scripts/run_injection.py`). Invocations,
one after the other. `rest` and `at` say how far the loops over configurations and items have
come; `scored` is `RunMetrics.items`, `tx` the rows of the transaction under way, `runs` and
`results` what was committed and summarised, `baseline` the file, of which `Torn` is what a crash
amid writing leaves. `Score` is one item, retrieval and answer left open; `SaveRun`, `SaveResult`,
`Commit` are `_save_run` and its transaction; `OpenBaseline`, `WriteBaseline`, `Gate` the end of
`main`; `Attack`, `Control`, `GateSuite` the injection suite; `Crash` ends any of it. A score of 1
is `One` = 2520 units, of which 1, 1/2, ..., 1/10 are whole numbers, so that the mean of reciprocal
ranks is rounded once, as in the code; rates are in ten-thousandths, as `round(.., 4)` leaves them.

`MC*` modules give the constants their values. Definitions commented as *Mutant of X* are
plausible mistakes in X; they stand beside it to show that the properties notice them.

## 4. The runs

| run | shows |
|---|---|
| `approvals_race` | Three requests of four users with every kind of call, queueing for one row lock and two connections, with amounts over the ceiling and beyond NUMERIC: refunds, audit rows, finality, the refinement of `ActionLifecycle`, and that each that holds a connection is answered. None of these speaks of the replies' order against the commit; the run takes the response after it, the theorems of section 7 either order. |
| `approvals_roles` | The same tables while an operator edits roles, with a connection for each request and the response before the commit: who decided was entitled. |
| `approvals_denials`, `approvals_early` | Counterexamples, section 8. |
| `approval_tier` | Eight versions of FIN-001 (complete, partial, contradictory, repeated, out of order), every reading of up to three sentences, amounts around every threshold. |
| `agent_graph` | Seven plans, all replies over three markers, three verdicts, failures everywhere, the deadline at any time. |
| `gateway` | Three requests of one user, one permit, a retry each, failures, midnight and restarts at any time. |
| `ingestion` | Three jobs (uploads, loads, replacements, deletions, readers) over no, one or two documents, with conflicts at the doc_id, at the checksum and at both, blank files, unknown roles, rollbacks and crashes: what is stored, what is lost, what is served, and that every job ends. |
| `chunking` | All 28,513 documents of up to six blocks of text, up to five of all kinds, up to twelve of the shortest lines, or two sheets. |
| `retrieval` | Four manners of asking over two documents, with any rankings, while documents come, go and are replaced and roles change between the statements. |
| `client` | One tab of two users who log in and out, reload, filter, preview, create and decide, with answers late, out of order or lost, tokens that lapse, and users edited meanwhile. |
| `evaluation` | Any sequence of fourteen kinds of invocation, with a crash at any step, over two configurations, two providers, every retrieval and answer, and the injection suite. |

The properties, by module:

- *Approvals.* `RefundIffCompleted`: committed refunds and statuses agree. `WritersOwnTheirRows`:
  every uncommitted write has one owner whom the row lock or a fresh id protects.
  `AuditMatchesActions`: one decision row per decided action, by the approver, with the outcome.
  `DecisionHadAuthority`: whoever closed an action had the role when their request began, an
  admin's above the ceiling, and is the requester only on the automatic path; what it leaves
  open, a role revoked meanwhile and the automatic path itself, is what `Approvals_revoked.cfg`
  and `Approvals_self.cfg` are about. `DecidedForGood`: finality. `EveryRequestAnswered`: no waiting for
  ever. `ImplementsLifecycle`.
- *ApprovalTier.* `OnlyGrantedAuthority`: nobody is named approver of a sum that the
  document, read in full, does not grant them, provided the document is in good order or
  the reading complete. `StricterWithAmount`: monotony in the sum. `RepetitionTightens`: monotony
  in the reading; what is found besides, about tiers already named, never weakens the approver,
  if the representative's ceilings lie below the team lead's. That `Tiers` tells `Approvals` the
  truth, `RoleIsPossible`, follows from the definition of `Resolve` and is a lemma.
- *AgentGraph.* `ToolLimits`: calls and failures stay within their limits for every plan.
  `ServedAnswerVerified`: what is served passed the checks against the context it was written
  from. `RefusalIsBare`: the text of a refusal holds no data; the response lists rows or computed
  values beside it only if the answer from the documents was refused, and none after `no_context`
  or `blocked`. `TraceAndAuditsTogether`: both are
  committed or neither. `Terminates`.
- *Gateway.* `PermitsKept`: no permit lost, overdrawn or idle while someone waits.
  `OvershootBounded`: a user passes the quota by what one call of each of their requests adds
  at most; all requests count, in flight or not. `EveryRequestEnds`.
- *Ingestion.* `WholeDocuments`: a stored document has its chunks and exactly its access
  rights. `OneRowPerDocument`: no two rows of one doc_id or checksum. `UploadsHaveFiles`: the
  clean-up of a failing upload takes no other's file. `ServedIsAllowed`: the version that is
  served is one its reader may read. `LossIsExplained`: rows never change, and go only by a
  recorded deletion or by a replacement that found them. `ImplementsCatalogue`. `EveryJobEnds`.
- *Chunking.* `PathsFollowOutline`: section and page of a chunk are those of its first text
  of its own. `BufferKeepsBounds`: the overlap never crosses a heading and nothing is skipped; the
  overlap passes its budget by its first line at most, a chunk under way its target by its last,
  both as the code counts them. `NothingLost`: every line of the chosen strategy is in a chunk,
  every answer beside its question.
- *Retrieval.* `OnlyWhatWasReadable`: whatever is found was the user's to read at some moment of
  this retrieval. `OnlyWhatWasAskedFor`: no superseded document unasked; another domain only by
  way of a lexical list. `AgreementComesFirst`: what both lists of a query hold goes before what
  one holds, what is nowhere lower and somewhere higher goes first, and the cut takes the last.
  `ContextKeepsTheStrongest`: the context keeps its budget, or is one chunk, repeats no text, and
  holds all candidates, or their text, down to the first that is no repetition and would pass the
  budget; from there on it holds none, not even one that would still fit.
- *Client.* `TypeOK`, with a request under way for each spinner. `ListIsOfTheSession`: the list on
  the page was read by the user in whose name its buttons act. `QuietListIsRight`: with all lists
  answered in order, the page shows what its filter asks for, and no confirmed decision is open.
  Lists of one session that are answered out of order or fail are outside it (`missed`): of these
  the last answer wins, whatever it was asked.
  *Sessions.* `RightsEndWithTheToken`: the MCP server answers who is entitled, or was less than
  the life of a token ago.
- *Evaluation.* `LeakStopsBuild`: a gated build that goes on exposed nothing in what it looked
  at. `GreenMeansGood`: by the rows of its run it is as good as the gates demand and not behind
  the baseline, unless the same invocation replaced the baseline first (section 8).
  `RecordsAgree`: a run in the database is whole, and the baseline that an invocation saved is a
  run that it recorded.

The type invariants of the other modules are proved and not run, section 7.

Further properties state promises of the documents that the code does not keep: two with a
listed run, the others with a configuration of their own beside the runs (section 8).

## 5. Bounds

- *Approvals*: in `approvals_race` two connections for three requests, and no symmetry, since
  liveness is checked; in `approvals_roles` a connection for each, and amounts 1 and 2. Three
  requests suffice for every race the code can have at one row, two that
  decide and one that created it; `MaxActions = 3` gives each its own action. One user per
  authority: none, representative, lead, admin. Amounts 1, 2, 3 are within the ceiling, above
  it, and beyond NUMERIC. `MaxRoleChanges = 1`: one edit during a run; what matters is
  whether it falls before or after the snapshot.
- *ApprovalTier*: amounts 0 to 7 lie on both sides of every ceiling (2 to 7) of document,
  fallback and hard ceiling; a document has three tiers, so readings of three sentences
  include complete ones, and of a tier named twice.
- *AgentGraph*: three calls allowed, two of a kind, plans of up to four, so that each limit
  is passed by one; contexts of one and two chunks, so that a marker can be valid in one and
  invented in the other; one retry.
- *Gateway*: three requests over one permit give a holder and a queue of two, whose order
  matters; a limit of two calls a day is reached, and overshot, within one request's calls.
  Tokens count one per call.
- *Ingestion*: three jobs are two that race and one that deletes, reads, or closes the circle.
  `Works` gives each job four or five tasks so chosen that every pair meets at a doc_id, at a
  checksum or at both. Tables of none, one and two documents; in the last a replacement of
  one document meets the other's checksum. `MaxRows = 5`: two rows and one id for each job, which
  inserts at most once. An INSERT that is cut off while it waits takes an id too, which the model
  leaves to the next: ids are compared, not counted.
- *Chunking*: a target of 6 tokens, a minimum of 3, an overlap of 4; titles of 1 token, texts
  of 1, 3 and 7 are below the minimum, at it, and above the target by themselves; an overlap
  is one long line or several short ones. Six blocks hold a section closed by an overflow
  after another that was merged. Up to twelve lines of one character: such a line counts one
  token by itself and less within a content of many, so that more are carried over than the
  budget has tokens. A bound on the tokens of the lines one by one holds for documents of six
  blocks and not for these, as the attempt to prove it showed; hence the wording above.
- *Retrieval*: three chunks per list, so that the cut at `Limit` bites; the code's constant 60 of
  the fusion; a budget of 3 tokens against chunks of 1, 2 and 4, so that a chunk fits, does not,
  or exceeds it alone; two chunks that begin alike; three files, one superseded and one of
  another domain; two edits, so that a document can be replaced after the roles changed.
- *Client*: `MaxEvents = 4` counts clicks, losses, edits, decisions of others and steps of the clock
  together; `MaxWaiting = 2` requests under way when the user clicks, so that two answers can
  overtake each other across a login of another user. `TTL = 1`: a token lapses within a run.
  The two users are symmetric. The run stops when the events are used up, so deadlock is not
  checked: a browser may be left alone.
- *Evaluation*: one configuration with and one without generation; datasets of up to two items,
  of knowledge, permission, versioning and data; lists of up to two chunks of which the first
  stands for the answer (`Shown = 1`, three in the code), so that a leak can hide below it; two
  attacks, one control. The number of invocations is not bounded: the baseline is all that one
  leaves to the next. Nothing stops, and deadlock is checked.

## 6. Fairness

- `Approvals!FairSpec`: weak fairness of `Handle(r)` and `End(r)` for each request. An ASGI
  server runs every ready task; Postgres grants a row lock once its holder is gone. Arrival
  is not fair, nor is getting a connection: with the pool exhausted `PoolTimeout` answers.
- `AgentGraph!FairSpec`: weak fairness of `Step`. Model calls time out
  (`llm_timeout_seconds`), so each await returns. `TimePasses` is not fair.
- `Gateway!FairSpec`: weak fairness of `Work(r)` per request, for the same reason. Waiting
  needs none of its own: `asyncio.Semaphore` hands a permit to its first waiter.

- `Ingestion!FairSpec`: weak fairness of `Advance(j)` for each job that has begun. Postgres wakes
  who waits for a transaction that has ended and breaks circles (`deadlock_timeout`).
  `Abort` is not fair.

Nothing makes a restart, an error or midnight happen; nothing prevents them either, except
that infinitely many restarts find no request left to end.

## 7. Proofs

The seven `*_proofs` modules prove, for all values of the constants that satisfy the modules'
assumptions, every safety and action property of the passing runs, and type correctness:

- **Approvals**: `TypeCorrect`, `Ownership`, `RefundOnce`, `Finality`, `Refinement`,
  `AuditIsTrue`, `AuthorityHeld`, all of them whether the response precedes the commit or not.
  The inductive invariant is `TypeOK`, that every open request has a call, `WritersOwnTheirRows`
  and `RefundIffCompleted`. The tables change only at a commit; a commit writes one row, which
  belongs to it alone (`Ownership`: by the lock, and then the row is still pending, or by a fresh
  id, and then it is absent), together with the refund its status asks for. Without ownership
  neither finality nor the refund count is inductive: a second writer of the same row could
  commit over the first. `Refinement` maps a commit to `Record` or `Decide` and every other step
  to a stutter. What is said of the past needs more: `HistInv` adds `Honest`, which ties the row,
  the refund and the audit rows of an open transaction to its caller's snapshot, and
  `PendingTiers`, that a waiting row has the role its amount asks for. A commit hands these over
  to the tables. The lemma `RepliesHold` says what is left of the durable reply: it is kept where
  the response follows the commit.
- **ApprovalTier** (in `Approvals_proofs`): `TierTypeCorrect`, `RetrievalTightens`,
  `LargerIsStricter`, `RepeatedTightens`; the lemma `PossibleRole` is the interface to
  `Approvals`. The invariant adds that the answer at hand is `Resolve` of the reading at hand,
  and that the reading comes from the document in force. A complete reading has every sentence of
  the tier, so its lowest ceiling bounds the sum; without one, a consistent document has a single
  ceiling per tier, which is the one that was read, or the fallback's, which is not above it. For
  monotony, what the reading grants for a sum it grants for a smaller one (`PermitsLess`), and
  the tier selected for the smaller one is the same or a lower one, if the document's ceilings
  ascend by tier, as `StricterWithAmount` supposes. For `RepeatedTightens` the lowest ceiling of
  the whole reading is not above that of a part; with equal ceilings of two tiers the first
  mention would decide, so it supposes them apart.
- **AgentGraph**: `TypeCorrect`, `WithinLimits`, `ServedIsVerified`, `RefusalsAreBare`,
  `TogetherOrNot`: every safety property of the run. `Tooling` says that the results stand, in
  order, for the first calls of the plan, and what the counters count; `Placed` what is already
  set at which node; `Booked` which audit rows the transaction holds, and that the trace is the
  last row of it.
- **Gateway**: `TypeCorrect`, `Permitted`, `Bounded`. Types and permits are one invariant
  (`Kept`): what may follow a call is a task only if the request was at one, and that it was is
  part of the agreement between semaphore and requests. For the quota the invariant is
  `Reserved`: what is used, and one largest call for each request of the user that waits or is at
  a model, stay within the bound. A request that starts a call found the quota below its limit
  and was not in flight; one that ends a call turns its reservation into use.
- **Ingestion**: `TypeCorrect`, `OneRow`, `Whole`, `FilesKept`, `Served`, `Explained`,
  `Refinement`: every safety property of the run. The inductive invariant has five parts: types;
  `JobInv`, which ties a job's place to what its transaction has written; `Exclusive`: no two
  open transactions insert one key or delete one row, and an inserted row clashes with committed
  ones only if its own transaction deletes them; `Stored`: what is stored was written by a job
  that is over; `Sighted`: an id that a reader has resolved is the row it saw, or gone. One row
  per document is not inductive alone: two jobs that have both inserted the key would break it at
  their commits, and only the waiting on the unique indexes keeps the second out
  (`ExclusiveInsert`). Rights read in an earlier statement are good for the later one because ids
  are never given out twice (`SeenStep`). `DeadlockIsAbort` and `OneJobMoves` reduce a step to
  one job and a frame for the others. `Refinement` needs one thing more, `Found`: what a
  replacement has deleted is the row it clashes with, so that a commit is a `Put` in its place.
- **Chunking** (in `Ingestion_proofs`): `ChunksTypeCorrect`, `SectionsAreTrue`,
  `OverlapIsBounded`, `AllIsChunked`: every property of the run, for documents of any length. The
  invariant, `ChunkInv`, says of each phase how far the document is read and what follows from
  that. `Asking`: after so many blocks the section stack is the document's outline there, the
  answers are paired in order, and the question that waits is the last one unanswered.
  `Gathering`: after so many lines the buffer is the run of text that ends there, in one section
  (`Gathered`), counted and bounded (`Measured`); the chunks hold the text up to the overlap and
  no more, and each cites its first line of its own (`Cites`). `Ended`: nothing is left over.
  `PushIsOutline` shows that the stack, which pops by level, is the outline, which is defined on
  the document with no stack. Where the code filters blocks, two ascending sequences of the same
  numbers are shown to be one (`AscendingUnique`).
- **Retrieval**: `TypeCorrect`, `ReadableOnly`, `AskedOnly`, `AgreementFirst`, `StrongestKept`.
  The invariant says that what is readable now has been seen (`Known`), and what each list may
  hold by the statement that read it (`Filtered`); the neighbours, which are fetched without
  these conditions, are of a document that a list held, and documents never change, so they are
  as current as what was found. For the fusion it adds that no list is longer than its cut
  (`Cut`) and that the fused order is that of the scores (`ByScore`). `AgreementFirst` assumes
  `Limit <= RrfK + 1`: the least that two lists give a chunk, 2 / (RrfK + Limit), is then above
  the most that one list gives, 1 / (RrfK + 1). The defaults are 30 and 60 (`app/config.py`);
  with a limit beyond RrfK + 2 the code can put what one list ranks first before what both rank
  last. `StrongestKept` goes through the candidates in order with the budget that is left, and
  finds the one at which it is cut.
- **Client**: `TypeCorrect`, `ListsAreOfTheSession`, `QuietListsAreRight`, `RightsEnd`: every
  property of the run. `Inv` is `ClientInv`, `TokenInv` and `Bounded`. `ClientInv` ties each
  spinner of the page to a request under way or an answer, the list to the token it was asked
  with, and the latest list to the filter. `Bounded` counts: what is under way, with what is
  bound to follow, is at most 2 and 3 for each event. `TokenInv`: a token with the role expires
  no later than `TTL` after now, if its user is still entitled, or else after its user last
  ceased to be; the client's own steps are steps or stutters of `Sessions`. `ClientAssumption`,
  that there is a filter `all` and an amount 1, is what the page starts with
  (`approvals.component.ts`).
- **Evaluation**: `LeaksAreStopped`, `RecordsAreTrue`, `GreenIsGood`. `Counted` and `Recorded`
  tie the rows of a run to the items scored, `Noticed` carries what was exposed from the item to
  the summary, where the leak rate is then above 0. That needs the assumption of at most 20,000
  items: among more, four digits could round one leak away. The gate on that rate blocks with the
  stub as with a model, and a torn baseline stops the build by itself. For `GreenIsGood` a second
  invariant, `GoodInv`, follows the measurements to the gates: the items' marks (`Marked`), their
  copies in the rows (`Copied`), runs and baselines that can be compared (`Compared`), and what a
  green end says of them (`Judged`). It assumes `FewItems`, datasets of fewer than 2000 items: a
  gate compares a rate rounded to four digits with its bound, the theorem speaks of the counts,
  and among more items a rate just below the bound rounds up to it.
- **Sums** has the pure lemmas: least and greatest numbers, smallest subsets, and the laws of
  sums over finite sets. The library's induction theorems are out of reach, since they take an
  operator; where an argument goes by induction it is given as one on the least counterexample
  (`LeastNumber`, `GreatestNumber`, `SmallestSubset`), for a set and not a predicate.

Assumptions are the ASSUMEs of the modules, which TLC evaluates on the instances; besides these,
`Gateway` takes the set of requests to be finite, since the bound counts them, and two theorems
state a hypothesis of their own, named above (`AgreementFirst`, `GreenIsGood`), as does the lemma
`RepliesHold`. The assumption of `Ingestion` says which tables loads leave: dense ids, whole
documents, unique keys.

Model-checked only: liveness (`EveryRequestAnswered`, `Terminates`, `EveryRequestEnds`,
`EveryJobEnds`), since the prover handles neither fairness with ENABLED nor the counting down
that these arguments need; and that the promises of section 8 fail, which is a matter of
counterexamples.

## 8. Where code and documents disagree

Found by a listed run:

- `approvals_denials`: the audit row of a refused access or decision is rolled back with
  the exception that refuses it; the documents say every denial is recorded. A failed
  login (`app/api/auth.py:61-68`) goes the same way.
- `approvals_early`: `app/db.py:47` leaves the commit to the end of a dependency. With a FastAPI
  that ends dependencies after the response (0.118 and later; requirements.txt allows any from
  0.115) a client is told of an execution that is then undone, where docs/SECURITY.md:34 says the
  agent never reports one that has not completed.

Shown by a configuration beside the listed runs; where one holds several properties, TLC's
`-continue` shows the counterexamples of all:

- `Books_costs.cfg` (module `MCBooks`): a trace stores the process's running totals as the
  request's cost (`app/api/chat.py:161`).
- `Chunking_promises.cfg`: a section below the minimum is appended to the chunk of the section
  before it and cited as part of that (`app/ingestion/chunking.py:88-92`); with questions in a
  document its tables are in no chunk, with many rows in it its paragraphs (221-233).
- `Retrieval_broader.cfg`: the second attempt at an answer is announced as having a broader context
  (`app/rag/answer.py:169-172`), but takes the fused order, without the rerank, and can miss the
  chunk that came first.
- `Client_promises.cfg`: an answer to the preview of an amount changed since is shown
  (`approvals.component.ts:211`, against the comment that a preview cannot become stale); the
  late 401 of a former session ends the one begun since (`auth.interceptor.ts:24`); a late `/me`
  shows the former user's roles (`auth.service.ts:84`); the MCP server takes roles from the token
  and looks at no `is_active`, where its README section says the database
  (`RightsEndWithTheToken` says how far apart they can be).
- `Evaluation_drop.cfg`: `--save-baseline` with `--gate` saves first and compares the run with
  itself (`scripts/run_eval.py:91-98`), where `app/evaluation/gates.py:8-9` says a drop fails the
  build.
- `Ingestion_lost.cfg`: replacing a document by a file without text deletes it, and reports that it
  was skipped (`app/ingestion/pipeline.py:106-111`), where `scripts/ingest_corpus.py:66` says that
  `--replace` reloads it.
- `Approvals_revoked.cfg`: the approver's roles are read before the wait for the row lock; ADR
  0006 says they are verified at decision time.
- `Approvals_self.cfg`: a requester who holds the tier's role approves the own action at once
  (`app/agent/actions.py:129`), which ADR 0006 and docs/SECURITY.md:39 forbid.
- `Approvals_promises.cfg`: when the database refuses the execution, the status `failed`
  cannot be stored in the aborted transaction, and the action stays pending
  (`app/agent/actions.py:287`; docs/SECURITY.md:32).
- `Gateway_judge.cfg`: after a fallback the model that wrote the answer judges it
  (`app/llm/gateway.py:6-7`, ADR 0007).
- `ApprovalTier_lowered.cfg`: with policy ceilings below the built-in fallback's, a failed
  retrieval loosens the decision (`app/agent/approval.py:37-43`).
- `AgentGraph_promises.cfg`: the rephrasings listed in a trace were never searched for
  (`app/agent/graph.py:119`); the stop reason of an exhausted budget or clock is overwritten
  (`app/agent/graph.py:276`); a tool that raises skips the check of the clock (231); the audit
  row of a refused tool call is lost when the answer fails afterwards (`app/agent/tools.py:82`).

Met while reading, and covered by no property:

- a refused answer does not silence the response that carries it: `tools_called`
  (`app/api/chat.py:109`) lists every tool result, data included. When the answer from the
  documents is refused (`below_threshold`, `egress_violation`, `no_citations`) the rows of a query
  that went well go out beside it, and a refusal for want of a result lists searches, calls of the
  API and escalations; `RefusalIsBare` says what never goes out;
- of two tiers with equal ceilings the one mentioned first is tried first
  (`app/agent/approval.py:126`), so that what else a retrieval yields can name the weaker of the
  two: hence the premise of `RepetitionTightens`;
- `build_context` stops at the first chunk that would pass the budget
  (`app/retrieval/pipeline.py:222-223`) and leaves out later ones that would fit;
- the window of a row reaches into the next sheet (`app/ingestion/chunking.py:161-162`);
- the trigram search ignores the domain it is given (`app/retrieval/search.py:119-139`):
  `OnlyWhatWasAskedFor` says what is left; the vector index filters after it has searched, where
  ADR 0002 wants no filter after the search;
- ADR 0002 (line 37) says a change of roles takes effect at the next token; the API reads the
  database at each request;
- Enter twice on the login form logs in twice (`hasty` in `Client`); nothing but the disabled
  button keeps the page from creating twice;
- a metric that was not measured passes its gate (`app/evaluation/gates.py:103-108`); the gates
  on injections and false refusals are in a list whose input never has them, and are applied by
  `run_injection.py` on its own;
- `citation_accuracy` compares a list with itself (`app/evaluation/runner.py:207-222`) and is
  always 1; without generation only the first three chunks are searched for forbidden values
  (192);
- leaks of all categories are divided by the permission items (`app/evaluation/metrics.py:125`),
  so that the rate can exceed 1;
- a baseline of a configuration that was not run is a KeyError after the rows are committed;
  a baseline of one configuration, or of the stub, is compared with a run of another; a crash
  amid writing it stops every gated build until it is saved anew (`gates.py:73-80`);
- the token that `run_injection.py` keeps per role lapses after 15 minutes, and each attack after
  that counts as one that succeeded.

## 9. Not modelled

- The text of things: prompts, regular expressions, tokens, embeddings, similarity scores,
  the SQL of the query catalog. They decide which case occurs; the models allow every case.
- Parsers, cleaning, embedder, the scan for injections and for personal data: regular
  expressions and libraries over text, without state; `Chunking` starts from any blocks they can
  yield, `Ingestion` from their failures. What the scan for injections finds is noted in the trace.
- The HTTP clients of the models, hashing and signing: libraries, taken by their outcomes.
- Of the client: chat, documents and traces, which show what they load and are one other page.
- Of the evaluation: metrics that no gate compares, and `hallucination_rate` and
  `p95_latency_ms`, which are reported only.
- Traces and metrics endpoints, `/actions/specs`, `/actions/preview`, `/search`: reads.
- Start-up, migrations, static files.

External code is modelled from its use and marked so in PROJECT.json: the order of response and
commit in FastAPI, the time-out of the pool, `asyncio.Semaphore`, waits, unique violations and
deadlock detection in Postgres, operators' edits of roles, and Finance's edits of the policy
document.
