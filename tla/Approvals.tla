------------------------------ MODULE Approvals ------------------------------
(***************************************************************************)
(* The write path of the application: an action (a refund) is requested,   *)
(* waits for an approver, is decided, and is executed.                     *)
(*                                                                         *)
(* Every HTTP request runs in one database transaction (app/db.py          *)
(* get_conn), reads the caller's roles ONCE, at its start (app/core/deps.py*)
(* get_current_user), and runs a handler of app/api/actions.py.  Requests  *)
(* of many clients and of several server processes interleave at every     *)
(* database call; the only synchronisation is SELECT ... FOR UPDATE on the *)
(* decided row.  A statement that touches only the transaction's own,      *)
(* still invisible rows is joined to the step before it; a crash, a lost   *)
(* connection or a failing statement anywhere in between is Abort.         *)
(***************************************************************************)
EXTENDS Integers, FiniteSets, Tiers

CONSTANTS
  Users,             \* rows of the users table
  Nobody,            \* SQL NULL in requested_by / approved_by
  Roles,             \* rows of the roles table
  InitialRoles,      \* user_roles when the behaviour starts
  Amounts,           \* refund amounts that occur in payloads
  NumericMax,        \* the largest amount NUMERIC(12,2) holds
  Requests,          \* HTTP requests; each is served once
  Calls,             \* what the requests may ask for
  PoolSize,          \* connections: pool_size + max_overflow
  MaxActions,        \* bound: rows ever inserted into agent_actions
  MaxRoleChanges,    \* bound: edits of users / user_roles by operators
  ReplyBeforeCommit  \* FastAPI >= 0.118 sends the response before get_conn commits

Requesters == {"support", "finance", "admin"}          \* ACTION_SPECS required_roles
ListReaders == {"finance", "hr", "support", "admin"}   \* require_roles of GET /actions
ActionIds == 1..MaxActions

CallType ==
  [kind : {"create", "create_unknown", "decide", "list"}, user : Users,
   amount : Amounts, target : ActionIds, approve : BOOLEAN]

ASSUME ApprovalsAssumption ==
  /\ Nobody \notin Users
  /\ TierRoles \subseteq Roles
  /\ InitialRoles \in [Users -> SUBSET Roles]
  /\ Amounts \subseteq Nat
  /\ HardCeiling \in Nat /\ NumericMax \in Nat
  /\ Calls \subseteq CallType
  /\ PoolSize \in Nat \ {0}
  /\ MaxActions \in Nat \ {0}
  /\ MaxRoleChanges \in Nat
  /\ ReplyBeforeCommit \in BOOLEAN

VARIABLES
  userRoles,    \* user_roles, edited by operators outside the application
  isActive,     \* users.is_active
  roleChanges,  \* how many such edits there have been
  actions,      \* agent_actions, committed rows; "absent" where there is none
  refunds,      \* committed refund_requests rows created by executing each action
  auditLog,     \* audit_log, committed rows
  nextId,       \* the sequence behind agent_actions.id: a rollback does not return ids
  lock,         \* row locks on agent_actions: the requests that hold each one
  pc,           \* where each request is
  call,         \* what each request asks for, and who asks
  snapshot,     \* CurrentUser.roles, read when the request started
  tx,           \* what the request's transaction has read for update and written
  answer,       \* what the handler returned or raised
  reply         \* what the client has been told

tables == <<actions, refunds, auditLog>>
people == <<userRoles, isActive, roleChanges>>
vars == <<people, tables, nextId, lock, pc, call, snapshot, tx, answer, reply>>

-----------------------------------------------------------------------------
Decided == {"completed", "failed", "rejected"}
Statuses == {"absent", "pending_approval", "blocked"} \cup Decided
Answers == {"completed", "failed", "rejected", "pending_approval", "blocked", "listed",
            "forbidden", "denied", "unauthorized", "error"}
Open == {"authed", "locked", "executing", "returned", "raised"}

Row == [requester : Users \cup {Nobody}, amount : Amounts \cup {0}, status : Statuses,
        role : TierRoles \cup {"none"}, approver : Users \cup {Nobody}]
AuditRow == [by : Requests, actor : Users, id : 0..MaxActions,
             action : {"request", "execute", "reject", "decide", "access"},
             outcome : {"allowed", "blocked", "error"}]
Tx == [id : 0..MaxActions, row : Row, refund : {0, 1}, notes : SUBSET AuditRow]

AbsentRow == [requester |-> Nobody, amount |-> 0, status |-> "absent",
              role |-> "none", approver |-> Nobody]
EmptyTx == [id |-> 0, row |-> AbsentRow, refund |-> 0, notes |-> {}]
NoCall == [kind |-> "none", user |-> Nobody, amount |-> 0, target |-> 0, approve |-> FALSE]

Audit(r, action, outcome, id) ==
  [by |-> r, actor |-> call[r].user, action |-> action, outcome |-> outcome, id |-> id]

Connected == {r \in Requests : pc[r] \in Open}

\* decide_action's stored tier: a row without a role needs an admin.
StoredRole(row) == IF row.role = "none" THEN "admin" ELSE row.role

HasAuthority(held, role) == "admin" \in held \/ role \in held

\* Mutant of CanApprove: without is_requester.
SelfApproval(r) == HasAuthority(snapshot[r], StoredRole(tx[r].row))

CanApprove(r) ==
  /\ call[r].user # tx[r].row.requester
  /\ HasAuthority(snapshot[r], StoredRole(tx[r].row))

-----------------------------------------------------------------------------
Init ==
  /\ userRoles = InitialRoles
  /\ isActive = [u \in Users |-> TRUE]
  /\ roleChanges = 0
  /\ actions = [a \in ActionIds |-> AbsentRow]
  /\ refunds = [a \in ActionIds |-> 0]
  /\ auditLog = {}
  /\ nextId = 1
  /\ lock = [a \in ActionIds |-> {}]
  /\ pc = [r \in Requests |-> "idle"]
  /\ call = [r \in Requests |-> NoCall]
  /\ snapshot = [r \in Requests |-> {}]
  /\ tx = [r \in Requests |-> EmptyTx]
  /\ answer = [r \in Requests |-> "none"]
  /\ reply = [r \in Requests |-> "none"]

\* The handler has returned `what`; the transaction is still open.
Return(r, what) ==
  /\ pc' = [pc EXCEPT ![r] = "returned"]
  /\ answer' = [answer EXCEPT ![r] = what]

\* The handler has raised; get_conn will roll everything back.
Raise(r, what) ==
  /\ pc' = [pc EXCEPT ![r] = "raised"]
  /\ answer' = [answer EXCEPT ![r] = what]

\* Mutant of Finish: the connection returns to the pool with its transaction still open.
LockLeaks(r, heard) ==
  /\ pc' = [pc EXCEPT ![r] = "done"]
  /\ tx' = [tx EXCEPT ![r] = EmptyTx]
  /\ reply' = [reply EXCEPT ![r] = heard]
  /\ UNCHANGED <<people, nextId, lock, call, snapshot, answer>>

\* The transaction is over: its row lock and its connection are free again.
Finish(r, heard) ==
  /\ pc' = [pc EXCEPT ![r] = "done"]
  /\ lock' = [a \in ActionIds |-> lock[a] \ {r}]
  /\ tx' = [tx EXCEPT ![r] = EmptyTx]
  /\ reply' = [reply EXCEPT ![r] = heard]
  /\ UNCHANGED <<people, nextId, call, snapshot, answer>>

\* What a step of a handler leaves alone: everything other transactions can see.
HandlerStep == UNCHANGED <<people, tables, lock, call, snapshot, reply>>

-----------------------------------------------------------------------------
(* Starting a request: a connection, then one SELECT for the user's roles. *)

GetCurrentUser(r, c) ==
  /\ pc[r] = "idle"
  /\ Cardinality(Connected) < PoolSize
  /\ isActive[c.user]
  /\ pc' = [pc EXCEPT ![r] = "authed"]
  /\ call' = [call EXCEPT ![r] = c]
  /\ snapshot' = [snapshot EXCEPT ![r] = userRoles[c.user]]
  /\ UNCHANGED <<people, tables, nextId, lock, tx, answer, reply>>

RefuseInactive(r, c) ==
  /\ pc[r] = "idle"
  /\ Cardinality(Connected) < PoolSize
  /\ ~isActive[c.user]
  /\ call' = [call EXCEPT ![r] = c]
  /\ Raise(r, "unauthorized")
  /\ UNCHANGED <<people, tables, nextId, lock, snapshot, tx, reply>>

\* No connection became free in time: the client gets a 500 and nothing was begun.
PoolTimeout(r, c) ==
  /\ pc[r] = "idle"
  /\ Cardinality(Connected) >= PoolSize
  /\ pc' = [pc EXCEPT ![r] = "done"]
  /\ call' = [call EXCEPT ![r] = c]
  /\ reply' = [reply EXCEPT ![r] = "error"]
  /\ UNCHANGED <<people, tables, nextId, lock, snapshot, tx, answer>>

-----------------------------------------------------------------------------
(* POST /actions: request_action.                                          *)

RefuseUnknownType(r) ==
  /\ pc[r] = "authed"
  /\ call[r].kind = "create_unknown"
  /\ Raise(r, "forbidden")
  /\ HandlerStep
  /\ UNCHANGED <<nextId, tx>>

\* Mutant of Insert: the id is MAX(id) + 1 of the rows that are visible.
IdFromMax(r, row, notes) ==
  /\ nextId <= MaxActions
  /\ nextId' = nextId
  /\ tx' = [tx EXCEPT ![r] = [id |-> nextId, row |-> row, refund |-> 0, notes |-> notes]]

\* INSERT INTO agent_actions ... RETURNING id, and what the handler wrote beside it.
Insert(r, row, notes) ==
  /\ nextId <= MaxActions
  /\ nextId' = nextId + 1
  /\ tx' = [tx EXCEPT ![r] = [id |-> nextId, row |-> row, refund |-> 0, notes |-> notes]]

NewRow(r, status, role) ==
  [requester |-> call[r].user, amount |-> call[r].amount, status |-> status,
   role |-> role, approver |-> Nobody]

\* The audit row of a blocked request names no resource: the action has no id yet.
RequestBlocked(r) ==
  /\ pc[r] = "authed"
  /\ call[r].kind = "create"
  /\ snapshot[r] \cap Requesters = {}
  /\ Insert(r, NewRow(r, "blocked", "none"), {Audit(r, "request", "blocked", 0)})
  /\ Return(r, "blocked")
  /\ HandlerStep

RequestPending(r, role) ==
  /\ pc[r] = "authed"
  /\ call[r].kind = "create"
  /\ snapshot[r] \cap Requesters # {}
  /\ ~HasAuthority(snapshot[r], role)
  /\ Insert(r, NewRow(r, "pending_approval", role), {Audit(r, "request", "allowed", nextId)})
  /\ Return(r, "pending_approval")
  /\ HandlerStep

\* The requester holds the tier's role: inserted as pending and executed at once.
RequestAuto(r, role) ==
  /\ pc[r] = "authed"
  /\ call[r].kind = "create"
  /\ snapshot[r] \cap Requesters # {}
  /\ HasAuthority(snapshot[r], role)
  /\ Insert(r, NewRow(r, "pending_approval", role), {})
  /\ pc' = [pc EXCEPT ![r] = "executing"]
  /\ UNCHANGED answer
  /\ HandlerStep

RequestAction(r) ==
  \/ RefuseUnknownType(r)
  \/ RequestBlocked(r)
  \/ \E role \in PossibleTiers(call[r].amount) : RequestPending(r, role) \/ RequestAuto(r, role)

-----------------------------------------------------------------------------
(* POST /actions/{id}/decision: decide_action.                             *)

RefuseMissing(r) ==
  /\ pc[r] = "authed"
  /\ call[r].kind = "decide"
  /\ actions[call[r].target].status = "absent"
  /\ Raise(r, "forbidden")
  /\ HandlerStep
  /\ UNCHANGED <<nextId, tx>>

\* Mutant of SelectForUpdate: a plain SELECT, which neither waits nor locks.
SelectOnly(r) ==
  /\ pc[r] = "authed"
  /\ call[r].kind = "decide"
  /\ actions[call[r].target].status # "absent"
  /\ tx' = [tx EXCEPT ![r] = [id |-> call[r].target, row |-> actions[call[r].target],
                              refund |-> 0, notes |-> {}]]
  /\ pc' = [pc EXCEPT ![r] = "locked"]
  /\ UNCHANGED <<people, tables, nextId, lock, call, snapshot, answer, reply>>

\* SELECT ... FOR UPDATE waits for the lock and then reads the row as committed.
SelectForUpdate(r) ==
  /\ pc[r] = "authed"
  /\ call[r].kind = "decide"
  /\ actions[call[r].target].status # "absent"
  /\ lock[call[r].target] = {}
  /\ lock' = [lock EXCEPT ![call[r].target] = {r}]
  /\ tx' = [tx EXCEPT ![r] = [id |-> call[r].target, row |-> actions[call[r].target],
                              refund |-> 0, notes |-> {}]]
  /\ pc' = [pc EXCEPT ![r] = "locked"]
  /\ UNCHANGED <<people, tables, nextId, call, snapshot, answer, reply>>

RefuseHandled(r) ==
  /\ pc[r] = "locked"
  /\ tx[r].row.status # "pending_approval"
  /\ Raise(r, "forbidden")
  /\ HandlerStep
  /\ UNCHANGED <<nextId, tx>>

\* The denial is written to audit_log in the transaction that the raise rolls back.
RefuseDecision(r) ==
  /\ pc[r] = "locked"
  /\ tx[r].row.status = "pending_approval"
  /\ ~CanApprove(r)
  /\ tx' = [tx EXCEPT ![r].notes = {Audit(r, "decide", "blocked", tx[r].id)}]
  /\ Raise(r, "denied")
  /\ HandlerStep
  /\ UNCHANGED nextId

\* UPDATE agent_actions SET status, approved_by ..., and the audit row beside it.
Close(r, status, refund, note) ==
  tx' = [tx EXCEPT ![r] =
           [id |-> tx[r].id,
            row |-> [tx[r].row EXCEPT !.status = status, !.approver = call[r].user],
            refund |-> refund, notes |-> {note}]]

\* Mutant of Reject: a rejection does not look at the status.
RejectHandled(r) ==
  /\ pc[r] = "locked"
  /\ CanApprove(r)
  /\ ~call[r].approve
  /\ Close(r, "rejected", 0, Audit(r, "reject", "allowed", tx[r].id))
  /\ Return(r, "rejected")
  /\ HandlerStep
  /\ UNCHANGED nextId

Reject(r) ==
  /\ pc[r] = "locked"
  /\ tx[r].row.status = "pending_approval"
  /\ CanApprove(r)
  /\ ~call[r].approve
  /\ Close(r, "rejected", 0, Audit(r, "reject", "allowed", tx[r].id))
  /\ Return(r, "rejected")
  /\ HandlerStep
  /\ UNCHANGED nextId

Approve(r) ==
  /\ pc[r] = "locked"
  /\ tx[r].row.status = "pending_approval"
  /\ CanApprove(r)
  /\ call[r].approve
  /\ pc' = [pc EXCEPT ![r] = "executing"]
  /\ HandlerStep
  /\ UNCHANGED <<nextId, tx, answer>>

DecideAction(r) ==
  RefuseMissing(r) \/ SelectForUpdate(r) \/ RefuseHandled(r) \/ RefuseDecision(r)
    \/ Reject(r) \/ Approve(r)

-----------------------------------------------------------------------------
(* _execute_and_close: _perform, then the UPDATE and the audit row.        *)

PerformCompletes(r) ==
  /\ pc[r] = "executing"
  /\ tx[r].row.amount <= NumericMax
  /\ Close(r, "completed", 1, Audit(r, "execute", "allowed", tx[r].id))
  /\ Return(r, "completed")
  /\ HandlerStep
  /\ UNCHANGED nextId

\* Mutant of PerformFails: an error raised after the refund row is in.
FailsAfterInsert(r) ==
  /\ pc[r] = "executing"
  /\ Close(r, "failed", 1, Audit(r, "execute", "error", tx[r].id))
  /\ Return(r, "failed")
  /\ HandlerStep
  /\ UNCHANGED nextId

\* An error of the application itself: no such customer, a payload without an amount.
PerformFails(r) ==
  /\ pc[r] = "executing"
  /\ Close(r, "failed", 0, Audit(r, "execute", "error", tx[r].id))
  /\ Return(r, "failed")
  /\ HandlerStep
  /\ UNCHANGED nextId

\* The database refuses the INSERT.  The error is caught, but the transaction is already
\* aborted: the UPDATE that should store 'failed' raises, and the handler with it.
PerformAborts(r) ==
  /\ pc[r] = "executing"
  /\ tx[r].row.amount > NumericMax
  /\ Raise(r, "error")
  /\ HandlerStep
  /\ UNCHANGED <<nextId, tx>>

ExecuteAndClose(r) == PerformCompletes(r) \/ PerformFails(r) \/ PerformAborts(r)

-----------------------------------------------------------------------------
(* GET /actions: require_roles, then list_actions.                         *)

ListActions(r) ==
  /\ pc[r] = "authed"
  /\ call[r].kind = "list"
  /\ snapshot[r] \cap ListReaders # {}
  /\ Return(r, "listed")
  /\ HandlerStep
  /\ UNCHANGED <<nextId, tx>>

RequireRolesDenies(r) ==
  /\ pc[r] = "authed"
  /\ call[r].kind = "list"
  /\ snapshot[r] \cap ListReaders = {}
  /\ tx' = [tx EXCEPT ![r].notes = {Audit(r, "access", "blocked", 0)}]
  /\ Raise(r, "denied")
  /\ HandlerStep
  /\ UNCHANGED nextId

-----------------------------------------------------------------------------
(* The end of a request: get_conn commits, or rolls back on any exception. *)

\* The response goes out while the transaction is still open.
ReplyEarly(r) ==
  /\ ReplyBeforeCommit
  /\ pc[r] = "returned"
  /\ reply[r] = "none"
  /\ reply' = [reply EXCEPT ![r] = answer[r]]
  /\ UNCHANGED <<people, tables, nextId, lock, pc, call, snapshot, tx, answer>>

Commit(r) ==
  /\ pc[r] = "returned"
  /\ ReplyBeforeCommit => reply[r] # "none"
  /\ actions' = [a \in ActionIds |-> IF a = tx[r].id THEN tx[r].row ELSE actions[a]]
  /\ refunds' = [a \in ActionIds |->
                   IF a = tx[r].id THEN refunds[a] + tx[r].refund ELSE refunds[a]]
  /\ auditLog' = auditLog \cup tx[r].notes
  /\ Finish(r, answer[r])

Rollback(r) ==
  /\ pc[r] = "raised"
  /\ Finish(r, answer[r])
  /\ UNCHANGED tables

\* Mutant of Abort: audit_log is written on a connection of its own.
AuditSurvives(r) ==
  /\ pc[r] \in Open \ {"raised"}
  /\ auditLog' = auditLog \cup tx[r].notes
  /\ Finish(r, IF reply[r] = "none" THEN "error" ELSE reply[r])
  /\ UNCHANGED <<actions, refunds>>

\* A crash of the process, a lost connection, a failing statement or a failing COMMIT.
Abort(r) ==
  /\ pc[r] \in Open \ {"raised"}
  /\ Finish(r, IF reply[r] = "none" THEN "error" ELSE reply[r])
  /\ UNCHANGED tables

-----------------------------------------------------------------------------
(* Operators outside the application edit users and user_roles.            *)

EditRoles(u, held) ==
  /\ roleChanges < MaxRoleChanges
  /\ userRoles' = [userRoles EXCEPT ![u] = held]
  /\ roleChanges' = roleChanges + 1
  /\ UNCHANGED <<isActive, tables, nextId, lock, pc, call, snapshot, tx, answer, reply>>

Grant(u, role) == role \notin userRoles[u] /\ EditRoles(u, userRoles[u] \cup {role})
Revoke(u, role) == role \in userRoles[u] /\ EditRoles(u, userRoles[u] \ {role})

Deactivate(u) ==
  /\ roleChanges < MaxRoleChanges
  /\ isActive' = [isActive EXCEPT ![u] = FALSE]
  /\ roleChanges' = roleChanges + 1
  /\ UNCHANGED <<userRoles, tables, nextId, lock, pc, call, snapshot, tx, answer, reply>>

\* A request that has been served stays served; the system is idle when all have been.
AllServed == \A r \in Requests : pc[r] = "done"
Terminating == AllServed /\ UNCHANGED vars

Start(r) == \E c \in Calls : GetCurrentUser(r, c) \/ RefuseInactive(r, c) \/ PoolTimeout(r, c)
Handle(r) ==
  \/ RequestAction(r) \/ DecideAction(r) \/ ExecuteAndClose(r)
  \/ ListActions(r) \/ RequireRolesDenies(r)
End(r) == ReplyEarly(r) \/ Commit(r) \/ Rollback(r)

Next ==
  \/ \E r \in Requests : Start(r) \/ Handle(r) \/ End(r) \/ Abort(r)
  \/ \E u \in Users : Deactivate(u) \/ \E role \in Roles : Grant(u, role) \/ Revoke(u, role)
  \/ Terminating

Spec == Init /\ [][Next]_vars

\* The event loop resumes every handler and PostgreSQL grants row locks in order, so a
\* request that can go on does.  Nothing makes clients call or operators edit roles.
Fairness == \A r \in Requests : WF_vars(Handle(r)) /\ WF_vars(End(r))
FairSpec == Spec /\ Fairness

-----------------------------------------------------------------------------
(* What must hold.                                                         *)

TypeOK ==
  /\ userRoles \in [Users -> SUBSET Roles]
  /\ isActive \in [Users -> BOOLEAN]
  /\ roleChanges \in 0..MaxRoleChanges
  /\ actions \in [ActionIds -> Row]
  /\ refunds \in [ActionIds -> Nat]
  /\ auditLog \subseteq AuditRow
  /\ nextId \in 1..(MaxActions + 1)
  /\ lock \in [ActionIds -> SUBSET Requests]
  /\ pc \in [Requests -> {"idle", "done"} \cup Open]
  /\ call \in [Requests -> CallType \cup {NoCall}]
  /\ snapshot \in [Requests -> SUBSET Roles]
  /\ tx \in [Requests -> Tx]
  /\ answer \in [Requests -> Answers \cup {"none"}]
  /\ reply \in [Requests -> Answers \cup {"none"}]

\* Money moves exactly once for a completed action and never for any other: however
\* decisions race, execution fails or transactions are lost, the committed
\* refund_requests rows and agent_actions.status agree (_execute_and_close).
RefundIffCompleted ==
  \A a \in ActionIds : refunds[a] = IF actions[a].status = "completed" THEN 1 ELSE 0

\* The requests whose open transaction has written an action.
Writers == {r \in Requests : pc[r] \in {"executing", "returned"} /\ tx[r].id # 0}

OneLockHolder == \A a \in ActionIds, r, s \in Requests : r \in lock[a] /\ s \in lock[a] => r = s
OneWriter == \A r, s \in Writers : tx[r].id = tx[s].id => r = s
NoActionAhead == \A a \in ActionIds : a >= nextId => actions[a].status = "absent"

\* What the transaction of r holds, by how far r has come.
TxFollowsPc(r) ==
  /\ pc[r] \in {"idle", "authed"} => tx[r] = EmptyTx
  /\ pc[r] = "locked" =>
       /\ tx[r].id \in ActionIds /\ r \in lock[tx[r].id]
       /\ tx[r].row = actions[tx[r].id] /\ tx[r].row.status # "absent" /\ tx[r].refund = 0
  /\ pc[r] = "executing" =>
       tx[r].id # 0 /\ tx[r].refund = 0 /\ tx[r].row.status = "pending_approval"
  /\ pc[r] = "returned" =>
       tx[r].refund = IF tx[r].row.status = "completed" THEN 1 ELSE 0

\* A decision holds the lock of a row that stays pending meanwhile; a new action has an id
\* that is in no table yet.
OwnsDecided(r) ==
  /\ r \in lock[tx[r].id]
  /\ actions[tx[r].id].status = "pending_approval"
  /\ pc[r] = "returned" => tx[r].row.status \in Decided
OwnsNew(r) ==
  /\ tx[r].id < nextId
  /\ actions[tx[r].id].status = "absent"
  /\ tx[r].row.status \in {"pending_approval", "blocked", "completed", "failed"}

\* What keeps the tables right between a transaction's statements and its COMMIT: an
\* uncommitted write has one owner, nobody else can reach its row before it commits, and
\* the refund goes with the status `completed` in the same transaction.
WritersOwnTheirRows ==
  /\ OneLockHolder
  /\ OneWriter
  /\ NoActionAhead
  /\ \A r \in Requests : TxFollowsPc(r)
  /\ \A r \in Writers : OwnsDecided(r) \/ OwnsNew(r)

DecisionNotes(a) == {n \in auditLog : n.id = a /\ n.action \in {"execute", "reject"}}

ExpectedNote(row, n) ==
  /\ n.actor = row.approver
  /\ n.action = IF row.status = "rejected" THEN "reject" ELSE "execute"
  /\ n.outcome = IF row.status = "failed" THEN "error" ELSE "allowed"

\* The audit log answers who decided what: a decided action has exactly one decision row
\* in audit_log, by its approver and with its outcome; an undecided one has none.
AuditMatchesActions ==
  \A a \in ActionIds :
    IF actions[a].status \in Decided
    THEN \E n \in DecisionNotes(a) :
           DecisionNotes(a) = {n} /\ ExpectedNote(actions[a], n)
    ELSE DecisionNotes(a) = {}

\* Whoever closed an action held the authority its stored tier asks for when their request
\* started, above the hard ceiling an admin's, and is the requester only if the action never
\* waited: the request that closed it is then the one that created it (can_approve,
\* request_action's auto branch).
DecisionHadAuthority ==
  \A a \in ActionIds : actions[a].status \in Decided =>
    \E r \in Requests :
      /\ pc[r] = "done"
      /\ call[r].user = actions[a].approver
      /\ HasAuthority(snapshot[r], actions[a].role)
      /\ actions[a].amount > HardCeiling => "admin" \in snapshot[r]
      /\ \/ call[r].kind = "decide" /\ call[r].target = a
            /\ actions[a].approver # actions[a].requester
         \/ call[r].kind = "create" /\ actions[a].approver = actions[a].requester

\* A decided or blocked action never changes again, and no committed action is lost.
DecidedForGood ==
  [][\A a \in ActionIds :
       /\ actions[a].status \in Decided \cup {"blocked"} => actions'[a] = actions[a]
       /\ actions[a].status # "absent" => actions'[a].status # "absent"]_vars

\* A client that has been told how an action ended was told the truth: the transaction
\* that ended it so is committed ("The agent never reports that it executed an action
\* that has not completed", docs/SECURITY.md:34).  The code leaves it to the framework: it
\* holds before FastAPI 0.118 and fails from then on, and requirements.txt allows both.
RepliesAreDurable ==
  \A r \in Requests : reply[r] \in Decided =>
    \E n \in auditLog :
      /\ n.by = r /\ n.id # 0
      /\ call[r].kind = "decide" => n.id = call[r].target
      /\ actions[n.id].status = reply[r]

\* Nobody waits for ever behind a row lock: every request that has a connection is
\* answered, whatever becomes of the requests ahead of it.
EveryRequestAnswered ==
  \A r \in Requests : pc[r] \in Open ~> pc[r] = "done" /\ reply[r] # "none"

\* Seen through agent_actions and refund_requests, the requests, their locks, retries and
\* rollbacks are the abstract life of an action.
StatusOf == [a \in ActionIds |-> actions[a].status]
Lifecycle == INSTANCE ActionLifecycle WITH
  Ids <- ActionIds, status <- StatusOf, refunded <- refunds
ImplementsLifecycle == Lifecycle!Spec

-----------------------------------------------------------------------------
(* What the documents say and the code does not do.                        *)

\* docs/adr/0002: "Every blocked access is written to audit_log with outcome='blocked'";
\* deps.py require_roles: "every denial is recorded in audit_log".
DenialsAreAudited ==
  \A r \in Requests : reply[r] = "denied" =>
    \E n \in auditLog : n.by = r /\ n.outcome = "blocked"

\* docs/adr/0006: "The approver's role is verified at decision time, not at request time - a
\* person who lost the role cannot approve".  When a decision has got its row, after whatever
\* wait, the roles that will decide it, which were read before, are still good for it.
AuthorityWhenDecided ==
  [][\A r \in Requests :
       /\ pc[r] = "authed" /\ pc'[r] = "locked"
       /\ tx'[r].row.status = "pending_approval" /\ CanApprove(r)'
       => HasAuthority(userRoles[call[r].user], StoredRole(tx'[r].row))]_vars

\* docs/adr/0006: "The requester may not approve their own action, regardless of role".
RequesterNeverApproves ==
  \A a \in ActionIds : actions[a].status = "completed" =>
    actions[a].approver # actions[a].requester

\* docs/SECURITY.md: `failed` is the status of a technical error; an execution that was
\* begun and whose client has been answered leaves its action decided.
ExecutionIsRecorded ==
  \A r \in Requests :
    pc[r] = "done" /\ call[r].kind = "decide" /\ answer[r] = "error" =>
      actions[call[r].target].status # "pending_approval"
=============================================================================
