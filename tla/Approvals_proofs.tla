--------------------------- MODULE Approvals_proofs ---------------------------
(***************************************************************************)
(* Theorems about Approvals, for every number of users, requests, actions  *)
(* and amounts and for both orders of response and commit; and about       *)
(* ApprovalTier, which says who those are that must approve.               *)
(***************************************************************************)
EXTENDS Approvals, ApprovalTier, TLAPS

-----------------------------------------------------------------------------
(* Type correctness.                                                       *)

LEMMA EmptyTxType == EmptyTx \in Tx
  <1>1. AbsentRow \in Row
    BY DEF AbsentRow, Row, Statuses
  <1>2. 0 \in 0..MaxActions
    BY ApprovalsAssumption
  <1> QED
    BY <1>1, <1>2 DEF EmptyTx, Tx

LEMMA InitType == Init => TypeOK
  BY ApprovalsAssumption, EmptyTxType
     DEF Init, TypeOK, AbsentRow, Row, Statuses, ActionIds, Open

LEMMA AuditType ==
  ASSUME NEW r \in Requests, call[r] \in CallType,
         NEW action \in {"request", "execute", "reject", "decide", "access"},
         NEW outcome \in {"allowed", "blocked", "error"}, NEW id \in 0..MaxActions
  PROVE  Audit(r, action, outcome, id) \in AuditRow
  BY DEF Audit, AuditRow, CallType

LEMMA FinishType ==
  ASSUME TypeOK, NEW r \in Requests, NEW heard \in Answers \cup {"none"}, Finish(r, heard)
  PROVE  /\ userRoles' \in [Users -> SUBSET Roles]
         /\ isActive' \in [Users -> BOOLEAN]
         /\ roleChanges' \in 0..MaxRoleChanges
         /\ nextId' \in 1..(MaxActions + 1)
         /\ lock' \in [ActionIds -> SUBSET Requests]
         /\ pc' \in [Requests -> {"idle", "done"} \cup Open]
         /\ call' \in [Requests -> CallType \cup {NoCall}]
         /\ snapshot' \in [Requests -> SUBSET Roles]
         /\ tx' \in [Requests -> Tx]
         /\ answer' \in [Requests -> Answers \cup {"none"}]
         /\ reply' \in [Requests -> Answers \cup {"none"}]
  BY EmptyTxType DEF TypeOK, Finish, people

\* A row inserted by a known call is a row of the table.
LEMMA InsertType ==
  ASSUME TypeOK, NEW r \in Requests, call[r] \in CallType,
         NEW status \in Statuses, NEW role \in TierRoles \cup {"none"},
         NEW notes \in SUBSET AuditRow, Insert(r, NewRow(r, status, role), notes)
  PROVE  nextId' \in 1..(MaxActions + 1) /\ tx' \in [Requests -> Tx]
  <1>1. NewRow(r, status, role) \in Row
    BY DEF NewRow, Row, CallType
  <1>2. nextId \in 0..MaxActions /\ nextId + 1 \in 1..(MaxActions + 1)
    BY ApprovalsAssumption DEF Insert, TypeOK
  <1>3. [id |-> nextId, row |-> NewRow(r, status, role), refund |-> 0, notes |-> notes] \in Tx
    BY <1>1, <1>2 DEF Tx
  <1> QED
    BY <1>2, <1>3 DEF Insert, TypeOK

\* Closing an action turns the transaction's row into another row of the table.
LEMMA CloseType ==
  ASSUME TypeOK, NEW r \in Requests, call[r] \in CallType,
         NEW status \in Statuses, NEW refund \in {0, 1},
         NEW note \in AuditRow, Close(r, status, refund, note)
  PROVE  tx' \in [Requests -> Tx]
  <1> DEFINE row == [tx[r].row EXCEPT !.status = status, !.approver = call[r].user]
  <1>1. tx[r].row \in Row /\ tx[r].id \in 0..MaxActions /\ call[r].user \in Users
    BY DEF TypeOK, Tx, CallType
  <1>2. row \in Row
    BY <1>1 DEF Row
  <1>3. [id |-> tx[r].id, row |-> row, refund |-> refund, notes |-> {note}] \in Tx
    BY <1>1, <1>2 DEF Tx
  <1> QED
    BY <1>3 DEF TypeOK, Close

LEMMA CloseEffect ==
  ASSUME TypeOK, NEW r \in Requests, NEW status, NEW refund, NEW note,
         Close(r, status, refund, note)
  PROVE  /\ tx'[r].id = tx[r].id /\ tx'[r].refund = refund /\ tx'[r].row.status = status
         /\ \A s \in Requests : s # r => tx'[s] = tx[s]
  <1>1. tx[r].row \in Row
    BY DEF TypeOK, Tx
  <1>2. [tx[r].row EXCEPT !.status = status, !.approver = call[r].user].status = status
    BY <1>1 DEF Row
  <1> QED
    BY <1>2 DEF Close, TypeOK

\* A request that has begun asks for something the API offers.
CallsKnown == \A r \in Requests : pc[r] \in Open => call[r] \in CallType

LEMMA TypeStep == TypeOK /\ CallsKnown /\ [Next]_vars => TypeOK' /\ CallsKnown'
  <1> SUFFICES ASSUME TypeOK, CallsKnown, [Next]_vars
               PROVE  TypeOK' /\ CallsKnown'
    OBVIOUS
  <1> USE ApprovalsAssumption
  <1>1. ASSUME NEW r \in Requests, NEW c \in Calls, GetCurrentUser(r, c)
        PROVE  TypeOK' /\ CallsKnown'
    <2>1. c \in CallType /\ userRoles[c.user] \in SUBSET Roles
      BY <1>1 DEF TypeOK, CallType
    <2>2. pc' \in [Requests -> {"idle", "done"} \cup Open]
      BY <1>1 DEF TypeOK, GetCurrentUser, Open
    <2> QED
      BY <1>1, <2>1, <2>2 DEF TypeOK, CallsKnown, GetCurrentUser, people, tables
  <1>2. ASSUME NEW r \in Requests, NEW c \in Calls, RefuseInactive(r, c)
        PROVE  TypeOK' /\ CallsKnown'
    BY <1>2 DEF TypeOK, CallsKnown, RefuseInactive, Raise, Open, Answers, people, tables
  <1>3. ASSUME NEW r \in Requests, NEW c \in Calls, PoolTimeout(r, c)
        PROVE  TypeOK' /\ CallsKnown'
    BY <1>3 DEF TypeOK, CallsKnown, PoolTimeout, Open, Answers, people, tables
  <1>4. ASSUME NEW r \in Requests, Handle(r)
        PROVE  TypeOK' /\ CallsKnown'
    <2>1. call[r] \in CallType
      BY <1>4 DEF CallsKnown, Open, Handle, RequestAction, RefuseUnknownType, RequestBlocked,
                  RequestPending, RequestAuto, DecideAction, RefuseMissing, SelectForUpdate,
                  RefuseHandled, RefuseDecision, Reject, Approve, ExecuteAndClose,
                  PerformCompletes, PerformFails, PerformAborts, ListActions, RequireRolesDenies
    <2> DEFINE Kept == /\ userRoles' = userRoles /\ isActive' = isActive
                       /\ roleChanges' = roleChanges /\ actions' = actions
                       /\ refunds' = refunds /\ auditLog' = auditLog
                       /\ call' = call /\ snapshot' = snapshot /\ reply' = reply
               Moved == /\ nextId' \in 1..(MaxActions + 1)
                        /\ lock' \in [ActionIds -> SUBSET Requests]
                        /\ tx' \in [Requests -> Tx]
                        /\ pc' \in [Requests -> {"idle", "done"} \cup Open]
                        /\ \A s \in Requests : s # r => pc'[s] = pc[s]
                        /\ answer' \in [Requests -> Answers \cup {"none"}]
    <2> SUFFICES Kept /\ Moved
      BY <2>1 DEF TypeOK, CallsKnown
    <2> USE DEF HandlerStep, people, tables, Return, Raise
    <2>2. CASE RequestAction(r)
      <3>1. /\ Audit(r, "request", "blocked", 0) \in AuditRow
            /\ nextId \in 0..MaxActions => Audit(r, "request", "allowed", nextId) \in AuditRow
        BY <2>1, AuditType
      <3>2. CASE RefuseUnknownType(r)
        BY <3>2 DEF RefuseUnknownType, TypeOK, Open, Answers
      <3>3. CASE RequestBlocked(r)
        <4>1. nextId' \in 1..(MaxActions + 1) /\ tx' \in [Requests -> Tx]
          <5>1. {Audit(r, "request", "blocked", 0)} \in SUBSET AuditRow
            BY <3>1
          <5>2. "blocked" \in Statuses /\ "none" \in TierRoles \cup {"none"}
            BY DEF Statuses
          <5> QED
            BY <3>3, <2>1, <5>1, <5>2, InsertType DEF RequestBlocked
        <4> QED
          BY <3>3, <4>1 DEF RequestBlocked, TypeOK, Open, Answers
      <3>4. ASSUME NEW role \in PossibleTiers(call[r].amount), RequestPending(r, role)
            PROVE  Kept /\ Moved
        <4>1. nextId' \in 1..(MaxActions + 1) /\ tx' \in [Requests -> Tx]
          <5>1. nextId \in 0..MaxActions
            BY <3>4 DEF RequestPending, Insert, TypeOK
          <5>2. {Audit(r, "request", "allowed", nextId)} \in SUBSET AuditRow
            BY <3>1, <5>1
          <5>3. "pending_approval" \in Statuses /\ role \in TierRoles \cup {"none"}
            BY DEF Statuses, PossibleTiers, TierRoles
          <5> QED
            BY <3>4, <2>1, <5>2, <5>3, InsertType DEF RequestPending
        <4> QED
          BY <3>4, <4>1 DEF RequestPending, TypeOK, Open, Answers
      <3>5. ASSUME NEW role \in PossibleTiers(call[r].amount), RequestAuto(r, role)
            PROVE  Kept /\ Moved
        <4>1. nextId' \in 1..(MaxActions + 1) /\ tx' \in [Requests -> Tx]
          BY <3>5, <2>1, InsertType DEF RequestAuto, PossibleTiers, TierRoles, Statuses
        <4> QED
          BY <3>5, <4>1 DEF RequestAuto, TypeOK, Open
      <3> QED
        BY <2>2, <3>2, <3>3, <3>4, <3>5 DEF RequestAction
    <2>3. CASE DecideAction(r)
      <3>1. CASE RefuseMissing(r) \/ RefuseHandled(r)
        BY <3>1 DEF RefuseMissing, RefuseHandled, TypeOK, Open, Answers
      <3>2. CASE SelectForUpdate(r)
        <4>1. /\ call[r].target \in ActionIds
              /\ [id |-> call[r].target, row |-> actions[call[r].target],
                  refund |-> 0, notes |-> {}] \in Tx
          BY <2>1 DEF TypeOK, CallType, Tx, ActionIds
        <4> QED
          BY <3>2, <4>1 DEF SelectForUpdate, TypeOK, Open
      <3>3. CASE RefuseDecision(r)
        <4>1. {Audit(r, "decide", "blocked", tx[r].id)} \in SUBSET AuditRow
          BY <2>1, AuditType DEF TypeOK, Tx
        <4>2. tx' \in [Requests -> Tx]
          BY SMTT(60), <3>3, <4>1 DEF RefuseDecision, TypeOK, Tx
        <4> QED
          BY <3>3, <4>2 DEF RefuseDecision, TypeOK, Open, Answers
      <3>4. CASE Reject(r)
        <4>1. Audit(r, "reject", "allowed", tx[r].id) \in AuditRow
          BY <2>1, AuditType DEF TypeOK, Tx
        <4>2. tx' \in [Requests -> Tx]
          BY <3>4, <4>1, <2>1, CloseType DEF Reject, Statuses, Decided
        <4> QED
          BY <3>4, <4>2 DEF Reject, TypeOK, Open, Answers
      <3>5. CASE Approve(r)
        BY <3>5 DEF Approve, TypeOK, Open
      <3> QED
        BY <2>3, <3>1, <3>2, <3>3, <3>4, <3>5 DEF DecideAction
    <2>4. CASE ExecuteAndClose(r)
      <3>1. /\ Audit(r, "execute", "allowed", tx[r].id) \in AuditRow
            /\ Audit(r, "execute", "error", tx[r].id) \in AuditRow
        BY <2>1, AuditType DEF TypeOK, Tx
      <3>2. CASE PerformCompletes(r)
        <4>1. tx' \in [Requests -> Tx]
          BY <3>1, <3>2, <2>1, CloseType DEF PerformCompletes, Statuses, Decided
        <4> QED
          BY <3>2, <4>1 DEF PerformCompletes, TypeOK, Open, Answers
      <3>3. CASE PerformFails(r)
        <4>1. tx' \in [Requests -> Tx]
          BY <3>1, <3>3, <2>1, CloseType DEF PerformFails, Statuses, Decided
        <4> QED
          BY <3>3, <4>1 DEF PerformFails, TypeOK, Open, Answers
      <3>4. CASE PerformAborts(r)
        BY <3>4 DEF PerformAborts, TypeOK, Open, Answers
      <3> QED
        BY <2>4, <3>2, <3>3, <3>4 DEF ExecuteAndClose
    <2>5. CASE ListActions(r)
      BY <2>5 DEF ListActions, TypeOK, Open, Answers
    <2>6. CASE RequireRolesDenies(r)
      <3>1. {Audit(r, "access", "blocked", 0)} \in SUBSET AuditRow
        BY <2>1, AuditType
      <3>2. tx' \in [Requests -> Tx]
        BY SMTT(60), <2>6, <3>1 DEF RequireRolesDenies, TypeOK, Tx
      <3> QED
        BY <2>6, <3>2 DEF RequireRolesDenies, TypeOK, Open, Answers
    <2> QED
      BY <1>4, <2>2, <2>3, <2>4, <2>5, <2>6 DEF Handle
  <1>5. ASSUME NEW r \in Requests, ReplyEarly(r)
        PROVE  TypeOK' /\ CallsKnown'
    BY <1>5 DEF TypeOK, CallsKnown, ReplyEarly, people, tables
  <1>6. ASSUME NEW r \in Requests, Commit(r) \/ Rollback(r) \/ Abort(r)
        PROVE  TypeOK' /\ CallsKnown'
    <2>1. PICK heard \in Answers \cup {"none"} : Finish(r, heard)
      BY <1>6 DEF Commit, Rollback, Abort, TypeOK, Answers
    <2>2. CallsKnown'
      BY <2>1 DEF Finish, CallsKnown, TypeOK, Open
    <2>3. actions' \in [ActionIds -> Row] /\ refunds' \in [ActionIds -> Nat] /\ auditLog' \subseteq AuditRow
      <3>1. CASE Commit(r)
        <4>1. tx[r].row \in Row /\ tx[r].refund \in Nat /\ tx[r].notes \subseteq AuditRow
          BY DEF TypeOK, Tx
        <4> QED
          BY <3>1, <4>1 DEF Commit, TypeOK
      <3>2. CASE UNCHANGED tables
        BY <3>2 DEF tables, TypeOK
      <3> QED
        BY <1>6, <3>1, <3>2 DEF Rollback, Abort
    <2> QED
      BY <2>1, <2>2, <2>3, FinishType DEF TypeOK
  <1>7. ASSUME NEW u \in Users, Deactivate(u)
        PROVE  TypeOK' /\ CallsKnown'
    BY <1>7 DEF TypeOK, CallsKnown, Deactivate, tables
  <1>8. ASSUME NEW u \in Users, NEW role \in Roles, Grant(u, role) \/ Revoke(u, role)
        PROVE  TypeOK' /\ CallsKnown'
    <2>1. /\ userRoles[u] \cup {role} \in SUBSET Roles
          /\ userRoles[u] \ {role} \in SUBSET Roles
      BY DEF TypeOK
    <2>2. ASSUME NEW held \in SUBSET Roles, EditRoles(u, held)
          PROVE  TypeOK' /\ CallsKnown'
      BY <2>2 DEF TypeOK, CallsKnown, EditRoles, tables
    <2> QED
      BY <1>8, <2>1, <2>2 DEF Grant, Revoke
  <1>9. CASE UNCHANGED vars
    BY <1>9 DEF TypeOK, CallsKnown, vars, people, tables
  <1> QED
    BY <1>1, <1>2, <1>3, <1>4, <1>5, <1>6, <1>7, <1>8, <1>9 DEF Next, Start, End, Terminating

\* Every variable keeps its type in every reachable state.
THEOREM TypeCorrect == Spec => []TypeOK
  <1>1. Init => TypeOK /\ CallsKnown
    BY InitType DEF Init, CallsKnown, Open
  <1> QED
    BY <1>1, TypeStep, PTL DEF Spec

-----------------------------------------------------------------------------
(* Uncommitted writes have one owner.                                      *)

\* A step of r that leaves the tables, the locks and the other requests alone keeps the
\* invariant when what r itself holds afterwards is right.
LEMMA LocalStep ==
  ASSUME TypeOK, WritersOwnTheirRows, NEW r \in Requests,
         actions' = actions, lock' = lock,
         nextId' \in Nat, nextId' >= nextId,
         pc' \in [Requests -> {"idle", "done"} \cup Open], tx' \in [Requests -> Tx],
         \A s \in Requests : s # r => pc'[s] = pc[s] /\ tx'[s] = tx[s],
         pc'[r] # "locked", TxFollowsPc(r)',
         r \in Writers' =>
           /\ OwnsDecided(r)' \/ OwnsNew(r)'
           /\ \A s \in Writers : s # r => tx'[r].id # tx[s].id
  PROVE  WritersOwnTheirRows'
  <1>1. \A s \in Requests : s # r => (s \in Writers' <=> s \in Writers)
    BY DEF Writers
  <1>2. OneLockHolder' /\ NoActionAhead'
    BY DEF WritersOwnTheirRows, OneLockHolder, NoActionAhead, TypeOK, ActionIds
  <1>3. OneWriter'
    BY <1>1 DEF WritersOwnTheirRows, OneWriter, Writers
  <1>4. \A s \in Requests : TxFollowsPc(s)'
    BY DEF WritersOwnTheirRows, TxFollowsPc
  <1>5. ASSUME NEW s \in Writers'
        PROVE  OwnsDecided(s)' \/ OwnsNew(s)'
    <2>1. CASE s = r
      BY <2>1, <1>5
    <2>2. CASE s # r
      <3>1. s \in Writers /\ tx[s].id \in Nat /\ nextId \in Nat
        BY <1>1, <1>5, <2>2 DEF Writers, TypeOK, Tx
      <3> QED
        BY <3>1, <2>2 DEF WritersOwnTheirRows, OwnsDecided, OwnsNew, Writers
    <2> QED
      BY <2>1, <2>2
  <1> QED
    BY <1>2, <1>3, <1>4, <1>5 DEF WritersOwnTheirRows

\* No open transaction can write under an id that the sequence has yet to give out.
LEMMA WrittenIdsBehind ==
  ASSUME TypeOK, WritersOwnTheirRows, NEW s \in Writers
  PROVE  tx[s].id \in ActionIds /\ tx[s].id < nextId
  <1>1. tx[s].id \in ActionIds /\ nextId \in Nat /\ tx[s].id \in Nat
    BY DEF Writers, TypeOK, Tx, ActionIds
  <1> QED
    BY <1>1 DEF WritersOwnTheirRows, NoActionAhead, OwnsDecided, OwnsNew

\* The holder of a pending row's lock is the only one that can write it.
LEMMA LockedIdIsFree ==
  ASSUME TypeOK, WritersOwnTheirRows, NEW r \in Requests, pc[r] = "locked",
         NEW s \in Writers
  PROVE  tx[s].id # tx[r].id
  <1>1. tx[r].id \in ActionIds /\ r \in lock[tx[r].id] /\ actions[tx[r].id].status # "absent"
    BY DEF WritersOwnTheirRows, TxFollowsPc
  <1>2. s # r
    BY DEF Writers
  <1> QED
    BY <1>1, <1>2 DEF WritersOwnTheirRows, OneLockHolder, OwnsDecided, OwnsNew, Writers

LEMMA InsertStep ==
  ASSUME TypeOK, TypeOK', WritersOwnTheirRows, NEW r \in Requests, HandlerStep,
         NEW status \in {"pending_approval", "blocked"}, NEW role, NEW notes,
         Insert(r, NewRow(r, status, role), notes), pc[r] = "authed",
         \/ pc' = [pc EXCEPT ![r] = "returned"]
         \/ status = "pending_approval" /\ pc' = [pc EXCEPT ![r] = "executing"]
  PROVE  WritersOwnTheirRows'
  <1>1. /\ nextId \in ActionIds /\ nextId' = nextId + 1 /\ nextId \in Nat
        /\ tx'[r].id = nextId /\ tx'[r].row.status = status /\ tx'[r].refund = 0
        /\ pc'[r] \in {"returned", "executing"}
        /\ pc'[r] = "executing" => status = "pending_approval"
        /\ \A s \in Requests : s # r => pc'[s] = pc[s] /\ tx'[s] = tx[s]
    BY DEF Insert, NewRow, TypeOK, ActionIds
  <1>2. TxFollowsPc(r)'
    BY <1>1 DEF TxFollowsPc, ActionIds
  <1>3. OwnsNew(r)'
    BY <1>1 DEF OwnsNew, HandlerStep, tables, WritersOwnTheirRows, NoActionAhead
  <1>4. \A s \in Writers : s # r => tx'[r].id # tx[s].id
    BY <1>1, WrittenIdsBehind
  <1> QED
    BY <1>1, <1>2, <1>3, <1>4, LocalStep DEF HandlerStep, tables, TypeOK

LEMMA RaiseStep ==
  ASSUME TypeOK, TypeOK', WritersOwnTheirRows, NEW r \in Requests,
         UNCHANGED <<actions, lock, nextId>>,
         pc' = [pc EXCEPT ![r] = "raised"] \/ pc' = [pc EXCEPT ![r] = "done"],
         \A s \in Requests : s # r => tx'[s] = tx[s]
  PROVE  WritersOwnTheirRows'
  <1>1. TxFollowsPc(r)' /\ r \notin Writers' /\ pc'[r] # "locked"
    BY DEF TypeOK, TxFollowsPc, Writers
  <1>2. \A s \in Requests : s # r => pc'[s] = pc[s]
    BY DEF TypeOK
  <1>3. nextId' \in Nat /\ nextId' >= nextId
    BY DEF TypeOK
  <1> QED
    BY <1>1, <1>2, <1>3, LocalStep DEF TypeOK

\* A transaction that ends without a COMMIT leaves the tables to the others.
LEMMA FinishStep ==
  ASSUME TypeOK, TypeOK', WritersOwnTheirRows, NEW r \in Requests, NEW heard, Finish(r, heard),
         \A a \in ActionIds : actions'[a] # actions[a] => r \in Writers /\ a = tx[r].id
  PROVE  WritersOwnTheirRows'
  <1>1. /\ pc'[r] = "done" /\ tx'[r] = EmptyTx /\ nextId' = nextId
        /\ \A s \in Requests : s # r => pc'[s] = pc[s] /\ tx'[s] = tx[s]
        /\ \A a \in ActionIds : lock'[a] = lock[a] \ {r}
    BY DEF Finish, TypeOK
  <1>2. Writers' = Writers \ {r}
    BY <1>1 DEF Writers
  <1>3. OneLockHolder' /\ OneWriter'
    BY <1>1, <1>2 DEF OneLockHolder, OneWriter, WritersOwnTheirRows, Writers
  <1>4. NoActionAhead'
    BY <1>1, WrittenIdsBehind DEF NoActionAhead, WritersOwnTheirRows, TypeOK, ActionIds
  <1>5. ASSUME NEW s \in Requests
        PROVE  TxFollowsPc(s)'
    <2>1. CASE s = r
      BY <1>1, <2>1 DEF TxFollowsPc
    <2>2. CASE s # r
      <3>1. pc[s] = "locked" => actions'[tx[s].id] = actions[tx[s].id] /\ tx[s].id \in ActionIds
        BY LockedIdIsFree DEF WritersOwnTheirRows, TxFollowsPc
      <3>2. TxFollowsPc(s)
        BY DEF WritersOwnTheirRows
      <3> QED
        BY <1>1, <2>2, <3>1, <3>2 DEF TxFollowsPc
    <2> QED
      BY <2>1, <2>2
  <1>6. ASSUME NEW s \in Writers'
        PROVE  OwnsDecided(s)' \/ OwnsNew(s)'
    <2>1. s \in Writers /\ s # r /\ tx[s].id \in ActionIds
      BY <1>2, <1>6, WrittenIdsBehind
    <2>2. actions'[tx[s].id] = actions[tx[s].id]
      BY <2>1 DEF WritersOwnTheirRows, OneWriter
    <2>3. tx'[s] = tx[s] /\ pc'[s] = pc[s] /\ s \in Requests
      BY <1>1, <2>1 DEF Writers
    <2> QED
      BY <1>1, <2>1, <2>2, <2>3 DEF WritersOwnTheirRows, OwnsDecided, OwnsNew
  <1> QED
    BY <1>3, <1>4, <1>5, <1>6 DEF WritersOwnTheirRows

LEMMA WritersStep == TypeOK /\ TypeOK' /\ CallsKnown /\ WritersOwnTheirRows /\ [Next]_vars
                       => WritersOwnTheirRows'
  <1> SUFFICES ASSUME TypeOK, TypeOK', CallsKnown, WritersOwnTheirRows, [Next]_vars
               PROVE  WritersOwnTheirRows'
    OBVIOUS
  <1>1. ASSUME NEW r \in Requests, NEW c \in Calls, Start(r)
        PROVE  WritersOwnTheirRows'
    <2>1. ASSUME NEW d \in Calls, GetCurrentUser(r, d)
          PROVE  WritersOwnTheirRows'
      <3>1. pc'[r] = "authed" /\ tx' = tx /\ tx[r] = EmptyTx
        BY <2>1 DEF GetCurrentUser, TypeOK, WritersOwnTheirRows, TxFollowsPc
      <3>2. TxFollowsPc(r)' /\ r \notin Writers'
        BY <3>1 DEF TxFollowsPc, Writers
      <3> QED
        BY <2>1, <3>1, <3>2, LocalStep DEF GetCurrentUser, tables, TypeOK
    <2>2. ASSUME NEW d \in Calls, RefuseInactive(r, d) \/ PoolTimeout(r, d)
          PROVE  WritersOwnTheirRows'
      BY <2>2, RaiseStep DEF RefuseInactive, PoolTimeout, Raise, tables
    <2> QED
      BY <1>1, <2>1, <2>2 DEF Start
  <1>2. ASSUME NEW r \in Requests, RequestAction(r)
        PROVE  WritersOwnTheirRows'
    <2>1. CASE RefuseUnknownType(r)
      BY <2>1, RaiseStep DEF RefuseUnknownType, Raise, HandlerStep, tables
    <2>2. CASE RequestBlocked(r)
      BY <2>2, InsertStep DEF RequestBlocked, Return
    <2>3. ASSUME NEW role \in PossibleTiers(call[r].amount), RequestPending(r, role)
          PROVE  WritersOwnTheirRows'
      BY <2>3, InsertStep DEF RequestPending, Return
    <2>4. ASSUME NEW role \in PossibleTiers(call[r].amount), RequestAuto(r, role)
          PROVE  WritersOwnTheirRows'
      BY <2>4, InsertStep DEF RequestAuto
    <2> QED
      BY <1>2, <2>1, <2>2, <2>3, <2>4 DEF RequestAction
  <1>3. ASSUME NEW r \in Requests, SelectForUpdate(r)
        PROVE  WritersOwnTheirRows'
    <2> DEFINE a == call[r].target
    <2>1. /\ a \in ActionIds /\ lock[a] = {} /\ actions[a].status # "absent"
          /\ actions' = actions /\ nextId' = nextId
          /\ lock' = [lock EXCEPT ![a] = {r}]
          /\ pc'[r] = "locked" /\ tx'[r].id = a /\ tx'[r].row = actions[a] /\ tx'[r].refund = 0
          /\ \A s \in Requests : s # r => pc'[s] = pc[s] /\ tx'[s] = tx[s]
      BY <1>3 DEF SelectForUpdate, CallsKnown, CallType, Open, TypeOK, tables
    <2>2. Writers' = Writers /\ r \notin Writers
      BY <1>3, <2>1 DEF Writers, SelectForUpdate
    <2>3. \A s \in Writers : s \in Requests /\ s # r /\ tx[s].id \in ActionIds
      BY <2>2, WrittenIdsBehind DEF Writers
    <2>4. OneLockHolder'
      BY <2>1 DEF OneLockHolder, WritersOwnTheirRows, TypeOK
    <2>5. OneWriter' /\ NoActionAhead'
      BY <2>1, <2>2, <2>3 DEF OneWriter, NoActionAhead, WritersOwnTheirRows
    <2>6. ASSUME NEW s \in Requests
          PROVE  TxFollowsPc(s)'
      <3>1. CASE s = r
        BY <2>1, <3>1 DEF TxFollowsPc, TypeOK
      <3>2. CASE s # r
        BY <2>1, <3>2 DEF TxFollowsPc, WritersOwnTheirRows, TypeOK
      <3> QED
        BY <3>1, <3>2
    <2>7. ASSUME NEW s \in Writers'
          PROVE  OwnsDecided(s)' \/ OwnsNew(s)'
      BY <2>1, <2>2, <2>3, <2>7 DEF WritersOwnTheirRows, OwnsDecided, OwnsNew, TypeOK
    <2> QED
      BY <2>4, <2>5, <2>6, <2>7 DEF WritersOwnTheirRows
  <1>4. ASSUME NEW r \in Requests, RefuseMissing(r) \/ RefuseHandled(r) \/ RefuseDecision(r)
        PROVE  WritersOwnTheirRows'
    BY <1>4, RaiseStep
       DEF RefuseMissing, RefuseHandled, RefuseDecision, Raise, HandlerStep, tables, TypeOK
  <1>5. ASSUME NEW r \in Requests, Reject(r) \/ Approve(r)
        PROVE  WritersOwnTheirRows'
    <2>1. /\ pc[r] = "locked" /\ tx[r].id \in ActionIds /\ r \in lock[tx[r].id]
          /\ tx[r].row = actions[tx[r].id] /\ tx[r].row.status = "pending_approval"
          /\ tx[r].refund = 0
      BY <1>5 DEF Reject, Approve, WritersOwnTheirRows, TxFollowsPc
    <2>2. /\ tx'[r].id = tx[r].id /\ tx'[r].refund = 0
          /\ \A s \in Requests : s # r => pc'[s] = pc[s] /\ tx'[s] = tx[s]
          /\ \/ pc'[r] = "executing" /\ tx'[r].row.status = "pending_approval"
             \/ pc'[r] = "returned" /\ tx'[r].row.status = "rejected"
          /\ actions' = actions /\ lock' = lock /\ nextId' = nextId
      <3>1. CASE Reject(r)
        BY <2>1, <3>1, CloseEffect DEF Reject, Return, HandlerStep, tables, TypeOK
      <3>2. CASE Approve(r)
        BY <2>1, <3>2 DEF Approve, HandlerStep, tables, TypeOK
      <3> QED
        BY <1>5, <3>1, <3>2
    <2>3. TxFollowsPc(r)'
      BY <2>1, <2>2 DEF TxFollowsPc, ActionIds
    <2>4. OwnsDecided(r)'
      BY <2>1, <2>2 DEF OwnsDecided, Decided
    <2>5. \A s \in Writers : s # r => tx'[r].id # tx[s].id
      BY <2>1, <2>2, LockedIdIsFree
    <2> QED
      BY SMTT(60), <2>2, <2>3, <2>4, <2>5, LocalStep DEF TypeOK
  <1>6. ASSUME NEW r \in Requests, PerformCompletes(r) \/ PerformFails(r)
        PROVE  WritersOwnTheirRows'
    <2>1. r \in Writers /\ pc[r] = "executing"
      BY <1>6 DEF PerformCompletes, PerformFails, Writers, WritersOwnTheirRows, TxFollowsPc
    <2>2. /\ tx'[r].id = tx[r].id /\ pc'[r] = "returned"
          /\ \A s \in Requests : s # r => pc'[s] = pc[s] /\ tx'[s] = tx[s]
          /\ \/ tx'[r].row.status = "completed" /\ tx'[r].refund = 1
             \/ tx'[r].row.status = "failed" /\ tx'[r].refund = 0
          /\ actions' = actions /\ lock' = lock /\ nextId' = nextId
      <3>1. CASE PerformCompletes(r)
        BY <3>1, CloseEffect DEF PerformCompletes, Return, HandlerStep, tables, TypeOK
      <3>2. CASE PerformFails(r)
        BY <3>2, CloseEffect DEF PerformFails, Return, HandlerStep, tables, TypeOK
      <3> QED
        BY <1>6, <3>1, <3>2
    <2>3. TxFollowsPc(r)'
      BY <2>2 DEF TxFollowsPc
    <2>4. OwnsDecided(r)' \/ OwnsNew(r)'
      BY <2>1, <2>2 DEF WritersOwnTheirRows, OwnsDecided, OwnsNew, Decided
    <2>5. \A s \in Writers : s # r => tx'[r].id # tx[s].id
      BY <2>1, <2>2 DEF WritersOwnTheirRows, OneWriter
    <2> QED
      BY SMTT(60), <2>2, <2>3, <2>4, <2>5, LocalStep DEF TypeOK
  <1>7. ASSUME NEW r \in Requests, PerformAborts(r) \/ RequireRolesDenies(r)
        PROVE  WritersOwnTheirRows'
    BY <1>7, RaiseStep DEF PerformAborts, RequireRolesDenies, Raise, HandlerStep, tables, TypeOK
  <1>8. ASSUME NEW r \in Requests, ListActions(r)
        PROVE  WritersOwnTheirRows'
    <2>1. pc'[r] = "returned" /\ tx' = tx /\ tx[r] = EmptyTx
      BY <1>8 DEF ListActions, Return, TypeOK, WritersOwnTheirRows, TxFollowsPc
    <2>2. TxFollowsPc(r)' /\ r \notin Writers'
      BY <2>1 DEF TxFollowsPc, Writers, EmptyTx, AbsentRow
    <2> QED
      BY <1>8, <2>1, <2>2, LocalStep DEF ListActions, Return, HandlerStep, tables, TypeOK
  <1>9. ASSUME NEW r \in Requests, Commit(r) \/ Rollback(r) \/ Abort(r)
        PROVE  WritersOwnTheirRows'
    <2>1. CASE Commit(r)
      <3>1. \A a \in ActionIds : actions'[a] # actions[a] => r \in Writers /\ a = tx[r].id
        BY <2>1 DEF Commit, TypeOK, Writers, ActionIds
      <3> QED
        BY <2>1, <3>1, FinishStep DEF Commit
    <2>2. CASE Rollback(r) \/ Abort(r)
      BY <2>2, FinishStep DEF Rollback, Abort, tables
    <2> QED
      BY <1>9, <2>1, <2>2
  <1>10. ASSUME \/ UNCHANGED vars
                \/ \E r \in Requests : ReplyEarly(r)
                \/ \E u \in Users : Deactivate(u)
                \/ \E u \in Users, role \in Roles : Grant(u, role) \/ Revoke(u, role)
         PROVE  WritersOwnTheirRows'
    <2>1. UNCHANGED <<tables, nextId, lock, pc, tx>>
      BY <1>10 DEF vars, ReplyEarly, Deactivate, Grant, Revoke, EditRoles
    <2> QED
      BY <2>1 DEF WritersOwnTheirRows, OneLockHolder, OneWriter, NoActionAhead, TxFollowsPc,
                  OwnsDecided, OwnsNew, Writers, tables
  <1> QED
    BY <1>1, <1>2, <1>3, <1>4, <1>5, <1>6, <1>7, <1>8, <1>9, <1>10
       DEF Next, Start, Handle, End, DecideAction, ExecuteAndClose, Terminating

-----------------------------------------------------------------------------
(* The theorems.                                                           *)

Inv == TypeOK /\ CallsKnown /\ WritersOwnTheirRows /\ RefundIffCompleted

LEMMA InitInv == Init => Inv
  <1> SUFFICES ASSUME Init PROVE Inv
    OBVIOUS
  <1>1. TypeOK /\ CallsKnown
    BY InitType DEF Init, CallsKnown, Open
  <1>2. WritersOwnTheirRows
    BY DEF Init, WritersOwnTheirRows, OneLockHolder, OneWriter, NoActionAhead, TxFollowsPc,
           OwnsDecided, OwnsNew, Writers, AbsentRow
  <1>3. RefundIffCompleted
    BY DEF Init, RefundIffCompleted, AbsentRow
  <1> QED
    BY <1>1, <1>2, <1>3 DEF Inv

\* Only a COMMIT changes the tables.
LEMMA TablesChangeAtCommit ==
  ASSUME [Next]_vars, tables' # tables
  PROVE  \E r \in Requests : Commit(r)
  BY ZenonT(60) DEF Next, Start, GetCurrentUser, RefuseInactive, PoolTimeout, Handle, RequestAction,
         RefuseUnknownType, RequestBlocked, RequestPending, RequestAuto, DecideAction,
         RefuseMissing, SelectForUpdate, RefuseHandled, RefuseDecision, Reject, Approve,
         ExecuteAndClose, PerformCompletes, PerformFails, PerformAborts, ListActions,
         RequireRolesDenies, HandlerStep, End, ReplyEarly, Rollback, Abort, Deactivate,
         Grant, Revoke, EditRoles, Terminating, vars

\* What a COMMIT does to the tables: at most one action changes, from absent or pending to a
\* status that the write path gives it, and its refund appears with `completed`.
LEMMA CommitEffect ==
  ASSUME Inv, NEW r \in Requests, Commit(r)
  PROVE  \/ actions' = actions /\ refunds' = refunds
         \/ /\ tx[r].id \in ActionIds
            /\ actions' = [actions EXCEPT ![tx[r].id] = tx[r].row]
            /\ refunds[tx[r].id] = 0
            /\ refunds' = [refunds EXCEPT ![tx[r].id] =
                              IF tx[r].row.status = "completed" THEN 1 ELSE 0]
            /\ \/ /\ actions[tx[r].id].status = "pending_approval"
                  /\ tx[r].row.status \in Decided
               \/ /\ actions[tx[r].id].status = "absent"
                  /\ tx[r].row.status \in {"pending_approval", "blocked", "completed", "failed"}
  <1>1. pc[r] = "returned" /\ tx[r].id \in 0..MaxActions
    BY DEF Commit, Inv, TypeOK, Tx
  <1>2. CASE tx[r].id = 0
    <2>1. \A a \in ActionIds : a # tx[r].id
      BY <1>2 DEF ActionIds
    <2> QED
      BY <2>1 DEF Commit, Inv, TypeOK
  <1>3. CASE tx[r].id # 0
    <2>1. r \in Writers /\ tx[r].id \in ActionIds
      BY <1>1, <1>3 DEF Writers, ActionIds
    <2>2. OwnsDecided(r) \/ OwnsNew(r)
      BY <2>1 DEF Inv, WritersOwnTheirRows
    <2>3. tx[r].refund = IF tx[r].row.status = "completed" THEN 1 ELSE 0
      BY <1>1 DEF Inv, WritersOwnTheirRows, TxFollowsPc
    <2>4. refunds[tx[r].id] = 0
      BY <2>1, <2>2 DEF Inv, RefundIffCompleted, OwnsDecided, OwnsNew
    <2>5. actions' = [actions EXCEPT ![tx[r].id] = tx[r].row]
      BY <2>1 DEF Commit, Inv, TypeOK
    <2>6. refunds' = [refunds EXCEPT ![tx[r].id] = tx[r].refund]
      <3>1. refunds \in [ActionIds -> Nat] /\ tx[r].refund \in Nat
        BY <2>3 DEF Inv, TypeOK
      <3>2. refunds[tx[r].id] + tx[r].refund = tx[r].refund
        BY <2>4, <3>1
      <3>3. refunds' = [a \in ActionIds |-> IF a = tx[r].id THEN tx[r].refund ELSE refunds[a]]
        BY <3>2 DEF Commit
      <3> QED
        BY <3>1, <3>3
    <2> QED
      BY <1>1, <2>1, <2>2, <2>3, <2>4, <2>5, <2>6 DEF OwnsDecided, OwnsNew
  <1> QED
    BY <1>2, <1>3

LEMMA NextInv == Inv /\ [Next]_vars => Inv'
  <1> SUFFICES ASSUME Inv, [Next]_vars PROVE Inv'
    OBVIOUS
  <1>1. TypeOK' /\ CallsKnown'
    BY TypeStep DEF Inv
  <1>2. WritersOwnTheirRows'
    BY <1>1, WritersStep DEF Inv
  <1>3. RefundIffCompleted'
    <2>1. CASE UNCHANGED tables
      BY <2>1 DEF Inv, RefundIffCompleted, tables
    <2>2. ASSUME NEW r \in Requests, Commit(r)
          PROVE  RefundIffCompleted'
      BY <2>2, CommitEffect DEF Inv, RefundIffCompleted, TypeOK
    <2> QED
      BY <2>1, <2>2, TablesChangeAtCommit
  <1> QED
    BY <1>1, <1>2, <1>3 DEF Inv

LEMMA Invariance == Spec => []Inv
  BY InitInv, NextInv, PTL DEF Spec

\* An open transaction owns what it has written until it commits: the locks, the pending
\* rows they guard and the fresh ids keep any two requests apart.
THEOREM Ownership == Spec => []WritersOwnTheirRows
  BY Invariance, PTL DEF Inv

\* A completed action has exactly one refund, any other action has none, whatever
\* interleaving, failure or rollback the requests meet.
THEOREM RefundOnce == Spec => []RefundIffCompleted
  BY Invariance, PTL DEF Inv

\* A decided or blocked action never changes again and no recorded action disappears.
THEOREM Finality == Spec => DecidedForGood
  <1> DEFINE Final == \A a \in ActionIds :
                /\ actions[a].status \in Decided \cup {"blocked"} => actions'[a] = actions[a]
                /\ actions[a].status # "absent" => actions'[a].status # "absent"
  <1>1. Inv /\ [Next]_vars => [Final]_vars
    <2> SUFFICES ASSUME Inv, [Next]_vars PROVE Final
      OBVIOUS
    <2>1. CASE UNCHANGED tables
      BY <2>1 DEF tables
    <2>2. ASSUME NEW r \in Requests, Commit(r)
          PROVE  Final
      BY <2>2, CommitEffect DEF Inv, TypeOK, Decided
    <2> QED
      BY <2>1, <2>2, TablesChangeAtCommit
  <1> QED
    BY <1>1, Invariance, PTL DEF Spec, DecidedForGood

\* Approvals implements the abstract life of an action: through agent_actions and
\* refund_requests a client sees an action recorded once and decided at most once, its
\* refund in the same step as `completed`.
THEOREM Refinement == Spec => ImplementsLifecycle
  <1>1. Init => Lifecycle!Init
    BY DEF Init, Lifecycle!Init, StatusOf, AbsentRow
  <1>2. Inv /\ [Next]_vars => [Lifecycle!Next]_(Lifecycle!vars)
    <2> SUFFICES ASSUME Inv, [Next]_vars PROVE [Lifecycle!Next]_(Lifecycle!vars)
      OBVIOUS
    <2>1. CASE actions' = actions /\ refunds' = refunds
      BY <2>1 DEF Lifecycle!vars, StatusOf
    <2>2. ASSUME NEW r \in Requests, Commit(r), ~(actions' = actions /\ refunds' = refunds)
          PROVE  Lifecycle!Next
      <3> DEFINE a == tx[r].id
                 s == tx[r].row.status
      <3>1. /\ a \in ActionIds
            /\ actions' = [actions EXCEPT ![a] = tx[r].row]
            /\ refunds' = [refunds EXCEPT ![a] = IF s = "completed" THEN 1 ELSE 0]
            /\ \/ actions[a].status = "pending_approval" /\ s \in Decided
               \/ /\ actions[a].status = "absent"
                  /\ s \in {"pending_approval", "blocked", "completed", "failed"}
        BY <2>2, CommitEffect
      <3>2. StatusOf' = [StatusOf EXCEPT ![a] = s]
        BY <3>1 DEF StatusOf, Inv, TypeOK
      <3>3. Lifecycle!Becomes(a, s)
        BY <3>1, <3>2 DEF Lifecycle!Becomes
      <3>4. StatusOf[a] = actions[a].status
        BY <3>1 DEF StatusOf
      <3>5. Lifecycle!Record(a) \/ Lifecycle!Decide(a)
        BY <3>1, <3>3, <3>4 DEF Lifecycle!Record, Lifecycle!Decide, Lifecycle!Decided, Decided
      <3> QED
        BY <3>1, <3>5 DEF Lifecycle!Next
    <2> QED
      BY <2>1, <2>2, TablesChangeAtCommit DEF tables
  <1> QED
    BY <1>1, <1>2, Invariance, PTL DEF Spec, ImplementsLifecycle, Lifecycle!Spec

-----------------------------------------------------------------------------
(* Who decided, what audit_log says of it, and what the client is told.    *)

\* A pending row asks for a role of the tiers, above the ceiling for an admin.
TierRow(row) == row.role \in TierRoles /\ (row.amount > HardCeiling => row.role = "admin")

\* What entitles r to close the action of its transaction.
Authorized(r) ==
  /\ HasAuthority(snapshot[r], tx[r].row.role)
  /\ tx[r].row.amount > HardCeiling => "admin" \in snapshot[r]
  /\ \/ /\ call[r].kind = "decide" /\ call[r].target = tx[r].id
        /\ call[r].user # tx[r].row.requester
     \/ call[r].kind = "create" /\ call[r].user = tx[r].row.requester

\* The handler has closed the action: its audit row and its answer say the same.
Closed(r) ==
  /\ tx[r].id # 0 /\ Authorized(r)
  /\ tx[r].row.approver = call[r].user
  /\ answer[r] = tx[r].row.status
  /\ tx[r].notes = {Audit(r, IF tx[r].row.status = "rejected" THEN "reject" ELSE "execute",
                         IF tx[r].row.status = "failed" THEN "error" ELSE "allowed", tx[r].id)}

Honest(r) ==
  /\ pc[r] = "locked" => call[r].kind = "decide" /\ call[r].target = tx[r].id
  /\ pc[r] = "executing" => Authorized(r)
  /\ pc[r] \in {"executing", "returned"} /\ tx[r].row.status = "pending_approval" =>
       TierRow(tx[r].row)
  /\ pc[r] = "returned" =>
       IF tx[r].row.status \in Decided
       THEN Closed(r)
       ELSE /\ answer[r] \notin Decided
            /\ \A n \in tx[r].notes : n.action \notin {"execute", "reject"}
  /\ pc[r] = "raised" => answer[r] \notin Decided
  /\ ~ReplyBeforeCommit /\ pc[r] # "done" => reply[r] = "none"

PendingTiers == \A a \in ActionIds :
  actions[a].status = "pending_approval" => TierRow(actions[a])

AllHonest == PendingTiers /\ \A r \in Requests : Honest(r)

History ==
  /\ AuditMatchesActions
  /\ DecisionHadAuthority
  /\ ~ReplyBeforeCommit => RepliesAreDurable

\* Nothing of request s changes.
Untouched(s) ==
  /\ pc'[s] = pc[s] /\ call'[s] = call[s] /\ snapshot'[s] = snapshot[s]
  /\ tx'[s] = tx[s] /\ answer'[s] = answer[s] /\ reply'[s] = reply[s]

LEMMA UntouchedIsHonest ==
  ASSUME NEW s \in Requests, Honest(s), Untouched(s)
  PROVE  Honest(s)'
  BY DEF Honest, Untouched, Authorized, Closed, TierRow, Audit, HasAuthority

LEMMA CloseRow ==
  ASSUME TypeOK, NEW r \in Requests, NEW status, NEW refund, NEW note,
         Close(r, status, refund, note)
  PROVE  /\ tx'[r].id = tx[r].id /\ tx'[r].notes = {note}
         /\ tx'[r].row.status = status /\ tx'[r].row.approver = call[r].user
         /\ tx'[r].row.requester = tx[r].row.requester
         /\ tx'[r].row.amount = tx[r].row.amount /\ tx'[r].row.role = tx[r].row.role
         /\ \A s \in Requests : s # r => tx'[s] = tx[s]
  <1>1. tx[r].row \in Row
    BY DEF TypeOK, Tx
  <1> DEFINE row == [tx[r].row EXCEPT !.status = status, !.approver = call[r].user]
  <1>2. /\ row.status = status /\ row.approver = call[r].user
        /\ row.requester = tx[r].row.requester
        /\ row.amount = tx[r].row.amount /\ row.role = tx[r].row.role
    BY <1>1 DEF Row
  <1>3. tx'[r] = [id |-> tx[r].id, row |-> row, refund |-> refund, notes |-> {note}]
    BY DEF Close, TypeOK
  <1>4. \A s \in Requests : s # r => tx'[s] = tx[s]
    BY DEF Close, TypeOK
  <1> HIDE DEF row
  <1> QED
    BY <1>2, <1>3, <1>4

LEMMA InsertRow ==
  ASSUME TypeOK, NEW r \in Requests, NEW status, NEW role, NEW notes,
         Insert(r, NewRow(r, status, role), notes)
  PROVE  /\ tx'[r].id = nextId /\ tx'[r].notes = notes
         /\ tx'[r].row = NewRow(r, status, role)
         /\ \A s \in Requests : s # r => tx'[s] = tx[s]
  BY DEF Insert, TypeOK

\* A handler's step touches no other request.
LEMMA HandlerTouchesOne ==
  ASSUME TypeOK, NEW r \in Requests, Handle(r)
  PROVE  /\ UNCHANGED <<call, snapshot, reply>>
         /\ \A s \in Requests : s # r => Untouched(s)
  <1>1. UNCHANGED <<call, snapshot, reply>>
    BY DEF Handle, RequestAction, RefuseUnknownType, RequestBlocked, RequestPending, RequestAuto,
       DecideAction, RefuseMissing, SelectForUpdate, RefuseHandled, RefuseDecision, Reject,
       Approve, ExecuteAndClose, PerformCompletes, PerformFails, PerformAborts, ListActions,
       RequireRolesDenies, HandlerStep
  <1>2. \A s \in Requests : s # r => pc'[s] = pc[s] /\ answer'[s] = answer[s]
    BY DEF Handle, RequestAction, RefuseUnknownType, RequestBlocked, RequestPending, RequestAuto,
       DecideAction, RefuseMissing, SelectForUpdate, RefuseHandled, RefuseDecision, Reject,
       Approve, ExecuteAndClose, PerformCompletes, PerformFails, PerformAborts, ListActions,
       RequireRolesDenies, Return, Raise, TypeOK
  <1>3. \A s \in Requests : s # r => tx'[s] = tx[s]
    BY DEF Handle, RequestAction, RefuseUnknownType, RequestBlocked, RequestPending, RequestAuto,
       DecideAction, RefuseMissing, SelectForUpdate, RefuseHandled, RefuseDecision, Reject,
       Approve, ExecuteAndClose, PerformCompletes, PerformFails, PerformAborts, ListActions,
       RequireRolesDenies, Insert, Close, TypeOK
  <1> QED
    BY <1>1, <1>2, <1>3 DEF Untouched

\* A request that has raised owes nothing.
LEMMA RaisedIsHonest ==
  ASSUME TypeOK, NEW r \in Requests, Honest(r), NEW what \in Answers \ Decided, Raise(r, what),
         reply'[r] = reply[r], pc[r] # "done"
  PROVE  Honest(r)'
  <1>1. pc'[r] = "raised" /\ answer'[r] = what
    BY DEF Raise, TypeOK
  <1> QED
    BY <1>1 DEF Honest

LEMMA RequestIsHonest ==
  ASSUME Inv, NEW r \in Requests, Honest(r), RequestAction(r)
  PROVE  Honest(r)'
  <1> USE DEF Inv
  <1>1. pc[r] = "authed" /\ UNCHANGED <<call, snapshot, reply>>
    BY DEF RequestAction, RefuseUnknownType, RequestBlocked, RequestPending, RequestAuto,
       HandlerStep
  <1>2. CASE RefuseUnknownType(r)
    BY <1>1, <1>2, RaisedIsHonest DEF RefuseUnknownType, Answers, Decided
  <1>3. CASE RequestBlocked(r)
    <2>1. /\ pc'[r] = "returned" /\ answer'[r] = "blocked"
          /\ tx'[r].row.status = "blocked" /\ tx'[r].notes = {Audit(r, "request", "blocked", 0)}
      BY <1>3, InsertRow DEF RequestBlocked, Return, TypeOK, NewRow
    <2> QED
      BY <1>1, <2>1 DEF Honest, Audit, Decided
  <1>4. ASSUME NEW role \in PossibleTiers(call[r].amount), RequestPending(r, role)
        PROVE  Honest(r)'
    <2>1. /\ pc'[r] = "returned" /\ answer'[r] = "pending_approval"
          /\ tx'[r].row = NewRow(r, "pending_approval", role)
          /\ tx'[r].notes = {Audit(r, "request", "allowed", nextId)}
      BY <1>4, InsertRow DEF RequestPending, Return, TypeOK
    <2>2. TierRow(NewRow(r, "pending_approval", role))
      BY DEF TierRow, NewRow, PossibleTiers, TierRoles
    <2> QED
      BY <1>1, <2>1, <2>2 DEF Honest, Audit, Decided, NewRow, TierRow
  <1>5. ASSUME NEW role \in PossibleTiers(call[r].amount), RequestAuto(r, role)
        PROVE  Honest(r)'
    <2>1. /\ pc'[r] = "executing" /\ call[r].kind = "create" /\ HasAuthority(snapshot[r], role)
          /\ tx'[r].row = NewRow(r, "pending_approval", role)
      BY <1>5, InsertRow DEF RequestAuto, TypeOK
    <2>2. TierRow(NewRow(r, "pending_approval", role))
      BY DEF TierRow, NewRow, PossibleTiers, TierRoles
    <2>3. Authorized(r)'
      BY <1>1, <2>1, <2>2 DEF Authorized, NewRow, TierRow, HasAuthority
    <2> QED
      BY <1>1, <2>1, <2>2, <2>3 DEF Honest, TierRow
  <1> QED
    BY <1>2, <1>3, <1>4, <1>5 DEF RequestAction

LEMMA DecideIsHonest ==
  ASSUME Inv, PendingTiers, NEW r \in Requests, Honest(r), DecideAction(r)
  PROVE  Honest(r)'
  <1> USE DEF Inv
  <1>1. pc[r] \in {"authed", "locked"} /\ UNCHANGED <<call, snapshot, reply>>
    BY DEF DecideAction, RefuseMissing, SelectForUpdate, RefuseHandled, RefuseDecision, Reject,
       Approve, HandlerStep
  <1>2. CASE RefuseMissing(r) \/ RefuseHandled(r) \/ RefuseDecision(r)
    BY <1>1, <1>2, RaisedIsHonest
       DEF RefuseMissing, RefuseHandled, RefuseDecision, Answers, Decided
  <1>3. CASE SelectForUpdate(r)
    <2>1. pc'[r] = "locked" /\ tx'[r].id = call[r].target /\ call[r].kind = "decide"
      BY <1>3 DEF SelectForUpdate, TypeOK
    <2> QED
      BY <1>1, <2>1 DEF Honest
  <1>4. ASSUME Reject(r) \/ Approve(r)
        PROVE  /\ tx[r].id # 0 /\ TierRow(tx[r].row) /\ Authorized(r)
    <2>1. /\ pc[r] = "locked" /\ tx[r].row.status = "pending_approval" /\ CanApprove(r)
          /\ tx[r].id \in ActionIds /\ tx[r].row = actions[tx[r].id]
          /\ call[r].kind = "decide" /\ call[r].target = tx[r].id
      BY <1>4 DEF Reject, Approve, WritersOwnTheirRows, TxFollowsPc, Honest
    <2>2. TierRow(tx[r].row)
      BY <2>1 DEF PendingTiers
    <2>3. HasAuthority(snapshot[r], tx[r].row.role)
      BY <2>1, <2>2 DEF CanApprove, StoredRole, TierRow, TierRoles
    <2> QED
      BY <2>1, <2>2, <2>3 DEF Authorized, CanApprove, TierRow, HasAuthority, ActionIds
  <1>5. CASE Reject(r)
    <2>1. /\ tx'[r].id = tx[r].id /\ tx'[r].notes = {Audit(r, "reject", "allowed", tx[r].id)}
          /\ tx'[r].row.status = "rejected" /\ tx'[r].row.approver = call[r].user
          /\ tx'[r].row.requester = tx[r].row.requester
          /\ tx'[r].row.amount = tx[r].row.amount /\ tx'[r].row.role = tx[r].row.role
      BY <1>5, CloseRow DEF Reject
    <2>2. pc'[r] = "returned" /\ answer'[r] = "rejected"
      BY <1>5 DEF Reject, Return, TypeOK
    <2>3. Authorized(r)'
      BY <1>1, <1>4, <1>5, <2>1 DEF Authorized
    <2>4. Closed(r)'
      BY <1>1, <1>4, <1>5, <2>1, <2>2, <2>3 DEF Closed, Audit
    <2> QED
      BY <1>1, <2>1, <2>2, <2>4 DEF Honest, Decided
  <1>6. CASE Approve(r)
    <2>1. pc'[r] = "executing" /\ tx' = tx
      BY <1>6 DEF Approve, TypeOK
    <2> QED
      BY <1>1, <1>4, <1>6, <2>1 DEF Honest, Authorized, TierRow
  <1> QED
    BY <1>2, <1>3, <1>5, <1>6 DEF DecideAction

LEMMA ExecuteIsHonest ==
  ASSUME Inv, NEW r \in Requests, Honest(r), ExecuteAndClose(r)
  PROVE  Honest(r)'
  <1> USE DEF Inv
  <1>1. pc[r] = "executing" /\ Authorized(r) /\ UNCHANGED <<call, snapshot, reply>>
    BY DEF ExecuteAndClose, PerformCompletes, PerformFails, PerformAborts, HandlerStep, Honest
  <1>2. CASE PerformAborts(r)
    BY <1>1, <1>2, RaisedIsHonest DEF PerformAborts, Answers, Decided
  <1>3. ASSUME NEW status \in {"completed", "failed"}, NEW refund,
               Close(r, status, refund,
                     Audit(r, "execute", IF status = "failed" THEN "error" ELSE "allowed", tx[r].id)),
               Return(r, status)
        PROVE  Honest(r)'
    <2> DEFINE note == Audit(r, "execute", IF status = "failed" THEN "error" ELSE "allowed", tx[r].id)
    <2>1. /\ tx'[r].id = tx[r].id /\ tx'[r].notes = {note}
          /\ tx'[r].row.status = status /\ tx'[r].row.approver = call[r].user
          /\ tx'[r].row.requester = tx[r].row.requester
          /\ tx'[r].row.amount = tx[r].row.amount /\ tx'[r].row.role = tx[r].row.role
      BY <1>3, CloseRow
    <2>2. pc'[r] = "returned" /\ answer'[r] = status
      BY <1>3 DEF Return, TypeOK
    <2>3. tx[r].id # 0
      BY <1>1 DEF WritersOwnTheirRows, TxFollowsPc
    <2>4. Authorized(r)'
      BY <1>1, <2>1 DEF Authorized
    <2>5. Closed(r)'
      BY <1>1, <2>1, <2>2, <2>3, <2>4 DEF Closed, Audit
    <2> QED
      BY <1>1, <2>1, <2>2, <2>5 DEF Honest, Decided
  <1>4. CASE PerformCompletes(r)
    BY <1>3, <1>4 DEF PerformCompletes
  <1>5. CASE PerformFails(r)
    BY <1>3, <1>5 DEF PerformFails
  <1> QED
    BY <1>2, <1>4, <1>5 DEF ExecuteAndClose

LEMMA HandleIsHonest ==
  ASSUME Inv, PendingTiers, NEW r \in Requests, Honest(r), Handle(r)
  PROVE  Honest(r)'
  <1> USE DEF Inv
  <1>1. CASE ListActions(r)
    <2>1. /\ pc'[r] = "returned" /\ tx' = tx /\ tx[r] = EmptyTx /\ answer'[r] = "listed"
          /\ reply' = reply /\ pc[r] = "authed"
      BY <1>1 DEF ListActions, Return, HandlerStep, TypeOK, WritersOwnTheirRows, TxFollowsPc
    <2> QED
      BY <2>1 DEF Honest, EmptyTx, AbsentRow, Decided
  <1>2. CASE RequireRolesDenies(r)
    BY <1>2, RaisedIsHonest DEF RequireRolesDenies, HandlerStep, Answers, Decided
  <1> QED
    BY <1>1, <1>2, RequestIsHonest, DecideIsHonest, ExecuteIsHonest DEF Handle

\* The end of a transaction touches no other request, and its own request is done.
LEMMA FinishIsHonest ==
  ASSUME TypeOK, \A s \in Requests : Honest(s), NEW r \in Requests, NEW heard, Finish(r, heard)
  PROVE  \A s \in Requests : Honest(s)'
  <1>1. pc'[r] = "done" /\ \A s \in Requests : s # r => Untouched(s)
    BY DEF Finish, TypeOK, Untouched
  <1>2. Honest(r)'
    BY <1>1 DEF Honest
  <1> QED
    BY <1>1, <1>2, UntouchedIsHonest

LEMMA HonestStep ==
  ASSUME Inv, AllHonest, [Next]_vars
  PROVE  \A s \in Requests : Honest(s)'
  <1> USE DEF Inv, AllHonest
  <1>1. ASSUME NEW r \in Requests, NEW c \in Calls, GetCurrentUser(r, c) \/ RefuseInactive(r, c)
        PROVE  \A s \in Requests : Honest(s)'
    <2>1. \A s \in Requests : s # r => Untouched(s)
      BY <1>1 DEF GetCurrentUser, RefuseInactive, Raise, Untouched, TypeOK
    <2>2. Honest(r)'
      BY <1>1 DEF GetCurrentUser, RefuseInactive, Raise, Honest, TypeOK, Decided
    <2> QED
      BY <2>1, <2>2, UntouchedIsHonest
  <1>2. ASSUME NEW r \in Requests, NEW c \in Calls, PoolTimeout(r, c)
        PROVE  \A s \in Requests : Honest(s)'
    <2>1. \A s \in Requests : s # r => Untouched(s)
      BY <1>2 DEF PoolTimeout, Untouched, TypeOK
    <2>2. Honest(r)'
      BY <1>2 DEF PoolTimeout, Honest, TypeOK
    <2> QED
      BY <2>1, <2>2, UntouchedIsHonest
  <1>3. ASSUME NEW r \in Requests, Handle(r)
        PROVE  \A s \in Requests : Honest(s)'
    BY <1>3, HandleIsHonest, HandlerTouchesOne, UntouchedIsHonest
  <1>4. ASSUME NEW r \in Requests, ReplyEarly(r)
        PROVE  \A s \in Requests : Honest(s)'
    <2>1. \A s \in Requests : s # r => Untouched(s)
      BY <1>4 DEF ReplyEarly, Untouched, TypeOK
    <2>2. Honest(r)'
      BY <1>4 DEF ReplyEarly, Honest, Authorized, Closed, TierRow, Audit, HasAuthority
    <2> QED
      BY <2>1, <2>2, UntouchedIsHonest
  <1>5. ASSUME NEW r \in Requests, Commit(r) \/ Rollback(r) \/ Abort(r)
        PROVE  \A s \in Requests : Honest(s)'
    BY <1>5, FinishIsHonest DEF Commit, Rollback, Abort
  <1>6. ASSUME \/ UNCHANGED vars
               \/ \E u \in Users : Deactivate(u)
               \/ \E u \in Users, role \in Roles : Grant(u, role) \/ Revoke(u, role)
        PROVE  \A s \in Requests : Honest(s)'
    <2>1. \A s \in Requests : Untouched(s)
      BY <1>6 DEF vars, Deactivate, Grant, Revoke, EditRoles, Untouched
    <2> QED
      BY <2>1, UntouchedIsHonest
  <1> QED
    BY <1>1, <1>2, <1>3, <1>4, <1>5, <1>6 DEF Next, Start, End, Terminating

\* A commit of r: what it writes of its action, and that it leaves the others alone.
LEMMA CommitOfRow ==
  ASSUME Inv, NEW r \in Requests, Commit(r)
  PROVE  /\ \A a \in ActionIds : a # tx[r].id => actions'[a] = actions[a]
         /\ tx[r].id \in ActionIds =>
              /\ actions'[tx[r].id] = tx[r].row
              /\ actions[tx[r].id].status \in {"absent", "pending_approval"}
         /\ auditLog' = auditLog \cup tx[r].notes
         /\ UNCHANGED <<call, snapshot>>
         /\ pc[r] = "returned" /\ pc'[r] = "done" /\ reply'[r] = answer[r]
         /\ \A s \in Requests : s # r => pc'[s] = pc[s] /\ reply'[s] = reply[s]
  <1>1. /\ \A a \in ActionIds : a # tx[r].id => actions'[a] = actions[a]
        /\ tx[r].id \in ActionIds => actions'[tx[r].id] = tx[r].row
        /\ auditLog' = auditLog \cup tx[r].notes
        /\ UNCHANGED <<call, snapshot>>
        /\ pc[r] = "returned" /\ pc'[r] = "done" /\ reply'[r] = answer[r]
        /\ \A s \in Requests : s # r => pc'[s] = pc[s] /\ reply'[s] = reply[s]
    BY DEF Commit, Finish, Inv, TypeOK
  <1>2. tx[r].id \in ActionIds => actions[tx[r].id].status \in {"absent", "pending_approval"}
    <2> SUFFICES ASSUME tx[r].id \in ActionIds
                 PROVE  actions[tx[r].id].status \in {"absent", "pending_approval"}
      OBVIOUS
    <2>1. r \in Writers
      BY <1>1 DEF Writers, ActionIds
    <2> QED
      BY <2>1 DEF Inv, WritersOwnTheirRows, OwnsDecided, OwnsNew
  <1> QED
    BY <1>1, <1>2

LEMMA CommitKeepsPendingTiers ==
  ASSUME Inv, AllHonest, NEW r \in Requests, Commit(r)
  PROVE  PendingTiers'
  <1> SUFFICES ASSUME NEW a \in ActionIds, actions'[a].status = "pending_approval"
               PROVE  TierRow(actions'[a])
    BY DEF PendingTiers, TierRow
  <1>1. CASE a = tx[r].id
    BY <1>1, CommitOfRow DEF AllHonest, Honest
  <1>2. CASE a # tx[r].id
    BY <1>2, CommitOfRow DEF AllHonest, PendingTiers
  <1> QED
    BY <1>1, <1>2

LEMMA CommitMatches ==
  ASSUME Inv, AllHonest, AuditMatchesActions, NEW r \in Requests, Commit(r)
  PROVE  AuditMatchesActions'
  <1> DEFINE i == tx[r].id
             row == tx[r].row
             action == IF row.status = "rejected" THEN "reject" ELSE "execute"
             outcome == IF row.status = "failed" THEN "error" ELSE "allowed"
             note == Audit(r, action, outcome, i)
  <1>1. IF row.status \in Decided
        THEN i # 0 /\ row.approver = call[r].user /\ tx[r].notes = {note}
        ELSE \A n \in tx[r].notes : n.action \notin {"execute", "reject"}
    BY CommitOfRow DEF AllHonest, Honest, Closed
  <1>2. i # 0 => i \in ActionIds
    BY DEF Inv, TypeOK, Tx, ActionIds
  <1>3. ASSUME NEW a \in ActionIds, a # i \/ row.status \notin Decided
        PROVE  DecisionNotes(a)' = DecisionNotes(a)
    <2>1. \A n \in tx[r].notes : n.id # a \/ n.action \notin {"execute", "reject"}
      BY <1>1, <1>3 DEF Audit
    <2> QED
      BY <2>1, CommitOfRow DEF DecisionNotes
  <1>4. ASSUME NEW a \in ActionIds, a # i
        PROVE  IF actions'[a].status \in Decided
               THEN \E n \in DecisionNotes(a)' :
                      DecisionNotes(a)' = {n} /\ ExpectedNote(actions'[a], n)
               ELSE DecisionNotes(a)' = {}
    BY <1>3, <1>4, CommitOfRow DEF AuditMatchesActions
  <1>5. ASSUME NEW a \in ActionIds, a = i
        PROVE  DecisionNotes(a) = {} /\ actions'[a] = row
    BY <1>5, CommitOfRow DEF AuditMatchesActions, Decided
  <1>6. ASSUME NEW a \in ActionIds, a = i, row.status \in Decided
        PROVE  \E n \in DecisionNotes(a)' : DecisionNotes(a)' = {n} /\ ExpectedNote(row, n)
    <2>1. auditLog' = auditLog \cup {note}
      BY <1>1, <1>6, CommitOfRow
    <2>2. /\ note.id = a /\ note.action = action /\ note.outcome = outcome
          /\ note.actor = call[r].user /\ action \in {"execute", "reject"}
      BY <1>6 DEF Audit
    <2>3. ExpectedNote(row, note)
      BY <1>1, <1>6, <2>2 DEF ExpectedNote
    <2> HIDE DEF note
    <2>4. DecisionNotes(a)' = {note}
      BY <1>5, <1>6, <2>1, <2>2 DEF DecisionNotes
    <2> QED
      BY <2>3, <2>4
  <1> HIDE DEF note, row, i
  <1>7. ASSUME NEW a \in ActionIds, a = i
        PROVE  IF actions'[a].status \in Decided
               THEN \E n \in DecisionNotes(a)' :
                      DecisionNotes(a)' = {n} /\ ExpectedNote(actions'[a], n)
               ELSE DecisionNotes(a)' = {}
    BY <1>3, <1>5, <1>6, <1>7
  <1> QED
    BY <1>4, <1>7 DEF AuditMatchesActions, ExpectedNote

LEMMA CommitHadAuthority ==
  ASSUME Inv, AllHonest, DecisionHadAuthority, NEW r \in Requests, Commit(r)
  PROVE  DecisionHadAuthority'
  <1> SUFFICES ASSUME NEW a \in ActionIds, actions'[a].status \in Decided
               PROVE  \E s \in Requests :
                        /\ pc'[s] = "done"
                        /\ call'[s].user = actions'[a].approver
                        /\ HasAuthority(snapshot'[s], actions'[a].role)
                        /\ actions'[a].amount > HardCeiling => "admin" \in snapshot'[s]
                        /\ \/ call'[s].kind = "decide" /\ call'[s].target = a
                              /\ actions'[a].approver # actions'[a].requester
                           \/ call'[s].kind = "create"
                              /\ actions'[a].approver = actions'[a].requester
    BY DEF DecisionHadAuthority, HasAuthority
  <1>1. CASE a = tx[r].id
    <2>1. actions'[a] = tx[r].row /\ Closed(r)
      BY <1>1, CommitOfRow DEF AllHonest, Honest
    <2> QED
      BY <1>1, <2>1, CommitOfRow DEF Closed, Authorized
  <1>2. CASE a # tx[r].id
    <2>1. actions'[a] = actions[a]
      BY <1>2, CommitOfRow
    <2>2. PICK s \in Requests :
            /\ pc[s] = "done"
            /\ call[s].user = actions[a].approver
            /\ HasAuthority(snapshot[s], actions[a].role)
            /\ actions[a].amount > HardCeiling => "admin" \in snapshot[s]
            /\ \/ call[s].kind = "decide" /\ call[s].target = a
                  /\ actions[a].approver # actions[a].requester
               \/ call[s].kind = "create" /\ actions[a].approver = actions[a].requester
      BY <2>1 DEF DecisionHadAuthority
    <2>3. pc'[s] = "done" /\ UNCHANGED <<call, snapshot>>
      BY <2>2, CommitOfRow
    <2> QED
      BY <2>1, <2>2, <2>3
  <1> QED
    BY <1>1, <1>2

LEMMA CommitIsDurable ==
  ASSUME Inv, AllHonest, RepliesAreDurable, NEW r \in Requests, Commit(r)
  PROVE  RepliesAreDurable'
  <1> SUFFICES ASSUME NEW s \in Requests, reply'[s] \in Decided
               PROVE  \E n \in auditLog' :
                        /\ n.by = s /\ n.id # 0
                        /\ call'[s].kind = "decide" => n.id = call'[s].target
                        /\ actions'[n.id].status = reply'[s]
    BY DEF RepliesAreDurable
  <1>1. CASE s = r
    <2>1. answer[r] \in Decided /\ pc[r] = "returned"
      BY <1>1, CommitOfRow
    <2>2. Closed(r)
      BY <2>1 DEF AllHonest, Honest
    <2>3. tx[r].id \in ActionIds
      BY <2>2 DEF Closed, Inv, TypeOK, Tx, ActionIds
    <2>4. PICK n \in tx[r].notes : n.by = r /\ n.id = tx[r].id
      BY <2>2 DEF Closed, Audit
    <2>5. /\ n \in auditLog' /\ actions'[n.id].status = answer[r]
          /\ call[r].kind = "decide" => n.id = call[r].target
      BY <2>2, <2>3, <2>4, CommitOfRow DEF Closed, Authorized
    <2> QED
      BY <1>1, <2>2, <2>4, <2>5, CommitOfRow DEF Closed
  <1>2. CASE s # r
    <2>1. reply[s] = reply'[s]
      BY <1>2, CommitOfRow
    <2>2. PICK n \in auditLog :
            /\ n.by = s /\ n.id # 0
            /\ call[s].kind = "decide" => n.id = call[s].target
            /\ actions[n.id].status = reply[s]
      BY <2>1 DEF RepliesAreDurable
    <2>3. n.id \in ActionIds
      BY <2>2 DEF Inv, TypeOK, AuditRow, ActionIds
    <2>4. actions'[n.id] = actions[n.id]
      BY <2>1, <2>2, <2>3, CommitOfRow DEF Decided
    <2> QED
      BY <2>1, <2>2, <2>4, CommitOfRow
  <1> QED
    BY <1>1, <1>2

\* A step that commits nothing: who was served stays so, and if replies follow the commit,
\* nobody is told anew that an action was decided.
LEMMA NoCommitEffect ==
  ASSUME Inv, AllHonest, [Next]_vars, \A r \in Requests : ~Commit(r), NEW s \in Requests
  PROVE  /\ pc[s] = "done" =>
              pc'[s] = "done" /\ call'[s] = call[s] /\ snapshot'[s] = snapshot[s]
         /\ ~ReplyBeforeCommit /\ reply'[s] \in Decided => reply'[s] = reply[s] /\ pc[s] = "done"
  <1> DEFINE Goal == /\ pc[s] = "done" =>
                          pc'[s] = "done" /\ call'[s] = call[s] /\ snapshot'[s] = snapshot[s]
                     /\ ~ReplyBeforeCommit /\ reply'[s] \in Decided =>
                          reply'[s] = reply[s] /\ pc[s] = "done"
  <1>1. ~ReplyBeforeCommit /\ pc[s] # "done" => reply[s] = "none" /\ reply[s] \notin Decided
    BY DEF AllHonest, Honest, Decided
  <1>2. CASE Untouched(s)
    BY <1>1, <1>2 DEF Untouched
  <1>3. ASSUME NEW r \in Requests, NEW c \in Calls,
               GetCurrentUser(r, c) \/ RefuseInactive(r, c) \/ PoolTimeout(r, c)
        PROVE  Goal
    <2>1. CASE r = s
      BY <1>1, <1>3, <2>1
         DEF GetCurrentUser, RefuseInactive, PoolTimeout, Raise, Inv, TypeOK, Decided
    <2>2. CASE r # s
      <3>1. Untouched(s)
        BY <1>3, <2>2 DEF GetCurrentUser, RefuseInactive, PoolTimeout, Raise, Inv, TypeOK, Untouched
      <3> QED
        BY <3>1, <1>2
    <2> QED
      BY <2>1, <2>2
  <1>4. ASSUME NEW r \in Requests, Handle(r)
        PROVE  Goal
    <2>1. CASE r = s
      <3>1. UNCHANGED <<call, snapshot, reply>> /\ pc[r] # "done"
        BY <1>4, HandlerTouchesOne
           DEF Inv, Handle, RequestAction, RefuseUnknownType, RequestBlocked, RequestPending,
           RequestAuto, DecideAction, RefuseMissing, SelectForUpdate, RefuseHandled,
           RefuseDecision, Reject, Approve, ExecuteAndClose, PerformCompletes, PerformFails,
           PerformAborts, ListActions, RequireRolesDenies
      <3> QED
        BY SMTT(60), <1>1, <2>1, <3>1
    <2>2. CASE r # s
      BY <1>2, <1>4, <2>2, HandlerTouchesOne DEF Inv
    <2> QED
      BY <2>1, <2>2
  <1>5. ASSUME NEW r \in Requests, ReplyEarly(r)
        PROVE  Goal
    BY <1>1, <1>5 DEF ReplyEarly
  <1>6. ASSUME NEW r \in Requests, Rollback(r) \/ Abort(r)
        PROVE  Goal
    <2>1. CASE r = s
      <3>1. /\ pc[s] # "done" /\ pc'[s] = "done"
            /\ ~ReplyBeforeCommit => reply'[s] \notin Decided
        BY <1>1, <1>6, <2>1
           DEF Rollback, Abort, Finish, Inv, TypeOK, AllHonest, Honest, Open, Decided
      <3> QED
        BY <3>1
    <2>2. CASE r # s
      <3>1. Untouched(s)
        BY <1>6, <2>2 DEF Rollback, Abort, Finish, Inv, TypeOK, Untouched
      <3> QED
        BY <3>1, <1>2
    <2> QED
      BY <2>1, <2>2
  <1>7. CASE \/ UNCHANGED vars
             \/ \E u \in Users : Deactivate(u)
             \/ \E u \in Users, role \in Roles : Grant(u, role) \/ Revoke(u, role)
    BY <1>2, <1>7 DEF vars, Deactivate, Grant, Revoke, EditRoles, Untouched
  <1> QED
    BY <1>3, <1>4, <1>5, <1>6, <1>7 DEF Next, Start, End, Terminating

HistInv == Inv /\ AllHonest /\ History

LEMMA HistInit == Init => HistInv
  <1> SUFFICES ASSUME Init PROVE HistInv
    OBVIOUS
  <1>1. AllHonest
    BY DEF Init, AllHonest, PendingTiers, Honest, AbsentRow
  <1>2. AuditMatchesActions /\ DecisionHadAuthority
    BY DEF Init, AuditMatchesActions, DecisionHadAuthority, DecisionNotes, AbsentRow, Decided
  <1>3. RepliesAreDurable
    BY DEF Init, RepliesAreDurable, Decided
  <1> QED
    BY <1>1, <1>2, <1>3, InitInv DEF HistInv, History

LEMMA HistNext == HistInv /\ [Next]_vars => HistInv'
  <1> SUFFICES ASSUME HistInv, [Next]_vars PROVE HistInv'
    OBVIOUS
  <1> USE DEF HistInv
  <1>1. Inv'
    BY NextInv
  <1>2. \A s \in Requests : Honest(s)'
    BY HonestStep
  <1>3. CASE \E r \in Requests : Commit(r)
    <2> PICK r \in Requests : Commit(r)
      BY <1>3
    <2>1. PendingTiers' /\ AuditMatchesActions' /\ DecisionHadAuthority'
      BY CommitKeepsPendingTiers, CommitMatches, CommitHadAuthority DEF History
    <2>2. ~ReplyBeforeCommit => RepliesAreDurable'
      BY CommitIsDurable DEF History
    <2> QED
      BY <1>1, <1>2, <2>1, <2>2 DEF AllHonest, History
  <1>4. CASE \A r \in Requests : ~Commit(r)
    <2>1. actions' = actions /\ auditLog' = auditLog
      BY <1>4, TablesChangeAtCommit DEF tables
    <2>2. PendingTiers' /\ AuditMatchesActions'
      BY <2>1 DEF AllHonest, History, PendingTiers, TierRow, AuditMatchesActions, DecisionNotes,
         ExpectedNote
    <2>3. DecisionHadAuthority'
      BY <1>4, <2>1, NoCommitEffect DEF History, DecisionHadAuthority, HasAuthority
    <2>4. ~ReplyBeforeCommit => RepliesAreDurable'
      BY <1>4, <2>1, NoCommitEffect DEF History, RepliesAreDurable
    <2> QED
      BY <1>1, <1>2, <2>2, <2>3, <2>4 DEF AllHonest, History
  <1> QED
    BY <1>3, <1>4

LEMMA HistInvariance == Spec => []HistInv
  BY HistInit, HistNext, PTL DEF Spec

\* audit_log answers who decided what: one row per decided action, by its approver and with
\* its outcome, whatever interleaving or rollback the deciding requests meet.
THEOREM AuditIsTrue == Spec => []AuditMatchesActions
  <1>1. HistInv => AuditMatchesActions
    BY DEF HistInv, History
  <1> QED
    BY <1>1, HistInvariance, PTL

\* Whoever closed an action was entitled to, by the roles read when the request started and
\* by what can_approve and the automatic branch ask for, however roles are edited meanwhile.
THEOREM AuthorityHeld == Spec => []DecisionHadAuthority
  <1>1. HistInv => DecisionHadAuthority
    BY DEF HistInv, History
  <1> QED
    BY <1>1, HistInvariance, PTL

\* With a FastAPI before 0.118, where the response follows the commit, a client that has been
\* told of a decision was told of a committed one.  The dependency is not pinned, and with
\* the other order Approvals_early.cfg shows the counterexample.
LEMMA RepliesHold == ~ReplyBeforeCommit => (Spec => []RepliesAreDurable)
  <1>1. SUFFICES ASSUME ~ReplyBeforeCommit PROVE Spec => []RepliesAreDurable
    OBVIOUS
  <1>2. HistInv => RepliesAreDurable
    BY <1>1 DEF HistInv, History
  <1> QED
    BY <1>2, HistInvariance, PTL

-----------------------------------------------------------------------------
(* Who must approve: for every policy document, every reading of it and every *)
(* sum, the tier is one that Approvals reckons with, nobody is named approver *)
(* of a sum that the document does not let them approve, and a larger sum     *)
(* never needs a weaker approver.                                             *)

\* The last question was answered from a reading of the policy in force.
Asked ==
  \/ tier = "none"
  \/ Yields(found) /\ tier = Resolve(found, amount)

TierInv == TierTypeOK /\ Asked

-----------------------------------------------------------------------------
\* Whatever the reading, the answer is a tier, and the committee above the ceiling.
LEMMA ResolveType ==
  ASSUME NEW seen, NEW sum
  PROVE  /\ Resolve(seen, sum) \in Tier
         /\ sum > HardCeiling => Resolve(seen, sum) = "committee"
  BY DEF Resolve, Selected, Tier, Limited

\* A tier is named only for a sum within every ceiling that the reading gives it.
LEMMA ResolvePermits ==
  ASSUME NEW seen, NEW sum, Resolve(seen, sum) \in Limited
  PROVE  Permits(Usable(seen), Resolve(seen, sum), sum)
  BY DEF Resolve, Selected, Limited

\* The steps keep the types and answer from a reading of the policy.
LEMMA TierNextInv == TierInv /\ [TierNext]_tierVars => TierInv'
  <1> SUFFICES ASSUME TierInv, [TierNext]_tierVars PROVE TierInv'
    OBVIOUS
  <1> USE DEF TierInv, TierTypeOK, Asked
  <1>1. ASSUME NEW p \in Policies, Publish(p) PROVE TierInv'
    BY <1>1 DEF Publish
  <1>2. ASSUME NEW sum \in AmountsAsked, NEW seen \in Readings, Ask(sum, seen) PROVE TierInv'
    <2>1. sum \in Nat /\ seen \in Seq(Sentence)
      BY TierAssumption
    <2>2. TierTypeOK'
      BY <1>2, <2>1, ResolveType DEF Ask
    <2>3. Yields(found)' /\ tier' = Resolve(found', amount')
      BY <1>2 DEF Ask, Yields
    <2> QED
      BY <2>2, <2>3
  <1>3. CASE UNCHANGED tierVars
    BY <1>3 DEF tierVars, Yields
  <1> QED
    BY <1>1, <1>2, <1>3 DEF TierNext

\* Every behaviour of the specification satisfies the invariant.
LEMMA TierInvariance == TierSpec => []TierInv
  <1>1. TierInit => TierInv
    BY DEF TierInit, TierInv, TierTypeOK, Asked
  <1> QED
    BY <1>1, TierNextInv, PTL DEF TierSpec

-----------------------------------------------------------------------------
\* Every variable keeps its type.
THEOREM TierTypeCorrect == TierSpec => []TierTypeOK
  BY TierInvariance, PTL DEF TierInv

\* The role that an answer asks for is one of those the write path reckons with; above
\* the hard ceiling it is the admin's, whatever the document or the retrieval say.
LEMMA PossibleRole == TierSpec => []RoleIsPossible
  <1>1. TierInv => RoleIsPossible
    <2> SUFFICES ASSUME TierInv, tier # "none" PROVE RoleOf(tier) \in PossibleTiers(amount)
      BY DEF RoleIsPossible
    <2>1. tier \in Tier /\ (amount > HardCeiling => tier = "committee")
      BY ResolveType DEF TierInv, Asked
    <2> QED
      BY <2>1 DEF RoleOf, PossibleTiers, TierRoles, Tier, Limited
  <1> QED
    BY <1>1, TierInvariance, PTL

-----------------------------------------------------------------------------
\* A sentence of the policy among those that were found is a sentence in force.
LEMMA FoundIsInForce ==
  ASSUME TierTypeOK, Yields(found), NEW i \in DOMAIN found, found[i].policy
  PROVE  found[i] \in policy
  BY TierAssumption DEF Yields, TierTypeOK

\* The document grants what a complete reading, or any reading of a document in good
\* order, permits.
LEMMA ReadingGrants ==
  ASSUME TierTypeOK, Yields(found), Consistent \/ Complete,
         NEW name \in Limited, Permits(found, name, amount)
  PROVE  Grants(name, amount)
  <1>1. PICK i \in DOMAIN found : found[i].policy /\ found[i].tier = name /\ amount <= found[i].ceiling
    BY DEF Permits, Mentions
  <1>2. found[i] \in policy
    BY <1>1, FoundIsInForce
  <1>3. ASSUME NEW s \in policy, s.tier = name PROVE amount <= s.ceiling
    <2>1. CASE Consistent
      BY <1>1, <1>2, <1>3, <2>1 DEF Consistent
    <2>2. CASE Complete
      <3>1. PICK j \in DOMAIN found : found[j] = s
        BY <2>2 DEF Complete
      <3>2. s.policy
        BY TierAssumption DEF TierTypeOK
      <3> QED
        BY <1>3, <3>1, <3>2 DEF Permits, Mentions
    <2> QED
      BY <2>1, <2>2
  <1> QED
    BY <1>1, <1>2, <1>3 DEF Grants

\* The fallback permits nothing that a document in good order does not grant.
LEMMA FallbackGrants ==
  ASSUME TierTypeOK, Consistent, NEW name \in Limited, Permits(FallbackTiers, name, amount)
  PROVE  Grants(name, amount)
  <1> DEFINE limit == IF name = "representative" THEN FallbackRep ELSE FallbackLead
  <1>1. amount <= limit
    <2> DEFINE k == IF name = "representative" THEN 1 ELSE 2
    <2>1. k \in Mentions(FallbackTiers, name) /\ FallbackTiers[k].ceiling = limit
      BY DEF Mentions, FallbackTiers, Known, Limited
    <2> QED
      BY <2>1 DEF Permits
  <1>2. PICK s \in policy : s.tier = name /\ s.ceiling >= limit
    BY DEF Consistent, Limited
  <1>3. s.ceiling \in Nat /\ limit \in Nat /\ amount \in Nat
    BY TierAssumption DEF TierTypeOK, Sentence
  <1>4. ASSUME NEW t \in policy, t.tier = name PROVE amount <= t.ceiling
    <2>1. t = s
      BY <1>2, <1>4 DEF Consistent
    <2> QED
      BY <1>1, <1>2, <1>3, <2>1
  <1> QED
    BY <1>2, <1>4 DEF Grants

\* Retrieval loosens nothing: an approver below the committee is named only for a sum that
\* the document in full lets them approve, if the document is in good order or the
\* retrieval missed nothing of it.
THEOREM RetrievalTightens == TierSpec => []OnlyGrantedAuthority
  <1>1. TierInv => OnlyGrantedAuthority
    <2> SUFFICES ASSUME TierInv, Consistent \/ Complete, tier \in Limited
                 PROVE  Grants(tier, amount)
      BY DEF OnlyGrantedAuthority
    <2>1. Yields(found) /\ tier = Resolve(found, amount) /\ TierTypeOK
      BY DEF TierInv, Asked, Limited
    <2>2. Permits(Usable(found), tier, amount)
      BY <2>1, ResolvePermits
    <2>3. CASE \E i \in DOMAIN found : found[i].policy
      BY <2>1, <2>2, <2>3, ReadingGrants DEF Usable
    <2>4. CASE ~\E i \in DOMAIN found : found[i].policy
      <3>1. ~Complete
        <4> SUFFICES ASSUME Complete PROVE FALSE
          OBVIOUS
        <4>1. PICK s \in policy : \E i \in DOMAIN found : found[i] = s
          BY DEF Complete
        <4>2. s.policy
          BY <2>1, TierAssumption DEF TierTypeOK
        <4> QED
          BY <2>4, <4>1, <4>2
      <3>2. Consistent /\ Permits(FallbackTiers, tier, amount)
        BY <2>2, <2>4, <3>1 DEF Usable
      <3> QED
        BY <2>1, <3>2, FallbackGrants
    <2> QED
      BY <2>3, <2>4
  <1> QED
    BY <1>1, TierInvariance, PTL

-----------------------------------------------------------------------------
\* What a reading says of a tier: the ceilings are amounts, and those of the representative
\* are not above those of the team lead if the document has them so; the fallback has them so.
InOrder(seen) ==
  /\ \A name \in Limited : \A i \in Mentions(seen, name) : seen[i].ceiling \in Nat
  /\ \A i \in Mentions(seen, "representative"), j \in Mentions(seen, "team_lead") :
       seen[i].ceiling <= seen[j].ceiling

LEMMA UsableInOrder ==
  ASSUME TierTypeOK, Yields(found), Ordered
  PROVE  InOrder(Usable(found))
  <1>1. CASE \E i \in DOMAIN found : found[i].policy
    <2>1. \A i \in DOMAIN found : found[i] \in Sentence
      BY DEF TierTypeOK
    <2>2. \A name \in Limited : \A i \in Mentions(found, name) : found[i].ceiling \in Nat
      BY <2>1 DEF Mentions, Sentence
    <2>3. \A name \in Limited : \A i \in Mentions(found, name) :
            found[i] \in policy /\ found[i].tier = name
      BY FoundIsInForce DEF Mentions
    <2> QED
      BY <1>1, <2>2, <2>3 DEF InOrder, Ordered, Usable, Limited
  <1>2. CASE ~\E i \in DOMAIN found : found[i].policy
    <2>1. InOrder(FallbackTiers)
      BY TierAssumption DEF InOrder, FallbackTiers, Known, Mentions, Limited
    <2> QED
      BY <1>2, <2>1 DEF Usable
  <1> QED
    BY <1>1, <1>2

\* Who may approve a sum may approve any smaller one.
LEMMA PermitsLess ==
  ASSUME NEW seen, InOrder(seen), NEW name \in Limited, NEW less \in Nat, NEW sum \in Nat,
         less <= sum, Permits(seen, name, sum)
  PROVE  Permits(seen, name, less)
  BY DEF Permits, InOrder

\* Of two sums the larger is not for a weaker tier.
LEMMA SelectedStricter ==
  ASSUME NEW seen, InOrder(seen), NEW less \in Nat, NEW sum \in Nat, less <= sum
  PROVE  Rank(Selected(seen, sum)) >= Rank(Selected(seen, less))
  <1> DEFINE rep == "representative"
             lead == "team_lead"
  <1>1. ASSUME Selected(seen, sum) = rep PROVE Selected(seen, less) = rep
    <2>1. Permits(seen, rep, sum) /\ (Permits(seen, lead, sum) => Before(seen, rep, lead))
      BY <1>1 DEF Selected
    <2>2. Permits(seen, rep, less)
      BY <2>1, PermitsLess DEF Limited
    <2>3. ASSUME Permits(seen, lead, less) PROVE Before(seen, rep, lead)
      <3>1. PICK i \in Mentions(seen, rep) : sum <= seen[i].ceiling
        BY <2>1 DEF Permits
      <3>2. ASSUME NEW j \in Mentions(seen, lead) PROVE sum <= seen[j].ceiling
        <4>1. seen[i].ceiling \in Nat /\ seen[j].ceiling \in Nat /\ seen[i].ceiling <= seen[j].ceiling
          BY DEF InOrder, Limited
        <4> QED
          BY <3>1, <4>1
      <3>3. Permits(seen, lead, sum)
        BY <2>3, <3>2 DEF Permits
      <3> QED
        BY <2>1, <3>3
    <2> QED
      BY <2>2, <2>3 DEF Selected
  <1>2. ASSUME Selected(seen, sum) = lead PROVE Selected(seen, less) \in {rep, lead}
    <2>1. Permits(seen, lead, less)
      BY <1>2, PermitsLess DEF Selected, Limited
    <2> QED
      BY <2>1 DEF Selected
  <1>3. /\ Selected(seen, sum) \in {rep, lead, "committee"}
        /\ Selected(seen, less) \in {rep, lead, "committee"}
    BY DEF Selected
  <1> QED
    BY <1>1, <1>2, <1>3 DEF Rank

\* A larger sum never needs a weaker approver, whatever was found of a document whose
\* representative's ceilings lie below its team lead's.
THEOREM LargerIsStricter == TierSpec => []StricterWithAmount
  <1>1. TierInv => StricterWithAmount
    <2> SUFFICES ASSUME TierInv, Ordered, NEW sum \in AmountsAsked, sum >= amount, tier # "none"
                 PROVE  Rank(Resolve(found, sum)) >= Rank(tier)
      BY DEF StricterWithAmount
    <2>1. Yields(found) /\ tier = Resolve(found, amount) /\ TierTypeOK
      BY DEF TierInv, Asked
    <2>2. sum \in Nat /\ amount \in Nat /\ HardCeiling \in Nat
      BY <2>1, TierAssumption DEF TierTypeOK
    <2>3. CASE sum > HardCeiling
      BY <2>1, <2>3, ResolveType DEF Resolve, Rank, Tier, Limited
    <2>4. CASE ~(sum > HardCeiling)
      <3>1. ~(amount > HardCeiling)
        BY <2>2, <2>4
      <3>2. Rank(Selected(Usable(found), sum)) >= Rank(Selected(Usable(found), amount))
        BY <2>1, <2>2, UsableInOrder, SelectedStricter
      <3> QED
        BY <2>1, <2>4, <3>1, <3>2 DEF Resolve
    <2> QED
      BY <2>3, <2>4
  <1> QED
    BY <1>1, TierInvariance, PTL
-----------------------------------------------------------------------------
\* A part of a reading is of the same sentences, with fewer ceilings to keep to.
LEMMA PartPermits ==
  ASSUME NEW whole, NEW kept \in SUBSET DOMAIN whole, NEW part,
         part = [i \in kept |-> whole[i]], SameTiers(part, whole),
         NEW name \in Limited, NEW sum, Permits(whole, name, sum)
  PROVE  Permits(part, name, sum)
  <1>1. \A i \in Mentions(part, name) : i \in Mentions(whole, name) /\ part[i] = whole[i]
    BY DEF Mentions
  <1>2. Mentions(part, name) # {}
    BY DEF SameTiers, Permits
  <1> QED
    BY <1>1, <1>2 DEF Permits

\* Where the ceilings of the two tiers are apart, the representative is tried first.
LEMMA RepresentativeFirst ==
  ASSUME NEW seen, NEW sum,
         \A i \in Mentions(seen, "representative"), j \in Mentions(seen, "team_lead") :
           /\ seen[i].ceiling \in Nat /\ seen[j].ceiling \in Nat
           /\ seen[i].ceiling < seen[j].ceiling
  PROVE  Selected(seen, sum) =
           IF Permits(seen, "representative", sum) THEN "representative"
           ELSE IF Permits(seen, "team_lead", sum) THEN "team_lead" ELSE "committee"
  <1> SUFFICES ASSUME Permits(seen, "representative", sum), Permits(seen, "team_lead", sum)
               PROVE  Before(seen, "representative", "team_lead")
    BY DEF Selected
  <1>1. PICK i \in Mentions(seen, "representative") : TRUE
    BY DEF Permits
  <1>2. NotAbove(seen, "representative", "team_lead")
    BY <1>1 DEF NotAbove
  <1>3. ~NotAbove(seen, "team_lead", "representative")
    <2> SUFFICES ASSUME NEW j \in Mentions(seen, "team_lead"),
                        seen[j].ceiling <= seen[i].ceiling
                 PROVE  FALSE
      BY <1>1 DEF NotAbove
    <2> QED
      BY <1>1
  <1> QED
    BY <1>2, <1>3 DEF Before

\* Whatever a retrieval yields beyond some sentences about the same tiers, for any documents
\* whose ceilings are apart and any order, it names no weaker approver.
THEOREM RepeatedTightens == TierSpec => []RepetitionTightens
  <1>1. TierInv => RepetitionTightens
    <2> SUFFICES ASSUME TierInv, ClearlyOrdered, tier # "none", NEW kept \in SUBSET DOMAIN found,
                        NEW part, part = [i \in kept |-> found[i]], SameTiers(part, found)
                 PROVE  Rank(Resolve(part, amount)) <= Rank(tier)
      BY DEF RepetitionTightens
    <2>1. Yields(found) /\ tier = Resolve(found, amount) /\ TierTypeOK
      BY DEF TierInv, Asked
    <2>2. \A name \in Limited : \A i \in Mentions(found, name) :
            found[i] \in policy /\ found[i].tier = name /\ found[i].ceiling \in Nat
      BY <2>1, FoundIsInForce DEF Mentions, TierTypeOK, Sentence
    <2>3. Selected(found, amount) =
            IF Permits(found, "representative", amount) THEN "representative"
            ELSE IF Permits(found, "team_lead", amount) THEN "team_lead" ELSE "committee"
      BY <2>2, RepresentativeFirst DEF ClearlyOrdered, Limited
    <2>4. \A name \in Limited : \A i \in Mentions(part, name) :
            i \in Mentions(found, name) /\ part[i] = found[i]
      BY DEF Mentions
    <2>5. Selected(part, amount) =
            IF Permits(part, "representative", amount) THEN "representative"
            ELSE IF Permits(part, "team_lead", amount) THEN "team_lead" ELSE "committee"
      BY <2>2, <2>4, RepresentativeFirst DEF ClearlyOrdered, Limited
    <2>6. \A name \in Limited : Permits(found, name, amount) => Permits(part, name, amount)
      BY PartPermits
    <2>7. Rank(Selected(part, amount)) <= Rank(Selected(found, amount))
      BY <2>3, <2>5, <2>6 DEF Rank, Limited
    <2>8. Rank(Resolve(part, amount)) \in {1, 2, 3}
      BY DEF Rank
    <2>9. CASE amount > HardCeiling \/ (Usable(found) = found /\ Usable(part) = part)
      BY <2>1, <2>7, <2>9 DEF Resolve, Rank
    <2>10. CASE ~(\E i \in DOMAIN found : found[i].policy)
      <3>1. ~(\E i \in DOMAIN part : part[i].policy)
        BY <2>10
      <3> QED
        BY <2>1, <2>8, <2>10, <3>1 DEF Usable, Resolve, Rank
    <2>11. CASE /\ \E i \in DOMAIN found : found[i].policy
                /\ ~(\E i \in DOMAIN part : part[i].policy)
      <3>1. \A name \in Limited : Mentions(part, name) = {}
        BY <2>11 DEF Mentions
      <3>2. \A name \in Limited : ~Permits(found, name, amount)
        BY <3>1 DEF SameTiers, Permits
      <3>3. Usable(found) = found
        BY <2>11 DEF Usable
      <3>4. Selected(found, amount) = "committee"
        BY <2>3, <3>2 DEF Limited
      <3>5. tier = "committee"
        BY <2>1, <3>3, <3>4 DEF Resolve
      <3> QED
        BY <2>8, <3>5 DEF Rank
    <2> QED
      BY <2>9, <2>10, <2>11 DEF Usable
  <1> QED
    BY <1>1, TierInvariance, PTL
=============================================================================
