--------------------------- MODULE Ingestion_proofs ---------------------------
(***************************************************************************)
(* What Ingestion keeps for any number of jobs, documents and roles, and   *)
(* Chunking for documents of any length, sizes and levels.                 *)
(***************************************************************************)
EXTENDS Ingestion, Chunking, FiniteSetTheorems, SequenceTheorems, Sums, TLAPS

Inserted(j) == tx[j].id # 0

\* Where a job is, what it was asked to do and what its transaction has written go together.
JobInv(j) ==
  /\ pc[j] = "idle" => reply[j] = "none"
  /\ pc[j] # "idle" => work[j] \in Work
  /\ pc[j] \in {"idle", "begun", "deleting", "resolved", "done"} => tx[j] = EmptyTx
  /\ pc[j] = "ready" => ~Inserted(j)
  /\ pc[j] \in {"ready", "inserted"} => work[j].kind \in Loads
  /\ pc[j] = "inserted" => Inserted(j)
  /\ Inserted(j) => /\ work[j].kind \in Loads
                    /\ tx[j].row \in Row /\ tx[j].row.by = j
                    /\ tx[j].row.doc = work[j].doc /\ tx[j].row.content = work[j].content
  /\ Inserted(j) /\ pc[j] = "returned" =>
       tx[j].row.whole /\ tx[j].row.acl # {} /\ tx[j].row.acl = work[j].roles
  /\ \A i \in tx[j].deletes : i = target[j] /\ work[j].kind \in {"replace", "delete"}
  /\ work[j].kind = "upload" /\ pc[j] \notin {"idle", "raised", "done"} => j \in files

\* No key and no row is in the hands of two transactions, and an inserted row clashes with
\* committed ones only if its own transaction deletes them.
Exclusive ==
  /\ \A i \in DOMAIN rows : i < nextId
  /\ \A j \in Jobs : Inserted(j) => tx[j].id < nextId /\ tx[j].id \notin DOMAIN rows
  /\ \A j \in Jobs : tx[j].deletes \subseteq DOMAIN rows
  /\ \A j, k \in Jobs : j # k =>
       /\ tx[j].deletes \cap tx[k].deletes = {}
       /\ Inserted(j) /\ Inserted(k) =>
            tx[j].id # tx[k].id /\ ~SameKey(tx[j].row, tx[k].row)
  /\ \A j \in Jobs : \A i \in DOMAIN rows :
       Inserted(j) /\ SameKey(tx[j].row, rows[i]) => i \in tx[j].deletes
  /\ OneRowPerDocument

\* What is stored was written by a job that is over and whose work is known.
Stored ==
  \A i \in DOMAIN rows :
    /\ rows[i].whole /\ rows[i].acl # {}
    /\ rows[i].by # Corpus =>
         /\ pc[rows[i].by] = "done"
         /\ rows[i].acl = work[rows[i].by].roles
         /\ work[rows[i].by].kind = "upload" => rows[i].by \in files

\* A row that a reader has seen is still the one that it saw, or none: its id is not given
\* to another.
Sighted ==
  /\ \A j \in Jobs : pc[j] = "resolved" =>
       \A i \in sight[j] :
         /\ i < nextId
         /\ \A k \in Jobs : tx[k].id # i
         /\ i \in DOMAIN rows => rows[i].acl \cap work[j].roles # {}
  /\ \A j \in Jobs : reply[j] = "served" =>
       served[j].whole /\ served[j].acl \cap work[j].roles # {}

IInv == TypeOK /\ (\A j \in Jobs : JobInv(j)) /\ Exclusive /\ Stored /\ Sighted
-----------------------------------------------------------------------------
(* A step moves one job                                                    *)

Step(j) == (\E w \in Works[j] : Begin(j, w)) \/ Advance(j) \/ Abort(j)

Same(k) ==
  /\ pc'[k] = pc[k] /\ work'[k] = work[k] /\ target'[k] = target[k] /\ tx'[k] = tx[k]
  /\ sight'[k] = sight[k] /\ served'[k] = served[k] /\ reply'[k] = reply[k]
  /\ k \in files => k \in files'

\* A job that is ended for a deadlock was waiting, and so at work.
LEMMA DeadlockIsAbort ==
  ASSUME NEW j \in Jobs, DeadlockDetected(j) PROVE Abort(j)
<1>1. PICK S \in SUBSET Jobs : j \in S /\ \A k \in S : WaitsFor(k) \cap S # {}
  BY DEF DeadlockDetected
<1>2. WaitsFor(j) # {}
  BY <1>1
<1>3. pc[j] \in {"deleting", "ready"}
  BY <1>2 DEF WaitsFor
<1> QED BY <1>3 DEF DeadlockDetected, Abort, Open

\* The steps, one by one, with DeadlockDetected among the aborts.
LEMMA StepCases ==
  ASSUME NEW j \in Jobs, Step(j)
  PROVE  \/ \E w \in Works[j] : Begin(j, w)
         \/ FindNothing(j) \/ SkipExisting(j) \/ FindExisting(j) \/ DeleteExisting(j)
         \/ NoText(j) \/ RefuseInput(j) \/ Insert(j) \/ InsertConflicts(j) \/ Fill(j)
         \/ RefuseRoles(j) \/ FindDeleted(j) \/ NothingToDelete(j) \/ Delete(j)
         \/ ResolveAllowed(j) \/ Serve(j) \/ ServeNothing(j)
         \/ Commit(j) \/ Rollback(j) \/ Abort(j)
BY DeadlockIsAbort DEF Step, Advance

LEMMA OneJobMoves ==
  ASSUME TypeOK, NEW j \in Jobs, Step(j)
  PROVE  \A k \in Jobs \ {j} : Same(k)
<1> USE DEF TypeOK, Same, Move, Return, Raise, End, Write
<1>1. ASSUME NEW w \in Works[j], Begin(j, w) PROVE \A k \in Jobs \ {j} : Same(k)
  BY <1>1 DEF Begin, FileOf
<1>2. CASE FindNothing(j)        BY <1>2 DEF FindNothing
<1>3. CASE SkipExisting(j)       BY <1>3 DEF SkipExisting
<1>4. CASE FindExisting(j)       BY <1>4 DEF FindExisting
<1>5. CASE DeleteExisting(j)     BY <1>5 DEF DeleteExisting
<1>6. CASE NoText(j)             BY <1>6 DEF NoText
<1>7. CASE RefuseInput(j)        BY <1>7 DEF RefuseInput, Refuse, FileOf
<1>8. CASE Insert(j)             BY <1>8 DEF Insert, NewRow, Row, Work
<1>9. CASE InsertConflicts(j)    BY <1>9 DEF InsertConflicts
<1>10. CASE Fill(j)              BY <1>10 DEF Fill, NewRow, Row, Work
<1>11. CASE RefuseRoles(j)       BY <1>11 DEF RefuseRoles, Refuse, FileOf
<1>12. CASE FindDeleted(j)       BY <1>12 DEF FindDeleted
<1>13. CASE NothingToDelete(j)   BY <1>13 DEF NothingToDelete
<1>14. CASE Delete(j)            BY <1>14 DEF Delete
<1>15. CASE ResolveAllowed(j)    BY <1>15 DEF ResolveAllowed
<1>16. CASE Serve(j)             BY <1>16 DEF Serve
<1>17. CASE ServeNothing(j)      BY <1>17 DEF ServeNothing
<1>18. CASE Commit(j)            BY <1>18 DEF Commit
<1>19. CASE Rollback(j)          BY <1>19 DEF Rollback
<1>20. CASE Abort(j)             BY <1>20 DEF Abort, Undo
<1> HIDE DEF TypeOK, Same, Move, Return, Raise, End, Write
<1> QED BY StepCases, <1>1, <1>2, <1>3, <1>4, <1>5, <1>6, <1>7, <1>8, <1>9, <1>10, <1>11,
          <1>12, <1>13, <1>14, <1>15, <1>16, <1>17, <1>18, <1>19, <1>20

-----------------------------------------------------------------------------
(* Types                                                                   *)

LEMMA TypeStep ==
  ASSUME IInv, NEW j \in Jobs, Step(j) PROVE TypeOK'
<1> USE IngestionAssumption DEF IInv, JobInv, TypeOK, IsTable, Move, Return, Raise, End, Write, Open, Replies, RowIds, EmptyTx
<1>1. ASSUME NEW w \in Works[j], Begin(j, w) PROVE TypeOK'
  BY <1>1 DEF Begin, FileOf
<1>2. CASE FindNothing(j)
  BY <1>2 DEF FindNothing
<1>3. CASE SkipExisting(j)
  BY <1>3 DEF SkipExisting
<1>4. CASE FindExisting(j)
  BY <1>4 DEF FindExisting, Matches
<1>5. CASE DeleteExisting(j)
  BY <1>5 DEF DeleteExisting
<1>6. CASE NoText(j)
  BY <1>6 DEF NoText
<1>7. CASE RefuseInput(j)
  BY <1>7 DEF RefuseInput, Refuse, FileOf
<1>8. CASE Insert(j)
  BY <1>8 DEF Insert, NewRow, Row, Work
<1>9. CASE InsertConflicts(j)
  BY <1>9 DEF InsertConflicts
<1>10. CASE Fill(j)
  BY <1>10 DEF Fill, NewRow, Row, Work
<1>11. CASE RefuseRoles(j)
  BY <1>11 DEF RefuseRoles, Refuse, FileOf, NewRow, Row, Work
<1>12. CASE FindDeleted(j)
  BY <1>12 DEF FindDeleted, Named
<1>13. CASE NothingToDelete(j)
  BY <1>13 DEF NothingToDelete
<1>14. CASE Delete(j)
  BY <1>14 DEF Delete
<1>15. CASE ResolveAllowed(j)
  BY <1>15 DEF ResolveAllowed
<1>16. CASE Serve(j)
  BY <1>16 DEF Serve, Readable, Named
<1>17. CASE ServeNothing(j)
  BY <1>17 DEF ServeNothing
<1>18. CASE Commit(j)
  <2>1. IsTable(rows')
    <3> DEFINE new == {tx[j].id} \ {0}
    <3>1. DOMAIN rows' = Kept(j) \cup new
      BY <1>18 DEF Commit
    <3>2. Kept(j) \subseteq DOMAIN rows /\ new \subseteq RowIds
      BY DEF Kept
    <3>3. \A i \in DOMAIN rows' : rows'[i] \in Row
      BY <1>18, <3>1, <3>2 DEF Commit, Inserted
    <3>4. rows' = [i \in DOMAIN rows' |-> rows'[i]]
      BY <1>18, <3>1 DEF Commit
    <3> QED BY <3>1, <3>2, <3>3, <3>4
  <2>2. auditLog' \subseteq [by : Jobs, kind : {"upload", "delete"}, doc : DocIds]
    BY <1>18 DEF Commit, Noted, Work
  <2> QED BY <1>18, <2>1, <2>2 DEF Commit
<1>19. CASE Rollback(j)
  BY <1>19 DEF Rollback
<1>20. CASE Abort(j)
  BY <1>20 DEF Abort, Undo
<1> HIDE DEF IInv, JobInv, TypeOK, IsTable, Move, Return, Raise, End, Write, Open, Replies, RowIds, EmptyTx
<1> QED BY StepCases, <1>1, <1>2, <1>3, <1>4, <1>5, <1>6, <1>7, <1>8, <1>9, <1>10, <1>11, <1>12, <1>13, <1>14, <1>15, <1>16, <1>17, <1>18, <1>19, <1>20

-----------------------------------------------------------------------------
(* The job that moves, and the others                                      *)

LEMMA OtherJobs ==
  ASSUME IInv, NEW k \in Jobs, Same(k) PROVE JobInv(k)'
BY DEF IInv, JobInv, Same, Inserted

LEMMA JobStep ==
  ASSUME IInv, NEW j \in Jobs, Step(j) PROVE \A k \in Jobs : JobInv(k)'
<1> SUFFICES JobInv(j)'
  BY OneJobMoves, OtherJobs DEF IInv
<1> USE IngestionAssumption DEF IInv, JobInv, TypeOK, Inserted, At, Loads, Open, Move, Return, Raise, End, Write, EmptyTx
<1>1. ASSUME NEW w \in Works[j], Begin(j, w) PROVE JobInv(j)'
  BY <1>1 DEF Begin, FileOf
<1>2. CASE FindNothing(j)
  <2>1. tx[j].id = 0 /\ tx[j].deletes = {}
    BY <1>2 DEF FindNothing
  <2>2. /\ pc[j] = "begun" /\ work[j].kind \in {"upload", "load", "replace"}
        /\ pc'[j] = "ready" /\ UNCHANGED <<work, target, tx, files, reply, rows>>
    BY <1>2 DEF FindNothing
  <2>3. JobInv(j)
    OBVIOUS
  <2> HIDE DEF IInv, TypeOK, Move, At
  <2> QED BY <2>1, <2>2, <2>3
<1>3. CASE SkipExisting(j)
  <2>1. tx[j].id = 0 /\ tx[j].deletes = {}
    BY <1>3 DEF SkipExisting
  <2> QED BY ZenonT(60), <1>3, <2>1 DEF SkipExisting
<1>4. CASE FindExisting(j)
  BY <1>4 DEF FindExisting, Matches
<1>5. CASE DeleteExisting(j)
  BY <1>5 DEF DeleteExisting
<1>6. CASE NoText(j)
  BY <1>6 DEF NoText
<1>7. CASE RefuseInput(j)
  BY <1>7 DEF RefuseInput, Refuse, FileOf
<1>8. CASE Insert(j)
  BY <1>8 DEF Insert, NewRow, Row, Work
<1>9. CASE InsertConflicts(j)
  BY <1>9 DEF InsertConflicts
<1>10. CASE Fill(j)
  BY <1>10 DEF Fill, NewRow, Row, Work
<1>11. CASE RefuseRoles(j)
  BY <1>11 DEF RefuseRoles, Refuse, FileOf, NewRow, Row, Work
<1>12. CASE FindDeleted(j)
  BY <1>12 DEF FindDeleted, Named
<1>13. CASE NothingToDelete(j)
  BY <1>13 DEF NothingToDelete
<1>14. CASE Delete(j)
  BY <1>14 DEF Delete
<1>15. CASE ResolveAllowed(j)
  BY <1>15 DEF ResolveAllowed
<1>16. CASE Serve(j)
  <2>1. tx[j].id = 0 /\ tx[j].deletes = {}
    BY <1>16 DEF Serve
  <2> QED BY ZenonT(60), <1>16, <2>1 DEF Serve
<1>17. CASE ServeNothing(j)
  BY <1>17 DEF ServeNothing
<1>18. CASE Commit(j)
  BY <1>18 DEF Commit
<1>19. CASE Rollback(j)
  BY <1>19 DEF Rollback
<1>20. CASE Abort(j)
  BY <1>20 DEF Abort, Undo
<1> HIDE DEF IInv, JobInv, TypeOK, Inserted, At, Loads, Open, Move, Return, Raise, End, Write, EmptyTx
<1> QED BY StepCases, <1>1, <1>2, <1>3, <1>4, <1>5, <1>6, <1>7, <1>8, <1>9, <1>10, <1>11, <1>12, <1>13, <1>14, <1>15, <1>16, <1>17, <1>18, <1>19, <1>20

-----------------------------------------------------------------------------
(* Keys and rows                                                           *)

LEMMA Writers ==
  ASSUME NEW j \in Jobs, Step(j)
  PROVE  \/ UNCHANGED <<rows, nextId, tx>>
         \/ DeleteExisting(j) \/ Insert(j) \/ InsertConflicts(j) \/ Fill(j) \/ RefuseRoles(j)
         \/ Delete(j) \/ Commit(j) \/ Rollback(j) \/ Abort(j)
BY StepCases DEF Begin, FindNothing, SkipExisting, FindExisting, NoText, RefuseInput, FindDeleted,
  NothingToDelete, ResolveAllowed, Serve, ServeNothing

\* A deletion takes a row that no other transaction has deleted.
LEMMA ExclusiveDelete ==
  ASSUME IInv, NEW j \in Jobs, DeleteExisting(j) \/ Delete(j) PROVE Exclusive'
<1> DEFINE D == {target[j]} \cap DOMAIN rows
<1>1. UNCHANGED <<rows, nextId>> /\ tx[j].id = 0
  BY DEF DeleteExisting, Delete, At, IInv, JobInv, EmptyTx
<1>2. \A k \in Jobs \ {j} : D \cap tx[k].deletes = {}
  BY DEF DeleteExisting, Delete, Deleters
<1>3. tx' = [tx EXCEPT ![j] = [deletes |-> D, id |-> tx[j].id, row |-> tx[j].row]]
  <2>1. CASE DeleteExisting(j)  BY <2>1 DEF DeleteExisting, Write
  <2>2. CASE Delete(j)
    <3>1. D = {target[j]}
      BY <2>2 DEF Delete
    <3> QED BY <2>2, <3>1 DEF Delete, Write
  <2> QED BY <2>1, <2>2
<1>4. tx'[j].deletes = D /\ tx'[j].id = 0 /\ \A k \in Jobs \ {j} : tx'[k] = tx[k]
  BY <1>1, <1>3 DEF IInv, TypeOK
<1>5. D \subseteq DOMAIN rows
  OBVIOUS
<1> HIDE DEF D
<1> QED BY SMTT(40), <1>1, <1>2, <1>4, <1>5 DEF IInv, TypeOK, Exclusive, Inserted, OneRowPerDocument

\* The unique indexes let an insertion pass only if nobody else has its keys.
LEMMA ExclusiveInsert ==
  ASSUME IInv, NEW j \in Jobs, Insert(j) PROVE Exclusive'
<1> DEFINE new == NewRow(j, {}, FALSE)
<1>1. /\ rows' = rows /\ nextId' = nextId + 1
      /\ tx' = [tx EXCEPT ![j] = [deletes |-> tx[j].deletes, id |-> nextId, row |-> new]]
  BY DEF Insert, Write
<1>2. nextId \in Nat \ {0} /\ ~Inserted(j)
  BY DEF IInv, TypeOK, Insert, JobInv
<1>3. \A k \in Jobs \ {j} : Inserted(k) => ~SameKey(tx[k].row, new)
  BY DEF Insert, Blockers, Inserted, SameKey, NewRow
<1>4. \A i \in DOMAIN rows : SameKey(new, rows[i]) => i \in tx[j].deletes
  BY DEF Insert, Blockers, Rivals, SameKey, NewRow
<1>5. tx'[j].deletes = tx[j].deletes
  BY <1>1 DEF IInv, TypeOK
<1>6. tx'[j].id = nextId /\ tx'[j].row = new
  BY <1>1 DEF IInv, TypeOK
<1>7. \A k \in Jobs \ {j} : tx'[k] = tx[k]
  BY <1>1 DEF IInv, TypeOK
<1> HIDE DEF new
<1>8. \A i \in DOMAIN rows' : i < nextId'
  BY <1>1, <1>2 DEF IInv, TypeOK, Exclusive, IsTable, RowIds
<1>9. \A k \in Jobs : tx'[k].id # 0 => tx'[k].id < nextId' /\ tx'[k].id \notin DOMAIN rows'
  <2>1. nextId \notin DOMAIN rows /\ nextId < nextId + 1
    BY <1>2 DEF IInv, Exclusive
  <2>2. \A k \in Jobs \ {j} : tx[k].id # 0 => tx[k].id < nextId + 1 /\ tx[k].id \notin DOMAIN rows
    BY <1>2 DEF IInv, TypeOK, Exclusive, Inserted
  <2> QED BY <1>1, <1>6, <1>7, <2>1, <2>2
<1>10. \A k \in Jobs : tx'[k].deletes \subseteq DOMAIN rows'
  BY <1>1, <1>5, <1>7 DEF IInv, Exclusive
<1>11. \A k, m \in Jobs : k # m =>
         /\ tx'[k].deletes \cap tx'[m].deletes = {}
         /\ tx'[k].id # 0 /\ tx'[m].id # 0 =>
              tx'[k].id # tx'[m].id /\ ~SameKey(tx'[k].row, tx'[m].row)
  <2> SUFFICES ASSUME NEW k \in Jobs, NEW m \in Jobs, k # m
      PROVE  /\ tx'[k].deletes \cap tx'[m].deletes = {}
             /\ tx'[k].id # 0 /\ tx'[m].id # 0 =>
                  tx'[k].id # tx'[m].id /\ ~SameKey(tx'[k].row, tx'[m].row)
    OBVIOUS
  <2>1. \A n \in Jobs \ {j} : tx[n].id # nextId
    BY <1>2 DEF IInv, TypeOK, Exclusive, Inserted
  <2>2. CASE k = j
    BY <1>3, <1>5, <1>6, <1>7, <2>1, <2>2 DEF IInv, Exclusive, Inserted, SameKey
  <2>3. CASE m = j
    BY <1>3, <1>5, <1>6, <1>7, <2>1, <2>3 DEF IInv, Exclusive, Inserted, SameKey
  <2>4. CASE k # j /\ m # j
    BY <1>7, <2>4 DEF IInv, Exclusive, Inserted
  <2> QED BY <2>2, <2>3, <2>4
<1>12. \A k \in Jobs : \A i \in DOMAIN rows' :
         tx'[k].id # 0 /\ SameKey(tx'[k].row, rows'[i]) => i \in tx'[k].deletes
  BY <1>1, <1>4, <1>5, <1>6, <1>7 DEF IInv, Exclusive, Inserted
<1> QED BY <1>1, <1>8, <1>9, <1>10, <1>11, <1>12 DEF IInv, Exclusive, Inserted, OneRowPerDocument, SameKey

\* The ACL and the chunks leave the keys alone.
LEMMA ExclusiveFill ==
  ASSUME IInv, NEW j \in Jobs, Fill(j) \/ RefuseRoles(j) PROVE Exclusive'
<1>1. UNCHANGED <<rows, nextId>>
  BY DEF Fill, RefuseRoles
<1>2. \A k \in Jobs :
        /\ tx'[k].deletes = tx[k].deletes /\ tx'[k].id = tx[k].id
        /\ Inserted(k) => tx'[k].row.doc = tx[k].row.doc /\ tx'[k].row.content = tx[k].row.content
  <2>1. CASE Fill(j)
    BY <2>1 DEF Fill, Write, NewRow, IInv, TypeOK, JobInv, Inserted
  <2>2. CASE RefuseRoles(j)
    BY <2>2 DEF RefuseRoles, Write, NewRow, IInv, TypeOK, JobInv, Inserted
  <2> QED BY <2>1, <2>2
<1> QED BY <1>1, <1>2 DEF IInv, Exclusive, Inserted, SameKey, OneRowPerDocument

LEMMA ExclusiveUndo ==
  ASSUME IInv, NEW j \in Jobs, Rollback(j) \/ Abort(j) PROVE Exclusive'
<1>1. UNCHANGED <<rows, nextId>> /\ tx' = [tx EXCEPT ![j] = EmptyTx]
  BY DEF Rollback, Abort, Undo
<1> QED BY <1>1 DEF IInv, TypeOK, Exclusive, Inserted, EmptyTx, OneRowPerDocument

\* After a commit a row is an old one or the job's own.
LEMMA CommittedRow ==
  ASSUME IInv, NEW j \in Jobs, Commit(j), NEW i \in DOMAIN rows'
  PROVE  \/ i \in DOMAIN rows /\ i \notin tx[j].deletes /\ rows'[i] = rows[i]
         \/ i = tx[j].id /\ Inserted(j) /\ rows'[i] = tx[j].row
<1>1. DOMAIN rows' = Kept(j) \cup ({tx[j].id} \ {0})
  BY DEF Commit
<1>2. rows'[i] = IF i = tx[j].id THEN tx[j].row ELSE rows[i]
  BY DEF Commit
<1>3. CASE i = tx[j].id
  <2>1. Inserted(j)
    BY <1>1, <1>3 DEF IInv, TypeOK, IsTable, RowIds, Kept, Inserted
  <2> QED BY <1>2, <1>3, <2>1
<1>4. CASE i # tx[j].id
  BY <1>1, <1>2, <1>4 DEF Kept
<1> QED BY <1>3, <1>4

\* A commit writes one row, whose keys are free once its deletions are carried out.
LEMMA ExclusiveCommit ==
  ASSUME IInv, NEW j \in Jobs, Commit(j) PROVE Exclusive'
<1>1. nextId' = nextId /\ tx' = [tx EXCEPT ![j] = EmptyTx]
  BY DEF Commit
<1>2. DOMAIN rows' = Kept(j) \cup ({tx[j].id} \ {0})
  BY DEF Commit
<1>3. \A i \in DOMAIN rows' :
        \/ i \in DOMAIN rows /\ i \notin tx[j].deletes /\ rows'[i] = rows[i]
        \/ i = tx[j].id /\ Inserted(j) /\ rows'[i] = tx[j].row
  BY CommittedRow
<1>4. \A k \in Jobs \ {j} : tx'[k] = tx[k]
  BY <1>1 DEF IInv, TypeOK
<1>5. tx'[j].id = 0 /\ tx'[j].deletes = {}
  BY <1>1 DEF IInv, TypeOK, EmptyTx
<1>6. \A k \in Jobs : tx'[k].deletes \subseteq DOMAIN rows'
  BY <1>2, <1>4, <1>5 DEF IInv, Exclusive, Kept
<1>7. \A i, k \in DOMAIN rows' : SameKey(rows'[i], rows'[k]) => i = k
  BY <1>3 DEF IInv, Exclusive, OneRowPerDocument, SameKey
<1>8. \A k \in Jobs : \A i \in DOMAIN rows' :
        tx'[k].id # 0 /\ SameKey(tx'[k].row, rows'[i]) => i \in tx'[k].deletes
  BY <1>3, <1>4, <1>5 DEF IInv, Exclusive, Inserted, SameKey
<1>9. \A k \in Jobs : tx'[k].id # 0 => tx'[k].id < nextId' /\ tx'[k].id \notin DOMAIN rows'
  BY <1>1, <1>3, <1>4, <1>5 DEF IInv, Exclusive, Inserted
<1>10. \A i \in DOMAIN rows' : i < nextId'
  BY <1>1, <1>3 DEF IInv, Exclusive
<1>11. \A k, m \in Jobs : k # m =>
         /\ tx'[k].deletes \cap tx'[m].deletes = {}
         /\ tx'[k].id # 0 /\ tx'[m].id # 0 =>
              tx'[k].id # tx'[m].id /\ ~SameKey(tx'[k].row, tx'[m].row)
  BY <1>4, <1>5 DEF IInv, Exclusive, Inserted
<1> QED BY <1>6, <1>7, <1>8, <1>9, <1>10, <1>11 DEF Exclusive, Inserted, OneRowPerDocument, SameKey

LEMMA ExclusiveStep ==
  ASSUME IInv, NEW j \in Jobs, Step(j) PROVE Exclusive'
<1>1. CASE UNCHANGED <<rows, nextId, tx>>
  BY <1>1 DEF IInv, Exclusive, Inserted, OneRowPerDocument
<1>2. CASE InsertConflicts(j)
  <2>1. /\ UNCHANGED <<rows, tx>> /\ nextId' = nextId + 1 /\ nextId \in 1..(MaxRows + 1)
        /\ \A k \in Jobs : tx[k].id \in Nat
        /\ DOMAIN rows \subseteq Nat
    BY <1>2, IngestionAssumption DEF InsertConflicts, IInv, TypeOK, IsTable, RowIds
  <2>2. \A i \in Nat : i < nextId => i < nextId + 1
    BY <2>1, IngestionAssumption
  <2> QED BY <2>1, <2>2 DEF IInv, Exclusive, Inserted, OneRowPerDocument
<1> QED BY Writers, <1>1, <1>2, ExclusiveDelete, ExclusiveInsert, ExclusiveFill, ExclusiveUndo, ExclusiveCommit

-----------------------------------------------------------------------------
(* What is stored, and what was seen                                       *)

\* A job that is over takes no step; one that commits keeps its work and its file.
LEMMA StoredStep ==
  ASSUME IInv, NEW j \in Jobs, Step(j) PROVE Stored'
<1>1. pc[j] # "done"
  BY StepCases DEF Begin, FindNothing, SkipExisting, FindExisting, DeleteExisting, NoText,
    RefuseInput, Insert, InsertConflicts, Fill, RefuseRoles, FindDeleted, NothingToDelete,
    Delete, ResolveAllowed, Serve, ServeNothing, Commit, Rollback, Abort, Open, At
<1>2. \A k \in Jobs \ {j} : Same(k)
  BY OneJobMoves DEF IInv
<1>3. ASSUME NEW i \in DOMAIN rows', i \in DOMAIN rows, rows'[i] = rows[i]
      PROVE  /\ rows'[i].whole /\ rows'[i].acl # {}
             /\ rows'[i].by # Corpus =>
                  /\ pc'[rows'[i].by] = "done"
                  /\ rows'[i].acl = work'[rows'[i].by].roles
                  /\ work'[rows'[i].by].kind = "upload" => rows'[i].by \in files'
  <2>1. rows[i].by \in Jobs \cup {Corpus}
    BY <1>3 DEF IInv, TypeOK, IsTable, Row
  <2> QED BY <1>1, <1>2, <1>3, <2>1 DEF IInv, Stored, Same
<1>4. CASE Commit(j)
  <2>1. ASSUME NEW i \in DOMAIN rows', Inserted(j), rows'[i] = tx[j].row
        PROVE  /\ rows'[i].whole /\ rows'[i].acl # {}
               /\ rows'[i].by = j /\ pc'[j] = "done" /\ rows'[i].acl = work'[j].roles
               /\ work'[j].kind = "upload" => j \in files'
    BY <1>4, <2>1 DEF Commit, End, Move, IInv, TypeOK, JobInv
  <2> QED BY <1>3, <1>4, <2>1, CommittedRow DEF Stored
<1>5. CASE ~Commit(j)
  <2>1. rows' = rows
    BY <1>5, Writers DEF DeleteExisting, Insert, InsertConflicts, Fill, RefuseRoles, Delete,
      Rollback, Abort, Undo
  <2> QED BY <1>3, <2>1 DEF Stored
<1> QED BY <1>4, <1>5

\* What a step does to the rows, the sequence and the job's new row.
LEMMA StepEffects ==
  ASSUME IInv, NEW j \in Jobs, Step(j)
  PROVE  /\ nextId' = nextId \/ nextId' = nextId + 1
         /\ tx'[j].id \in {0, tx[j].id, nextId}
         /\ \A i \in DOMAIN rows' : i # tx[j].id => i \in DOMAIN rows /\ rows'[i] = rows[i]
<1> USE DEF IInv, TypeOK
<1>1. CASE UNCHANGED <<rows, nextId, tx>>
  BY <1>1
<1>2. CASE DeleteExisting(j) \/ Insert(j) \/ Fill(j) \/ RefuseRoles(j) \/ Delete(j)
  <2>1. rows' = rows
    BY <1>2 DEF DeleteExisting, Insert, Fill, RefuseRoles, Delete
  <2>2. nextId' = nextId \/ nextId' = nextId + 1
    BY <1>2 DEF DeleteExisting, Insert, Fill, RefuseRoles, Delete
  <2>3. tx'[j].id = tx[j].id \/ tx'[j].id = nextId
    <3>1. CASE DeleteExisting(j)  BY <3>1 DEF DeleteExisting, Write
    <3>2. CASE Insert(j)          BY <3>2 DEF Insert, Write
    <3>3. CASE Fill(j)            BY <3>3 DEF Fill, Write
    <3>4. CASE RefuseRoles(j)     BY <3>4 DEF RefuseRoles, Write
    <3>5. CASE Delete(j)          BY <3>5 DEF Delete, Write
    <3> QED BY <1>2, <3>1, <3>2, <3>3, <3>4, <3>5
  <2> QED BY <2>1, <2>2, <2>3
<1>3. CASE Commit(j)
  <2>1. nextId' = nextId /\ tx'[j].id = 0
    BY <1>3 DEF Commit, EmptyTx
  <2> QED BY <1>3, <2>1, CommittedRow
<1>4. CASE Rollback(j) \/ Abort(j)
  BY <1>4 DEF Rollback, Abort, Undo, EmptyTx
<1>5. CASE InsertConflicts(j)
  BY <1>5 DEF InsertConflicts
<1> HIDE DEF IInv, TypeOK
<1> QED BY <1>1, <1>2, <1>3, <1>4, <1>5, Writers

\* Ids are taken in order and never given out twice.
LEMMA SeenStep ==
  ASSUME IInv, NEW j \in Jobs, Step(j), NEW k \in Jobs \ {j}, pc'[k] = "resolved",
         NEW i \in sight'[k]
  PROVE  /\ i < nextId'
         /\ \A m \in Jobs : tx'[m].id # i
         /\ i \in DOMAIN rows' => rows'[i].acl \cap work'[k].roles # {}
<1>1. \A m \in Jobs \ {j} : Same(m)
  BY OneJobMoves DEF IInv
<1>2. pc[k] = "resolved" /\ i \in sight[k] /\ work'[k] = work[k]
  BY <1>1 DEF Same
<1>3. /\ i < nextId /\ \A m \in Jobs : tx[m].id # i
      /\ i \in DOMAIN rows => rows[i].acl \cap work[k].roles # {}
  BY <1>2 DEF IInv, Sighted
<1>4. i \in 1..MaxRows /\ nextId \in 1..(MaxRows + 1)
  BY <1>2 DEF IInv, TypeOK, RowIds
<1>5. i < nextId'
  BY <1>3, <1>4, StepEffects, IngestionAssumption
<1>6. tx'[j].id # i
  BY <1>3, <1>4, StepEffects, IngestionAssumption
<1>7. \A m \in Jobs \ {j} : tx'[m].id # i
  BY <1>1, <1>3 DEF Same
<1>8. i \in DOMAIN rows' => rows'[i].acl \cap work'[k].roles # {}
  BY <1>2, <1>3, StepEffects
<1> QED BY <1>5, <1>6, <1>7, <1>8

LEMMA SeesNow ==
  ASSUME IInv, NEW j \in Jobs, Step(j), pc'[j] = "resolved", NEW i \in sight'[j]
  PROVE  /\ i < nextId'
         /\ \A m \in Jobs : tx'[m].id # i
         /\ i \in DOMAIN rows' => rows'[i].acl \cap work'[j].roles # {}
<1>1. ResolveAllowed(j)
  BY ZenonT(60), StepCases DEF IInv, TypeOK, Begin, FindNothing, SkipExisting, FindExisting, DeleteExisting,
    NoText, RefuseInput, Insert, InsertConflicts, Fill, RefuseRoles, FindDeleted, NothingToDelete,
    Delete, Serve, ServeNothing, Commit, Rollback, Abort, Undo, Refuse, Move, Return, Raise, End
<1>2. UNCHANGED <<rows, nextId, tx, work>>
  BY <1>1 DEF ResolveAllowed
<1>3. i \in DOMAIN rows /\ rows[i].acl \cap work[j].roles # {}
  BY <1>1 DEF ResolveAllowed, IInv, TypeOK
<1>4. i < nextId /\ i # 0
  BY <1>3 DEF IInv, Exclusive, TypeOK, IsTable, RowIds
<1>5. \A m \in Jobs : tx[m].id # i
  BY <1>3, <1>4 DEF IInv, Exclusive, Inserted
<1> QED BY <1>2, <1>3, <1>4, <1>5

LEMMA ServedStep ==
  ASSUME IInv, NEW j \in Jobs, Step(j), reply'[j] = "served"
  PROVE  served'[j].whole /\ served'[j].acl \cap work'[j].roles # {}
<1>1. CASE Serve(j)
  <2>1. PICK i \in Readable(j) : served' = [served EXCEPT ![j] = rows[i]]
    BY <1>1 DEF Serve
  <2>2. i \in DOMAIN rows /\ i \in sight[j]
    BY DEF Readable, Named
  <2>3. rows[i].whole /\ rows[i].acl \cap work[j].roles # {}
    BY <1>1, <2>2 DEF Serve, IInv, Stored, Sighted
  <2>4. served'[j] = rows[i] /\ work' = work
    BY <1>1, <2>1 DEF Serve, IInv, TypeOK
  <2> QED BY <2>3, <2>4
<1>2. CASE ~Serve(j)
  <2>1. served' = served /\ reply[j] = "served" /\ work'[j] = work[j]
    <3>1. ASSUME NEW w \in Works[j], Begin(j, w) PROVE FALSE
      BY <3>1 DEF Begin, IInv, JobInv
    <3> QED BY <1>2, <3>1, StepCases DEF IInv, TypeOK, FindNothing, SkipExisting, FindExisting,
      DeleteExisting, NoText, RefuseInput, Insert, InsertConflicts, Fill, RefuseRoles, FindDeleted,
      NothingToDelete, Delete, ResolveAllowed, ServeNothing, Commit, Rollback, Abort, Undo, Refuse,
      Move, Return, Raise
  <2> QED BY <2>1 DEF IInv, Sighted
<1> QED BY <1>1, <1>2

LEMMA SightedStep ==
  ASSUME IInv, NEW j \in Jobs, Step(j) PROVE Sighted'
<1>1. \A k \in Jobs \ {j} : Same(k)
  BY OneJobMoves DEF IInv
<1>2. ASSUME NEW k \in Jobs, pc'[k] = "resolved", NEW i \in sight'[k]
      PROVE  /\ i < nextId'
             /\ \A m \in Jobs : tx'[m].id # i
             /\ i \in DOMAIN rows' => rows'[i].acl \cap work'[k].roles # {}
  BY <1>2, SeenStep, SeesNow
<1>3. ASSUME NEW k \in Jobs, reply'[k] = "served"
      PROVE  served'[k].whole /\ served'[k].acl \cap work'[k].roles # {}
  <2>1. CASE k = j
    BY <1>3, <2>1, ServedStep
  <2>2. CASE k # j
    BY <1>1, <1>3, <2>2 DEF Same, IInv, Sighted
  <2> QED BY <2>1, <2>2
<1> QED BY <1>2, <1>3 DEF Sighted

-----------------------------------------------------------------------------
(* The invariant                                                           *)

LEMMA InitInv == Init => IInv
<1> SUFFICES ASSUME Init PROVE IInv
  OBVIOUS
<1> USE IngestionAssumption
<1>1. PICK n \in 0..MaxRows : DOMAIN rows = 1..n
  BY DEF Init
<1>2. nextId = n + 1
  <2>1. Cardinality(1..n) = IF 1 > n THEN 0 ELSE n - 1 + 1
    BY FS_Interval
  <2> QED BY <1>1, <2>1 DEF Init
<1>3. /\ IsTable(rows)
      /\ \A i \in DOMAIN rows : rows[i].whole /\ rows[i].acl # {} /\ rows[i].by = Corpus
      /\ \A i, k \in DOMAIN rows : SameKey(rows[i], rows[k]) => i = k
  BY DEF Init
<1>4. TypeOK
  BY <1>1, <1>2, <1>3 DEF Init, TypeOK, EmptyTx, Open, Replies, RowIds
<1>5. \A j \in Jobs : JobInv(j)
  BY DEF Init, JobInv, EmptyTx, NoWork, Inserted
<1>6. Exclusive
  BY <1>1, <1>2, <1>3 DEF Init, Exclusive, EmptyTx, Inserted, OneRowPerDocument
<1>7. Stored
  BY <1>3 DEF Stored
<1>8. Sighted
  BY DEF Init, Sighted
<1> QED BY <1>4, <1>5, <1>6, <1>7, <1>8 DEF IInv

LEMMA Inductive == IInv /\ [Next]_vars => IInv'
<1> SUFFICES ASSUME IInv, [Next]_vars PROVE IInv'
  OBVIOUS
<1>1. CASE UNCHANGED vars
  BY SMTT(40), <1>1 DEF vars, IInv, TypeOK, IsTable, JobInv, Inserted, Exclusive, OneRowPerDocument, Stored,
    Sighted
<1>2. ASSUME NEW j \in Jobs, Step(j) PROVE IInv'
  BY <1>2, TypeStep, JobStep, ExclusiveStep, StoredStep, SightedStep DEF IInv
<1> QED BY <1>1, <1>2 DEF Next, Step, Finished

THEOREM Invariance == Spec => []IInv
BY InitInv, Inductive, PTL DEF Spec

\* The tables, the jobs and their transactions have their types.
THEOREM TypeCorrect == Spec => []TypeOK
<1>1. IInv => TypeOK
  BY DEF IInv
<1> QED BY <1>1, Invariance, PTL

\* However many jobs load, replace and delete, and in whatever order their statements run, a
\* doc_id and a checksum are in the table once: ingest_file's check guarantees nothing, the
\* unique indexes everything.
THEOREM OneRow == Spec => []OneRowPerDocument
<1>1. IInv => OneRowPerDocument
  BY DEF IInv, Exclusive
<1> QED BY <1>1, Invariance, PTL

\* No statement of ingest_file that fails, and no other job, leaves a document with a part of
\* its chunks or with other access rights than its job gave it.
THEOREM Whole == Spec => []WholeDocuments
<1>1. IInv => WholeDocuments
  BY DEF IInv, Stored, WholeDocuments
<1> QED BY <1>1, Invariance, PTL

\* The file of a document that was uploaded stays: only an upload that fails takes one away, its own.
THEOREM FilesKept == Spec => []UploadsHaveFiles
<1>1. IInv => UploadsHaveFiles
  BY DEF IInv, Stored, UploadsHaveFiles, FileOf
<1> QED BY <1>1, Invariance, PTL

\* Whoever is served a document has a right to the version that is served: a replacement has
\* another id than the row whose rights were resolved.
THEOREM Served == Spec => []ServedIsAllowed
<1>1. IInv => ServedIsAllowed
  BY DEF IInv, Sighted, ServedIsAllowed
<1> QED BY <1>1, Invariance, PTL

\* Rows are written by commits only; a commit takes away what its job found and no more.
LEMMA LossStep ==
  ASSUME IInv, NEW j \in Jobs, Step(j)
  PROVE  /\ \A i \in DOMAIN rows \cap DOMAIN rows' : rows'[i] = rows[i]
         /\ \A i \in DOMAIN rows \ DOMAIN rows' :
              /\ Commits(j) /\ target[j] = i
              /\ \/ work[j].kind = "delete" /\ Noted(j) \in auditLog'
                 \/ work[j].kind = "replace"
<1>1. CASE Commit(j)
  <2>1. Commits(j)
    BY <1>1 DEF Commit, Commits, End, Move, IInv, TypeOK
  <2>2. \A i \in DOMAIN rows : i # tx[j].id
    BY DEF IInv, Exclusive, Inserted, TypeOK, IsTable, RowIds
  <2>3. \A i \in DOMAIN rows \ DOMAIN rows' : i \in tx[j].deletes
    BY <1>1 DEF Commit, Kept
  <2>4. work[j].kind = "delete" => Noted(j) \in auditLog'
    BY <1>1 DEF Commit
  <2> QED BY <1>1, <2>1, <2>2, <2>3, <2>4, CommittedRow DEF IInv, JobInv
<1>2. CASE ~Commit(j)
  <2>1. rows' = rows
    BY <1>2, Writers DEF DeleteExisting, Insert, InsertConflicts, Fill, RefuseRoles, Delete,
      Rollback, Abort, Undo
  <2> QED BY <2>1
<1> QED BY <1>1, <1>2

\* A committed document is never changed, and goes only with a deletion in audit_log or a
\* replacement that found it.
THEOREM Explained == Spec => LossIsExplained
<1> DEFINE A == /\ \A i \in DOMAIN rows \cap DOMAIN rows' : rows'[i] = rows[i]
                /\ \A i \in DOMAIN rows \ DOMAIN rows' : \E j \in Jobs :
                     /\ Commits(j) /\ target[j] = i
                     /\ \/ work[j].kind = "delete" /\ Noted(j) \in auditLog'
                        \/ work[j].kind = "replace"
<1>1. IInv /\ [Next]_vars => [A]_vars
  <2> SUFFICES ASSUME IInv, Next PROVE A \/ UNCHANGED vars
    OBVIOUS
  <2>1. ASSUME NEW j \in Jobs, Step(j) PROVE A
    BY <2>1, LossStep
  <2> QED BY <2>1 DEF Next, Step, Finished
<1> QED BY <1>1, Invariance, PTL DEF Spec, LossIsExplained

-----------------------------------------------------------------------------
(* The catalogue                                                           *)

\* What a replacement is to delete shares a key with what it is to insert, or is gone.
Found ==
  \A j \in Jobs :
    /\ pc[j] \in {"idle", "begun"} => target[j] = 0
    /\ work[j].kind = "replace" /\ target[j] # 0 =>
         /\ target[j] < nextId
         /\ \A k \in Jobs : tx[k].id # target[j]
         /\ target[j] \in DOMAIN rows => SameKey(rows[target[j]], work[j])

\* A row that a job has found keeps its keys and its id.
LEMMA FoundKept ==
  ASSUME IInv, Found, NEW j \in Jobs, Step(j), NEW k \in Jobs,
         target'[k] = target[k], work'[k] = work[k],
         work[k].kind = "replace", target[k] # 0
  PROVE  /\ target[k] < nextId'
         /\ \A m \in Jobs : tx'[m].id # target[k]
         /\ target[k] \in DOMAIN rows' => SameKey(rows'[target[k]], work[k])
<1>1. /\ target[k] < nextId /\ \A m \in Jobs : tx[m].id # target[k]
      /\ target[k] \in DOMAIN rows => SameKey(rows[target[k]], work[k])
  BY DEF Found
<1>2. target[k] \in 0..MaxRows /\ nextId \in 1..(MaxRows + 1)
  BY DEF IInv, TypeOK
<1>3. target[k] < nextId'
  BY <1>1, <1>2, StepEffects, IngestionAssumption
<1>4. tx'[j].id # target[k]
  BY <1>1, <1>2, StepEffects, IngestionAssumption
<1>5. \A m \in Jobs \ {j} : tx'[m].id # target[k]
  BY <1>1, OneJobMoves DEF Same, IInv
<1>6. target[k] \in DOMAIN rows' => SameKey(rows'[target[k]], work[k])
  BY <1>1, StepEffects
<1> QED BY <1>3, <1>4, <1>5, <1>6

LEMMA FoundStep ==
  ASSUME IInv, Found, NEW j \in Jobs, Step(j) PROVE Found'
<1> DEFINE Good(k) ==
      /\ pc'[k] \in {"idle", "begun"} => target'[k] = 0
      /\ work'[k].kind = "replace" /\ target'[k] # 0 =>
           /\ target'[k] < nextId'
           /\ \A m \in Jobs : tx'[m].id # target'[k]
           /\ target'[k] \in DOMAIN rows' => SameKey(rows'[target'[k]], work'[k])
<1>1. ASSUME NEW k \in Jobs \ {j} PROVE Good(k)
  <2>1. target'[k] = target[k] /\ work'[k] = work[k] /\ pc'[k] = pc[k]
    BY OneJobMoves DEF Same, IInv
  <2> QED BY <2>1, FoundKept DEF Found
<1>2. CASE \E w \in Works[j] : Begin(j, w)
  <2>1. target'[j] = 0
    BY <1>2 DEF Begin, Found
  <2> QED BY <1>1, <2>1 DEF Found
<1>3. CASE FindExisting(j)
  <2>1. PICK i \in Matches(j) : target' = [target EXCEPT ![j] = i]
    BY <1>3 DEF FindExisting
  <2>2. target'[j] = i /\ pc'[j] = "deleting" /\ UNCHANGED <<rows, nextId, tx, work>>
    BY <1>3, <2>1 DEF FindExisting, Move, IInv, TypeOK
  <2>3. i \in DOMAIN rows /\ SameKey(rows[i], work[j])
    BY <2>1 DEF Matches
  <2>4. i < nextId /\ i # 0
    BY <2>3 DEF IInv, Exclusive, TypeOK, IsTable, RowIds
  <2>5. \A m \in Jobs : tx[m].id # i
    BY <2>3, <2>4 DEF IInv, Exclusive, Inserted
  <2>6. Good(j)
    BY <2>2, <2>3, <2>4, <2>5
  <2> QED BY <1>1, <2>6 DEF Found
<1>4. CASE FindDeleted(j)
  <2>1. work'[j].kind # "replace" /\ pc'[j] = "deleting"
    BY <1>4 DEF FindDeleted, At, Move, IInv, TypeOK
  <2> QED BY <1>1, <2>1 DEF Found
<1>5. CASE Commit(j) \/ Rollback(j) \/ Abort(j)
  <2>1. target'[j] = 0
    BY <1>5 DEF Commit, Rollback, Abort, Undo, End, IInv, TypeOK
  <2> QED BY <1>1, <2>1 DEF Found
<1>6. CASE /\ \A w \in Works[j] : ~Begin(j, w)
           /\ ~FindExisting(j) /\ ~FindDeleted(j) /\ ~Commit(j) /\ ~Rollback(j) /\ ~Abort(j)
  <2> DEFINE Stays == target' = target /\ work' = work /\ pc'[j] \notin {"idle", "begun"}
  <2> USE DEF IInv, TypeOK, Move, Return, Raise
  <2>1. FindNothing(j) => Stays      BY DEF FindNothing
  <2>2. SkipExisting(j) => Stays     BY DEF SkipExisting
  <2>3. DeleteExisting(j) => Stays   BY DEF DeleteExisting
  <2>4. NoText(j) => Stays           BY DEF NoText
  <2>5. RefuseInput(j) => Stays      BY DEF RefuseInput, Refuse
  <2>6. Insert(j) => Stays           BY DEF Insert
  <2>7. InsertConflicts(j) => Stays  BY DEF InsertConflicts
  <2>8. Fill(j) => Stays             BY DEF Fill
  <2>9. RefuseRoles(j) => Stays      BY DEF RefuseRoles, Refuse
  <2>10. NothingToDelete(j) => Stays  BY DEF NothingToDelete
  <2>11. Delete(j) => Stays           BY DEF Delete
  <2>12. ResolveAllowed(j) => Stays   BY DEF ResolveAllowed
  <2>13. Serve(j) => Stays            BY DEF Serve
  <2>14. ServeNothing(j) => Stays     BY DEF ServeNothing
  <2> HIDE DEF IInv, TypeOK, Move, Return, Raise
  <2>15. Stays
    BY <1>6, StepCases, <2>1, <2>2, <2>3, <2>4, <2>5, <2>6, <2>7, <2>8, <2>9, <2>10, <2>11, <2>12,
       <2>13, <2>14
  <2>16. Good(j)
    BY <2>15, FoundKept
  <2> QED BY <1>1, <2>16 DEF Found
<1> QED BY <1>2, <1>3, <1>4, <1>5, <1>6

\* The invariant of the safety properties, with what replacements have found.
THEOREM FoundInvariance == Spec => [](IInv /\ Found)
<1>1. Init => Found
  BY DEF Init, Found
<1>2. IInv /\ Found /\ [Next]_vars => Found'
  <2> SUFFICES ASSUME IInv, Found, [Next]_vars PROVE Found'
    OBVIOUS
  <2>1. CASE UNCHANGED vars
    BY <2>1 DEF vars, Found
  <2>2. ASSUME NEW j \in Jobs, Step(j) PROVE Found'
    BY <2>2, FoundStep
  <2> QED BY <2>1, <2>2 DEF Next, Step, Finished
<1> QED BY <1>1, <1>2, Invariance, PTL DEF Spec

\* A row as the catalogue has it.
Document(row) == [doc |-> row.doc, content |-> row.content, acl |-> row.acl]

\* A commit: a document comes, in the place of what was deleted; or one goes; or nothing changes.
LEMMA CommitIsCatalogue ==
  ASSUME IInv, Found, NEW j \in Jobs, Commit(j)
  PROVE  AsCatalogue!Next \/ UNCHANGED <<Published, Spent>>
<1> DEFINE id == tx[j].id
           new == Document(tx[j].row)
<1>1. /\ nextId' = nextId /\ pc[j] = "returned"
      /\ tx' = [tx EXCEPT ![j] = EmptyTx] /\ tx'[j].id = 0
      /\ rows' = [i \in Kept(j) \cup ({id} \ {0}) |-> IF i = id THEN tx[j].row ELSE rows[i]]
  BY DEF Commit, EmptyTx, IInv, TypeOK
<1>2. /\ DOMAIN Published = DOMAIN rows /\ DOMAIN Published' = DOMAIN rows'
      /\ \A i \in DOMAIN rows : Published[i] = Document(rows[i])
      /\ \A i \in DOMAIN rows' : Published'[i] = Document(rows'[i])
  BY DEF Published, Document
<1>3. \A i \in tx[j].deletes : i = target[j] /\ i \in DOMAIN rows
  BY DEF IInv, JobInv, Exclusive
<1>4. CASE Inserted(j)
  <2>1. id \in RowIds /\ id < nextId /\ id \notin DOMAIN rows
    BY <1>4 DEF IInv, TypeOK, Exclusive, Inserted, RowIds
  <2>2. id \notin Spent /\ Spent' = Spent \cup {id}
    <3>1. nextId \in 1..(MaxRows + 1) /\ id \in 1..(nextId - 1)
      BY <2>1, IngestionAssumption DEF IInv, TypeOK, RowIds
    <3>2. \A k \in Jobs \ {j} : tx'[k] = tx[k] /\ tx[k].id # id
      BY <1>1, <1>4, <2>1 DEF IInv, TypeOK, Exclusive, Inserted, RowIds
    <3> QED BY <1>1, <2>1, <3>1, <3>2 DEF Spent, RowIds
  <2>3. tx[j].row \in Row /\ tx[j].row.acl # {}
    BY <1>1, <1>4 DEF IInv, JobInv
  <2>4. new \in AsCatalogue!Document
    BY <2>3 DEF Document, AsCatalogue!Document, Row
  <2>5. DOMAIN rows' = (DOMAIN rows \ tx[j].deletes) \cup {id}
    BY <1>1, <2>1 DEF Kept, RowIds
  <2>6. Published' = [k \in (DOMAIN Published \ tx[j].deletes) \cup {id} |->
                        IF k = id THEN new ELSE Published[k]]
    <3>1. \A k \in DOMAIN rows' : Published'[k] = IF k = id THEN new ELSE Published[k]
      BY <1>1, <1>2, <2>5
    <3>2. Published' = [k \in DOMAIN rows' |-> Published'[k]]
      BY DEF Published
    <3> QED BY <1>2, <2>5, <3>1, <3>2
  <2>7. \A k \in DOMAIN Published \ tx[j].deletes : ~AsCatalogue!Clash(Published[k], new)
    BY <1>2, <1>4 DEF IInv, Exclusive, SameKey, Document, AsCatalogue!Clash
  <2>8. \A k \in DOMAIN Published : k \in tx[j].deletes => AsCatalogue!Clash(Published[k], new)
    <3> SUFFICES ASSUME NEW k \in DOMAIN rows, k \in tx[j].deletes
                 PROVE  AsCatalogue!Clash(Published[k], new)
      BY <1>2
    <3>1. work[j].kind \in {"replace", "delete"} /\ k = target[j] /\ work[j].kind \in Loads
      BY <1>4 DEF IInv, JobInv
    <3>2. work[j].kind = "replace" /\ target[j] # 0
      BY <3>1 DEF Loads, IInv, TypeOK, IsTable, RowIds
    <3>3. SameKey(rows[k], work[j])
      BY <3>1, <3>2 DEF Found
    <3>4. tx[j].row.doc = work[j].doc /\ tx[j].row.content = work[j].content
      BY <1>4 DEF IInv, JobInv
    <3> QED BY <1>2, <3>3, <3>4 DEF SameKey, Document, AsCatalogue!Clash
  <2>9. AsCatalogue!Put(id, new, tx[j].deletes)
    BY <2>2, <2>6, <2>7, <2>8 DEF AsCatalogue!Put, AsCatalogue!Become
  <2>10. tx[j].deletes = {} \/ \E k \in DOMAIN Published : tx[j].deletes = {k}
    BY <1>2, <1>3
  <2> QED BY <2>1, <2>4, <2>9, <2>10 DEF AsCatalogue!Next
<1>5. CASE ~Inserted(j)
  <2>1. Spent' = Spent
    <3>1. \A k \in Jobs : tx'[k].id = tx[k].id
      BY <1>1, <1>5 DEF IInv, TypeOK, Inserted
    <3> QED BY <1>1, <3>1 DEF Spent
  <2>2. DOMAIN rows' = DOMAIN rows \ tx[j].deletes
    BY <1>1, <1>5 DEF Kept, Inserted
  <2>3. \A i \in DOMAIN rows' : rows'[i] = rows[i]
    BY <1>5, CommittedRow
  <2>4. Published' = [k \in DOMAIN Published \ tx[j].deletes |-> Published[k]]
    <3>1. Published' = [k \in DOMAIN rows' |-> Document(rows'[k])]
      BY DEF Published, Document
    <3>2. \A k \in DOMAIN rows' : Document(rows'[k]) = Published[k]
      BY <1>2, <2>2, <2>3
    <3> QED BY <1>2, <2>2, <3>1, <3>2
  <2>5. CASE tx[j].deletes = {}
    <3>1. Published = [k \in DOMAIN Published |-> Published[k]]
      BY DEF Published
    <3> QED BY <2>1, <2>4, <2>5, <3>1
  <2>6. ASSUME NEW k \in DOMAIN rows, tx[j].deletes = {k} PROVE AsCatalogue!Remove(k)
    BY <1>2, <2>1, <2>4, <2>6 DEF AsCatalogue!Remove, AsCatalogue!Become
  <2>7. \A k \in DOMAIN rows : k \in RowIds
    BY DEF IInv, TypeOK, IsTable
  <2> QED BY <1>3, <2>5, <2>6, <2>7 DEF AsCatalogue!Next
<1> QED BY <1>4, <1>5

\* A job that gives up wastes the id of the row it had inserted.
LEMMA UndoIsCatalogue ==
  ASSUME IInv, NEW j \in Jobs, Rollback(j) \/ Abort(j)
  PROVE  AsCatalogue!Next \/ UNCHANGED <<Published, Spent>>
<1> DEFINE id == tx[j].id
<1>1. /\ UNCHANGED <<rows, nextId>>
      /\ tx' = [tx EXCEPT ![j] = EmptyTx] /\ tx'[j].id = 0
      /\ \A k \in Jobs \ {j} : tx'[k] = tx[k]
  BY DEF Rollback, Abort, Undo, EmptyTx, IInv, TypeOK
<1>2. UNCHANGED Published
  BY <1>1 DEF Published
<1>3. CASE Inserted(j)
  <2>1. id \in RowIds /\ id < nextId
    BY <1>3 DEF IInv, TypeOK, Exclusive, Inserted, RowIds
  <2>2. nextId \in 1..(MaxRows + 1) /\ id \in 1..(nextId - 1)
    BY <2>1, IngestionAssumption DEF IInv, TypeOK, RowIds
  <2>3. \A k \in Jobs \ {j} : tx[k].id # id
    BY <1>3, <2>1 DEF IInv, Exclusive, Inserted, RowIds
  <2>4. id \notin Spent /\ Spent' = Spent \cup {id}
    BY <1>1, <2>2, <2>3 DEF Spent
  <2> QED BY <1>2, <2>1, <2>4 DEF AsCatalogue!Waste, AsCatalogue!Next
<1>4. CASE ~Inserted(j)
  <2>1. Spent' = Spent
    BY <1>1, <1>4 DEF Spent, Inserted
  <2> QED BY <1>2, <2>1
<1> QED BY <1>3, <1>4

LEMMA CatalogueStep ==
  ASSUME IInv, Found, NEW j \in Jobs, Step(j)
  PROVE  AsCatalogue!Next \/ UNCHANGED <<Published, Spent>>
<1>1. CASE UNCHANGED <<rows, nextId, tx>>
  BY <1>1 DEF Published, Spent
<1>2. CASE Insert(j)
  <2>1. rows' = rows /\ nextId' = nextId + 1 /\ tx[j].id = 0
    BY <1>2 DEF Insert, IInv, JobInv, Inserted
  <2>2. tx'[j].id = nextId /\ \A k \in Jobs \ {j} : tx'[k] = tx[k]
    BY <1>2 DEF Insert, Write, IInv, TypeOK
  <2>3. nextId \in 1..(MaxRows + 1)
    BY DEF IInv, TypeOK
  <2>4. \A k \in Jobs : tx[k].id # nextId
    BY <2>3 DEF IInv, TypeOK, Exclusive, Inserted
  <2>5. \A i \in 1..(nextId - 1), k \in Jobs : tx'[k].id = i <=> tx[k].id = i
    BY <2>1, <2>2, <2>3
  <2>6. \A i \in 1..nextId : i \in 1..(nextId - 1) \/ i = nextId
    BY <2>3
  <2>7. Spent' = Spent
    BY <2>1, <2>2, <2>3, <2>5, <2>6 DEF Spent
  <2> QED BY <2>1, <2>7 DEF Published
<1>3. CASE DeleteExisting(j) \/ Fill(j) \/ RefuseRoles(j) \/ Delete(j)
  <2>1. rows' = rows /\ nextId' = nextId
    BY <1>3 DEF DeleteExisting, Fill, RefuseRoles, Delete
  <2>2. \A k \in Jobs : tx'[k].id = tx[k].id
    <3>1. CASE DeleteExisting(j)  BY <3>1 DEF DeleteExisting, Write, IInv, TypeOK
    <3>2. CASE Fill(j)            BY <3>2 DEF Fill, Write, IInv, TypeOK
    <3>3. CASE RefuseRoles(j)     BY <3>3 DEF RefuseRoles, Write, IInv, TypeOK
    <3>4. CASE Delete(j)          BY <3>4 DEF Delete, Write, IInv, TypeOK
    <3> QED BY <1>3, <3>1, <3>2, <3>3, <3>4
  <2> QED BY <2>1, <2>2 DEF Published, Spent
<1>4. CASE InsertConflicts(j)
  <2>1. UNCHANGED <<rows, tx>> /\ nextId' = nextId + 1 /\ nextId <= MaxRows
    BY <1>4 DEF InsertConflicts
  <2>2. nextId \in 1..(MaxRows + 1)
    BY DEF IInv, TypeOK
  <2>3. nextId \in RowIds
    BY <2>1, <2>2, IngestionAssumption DEF RowIds
  <2>4. \A k \in Jobs : tx[k].id # nextId
    BY <2>2 DEF IInv, TypeOK, Exclusive, Inserted
  <2>5. \A i \in 1..nextId : i \in 1..(nextId - 1) \/ i = nextId
    BY <2>2
  <2>6. nextId \notin Spent /\ Spent' = Spent \cup {nextId}
    BY <2>1, <2>2, <2>4, <2>5 DEF Spent
  <2> QED BY <2>1, <2>3, <2>6 DEF AsCatalogue!Waste, AsCatalogue!Next, Published
<1> QED BY <1>1, <1>2, <1>3, <1>4, Writers, CommitIsCatalogue, UndoIsCatalogue

\* Uploads, loads, replacements and deletions, in transactions that interleave, fail and are
\* rolled back, are to every reader a catalogue whose documents come whole and change never.
THEOREM Refinement == Spec => ImplementsCatalogue
<1>1. Init => AsCatalogue!Init
  <2> SUFFICES ASSUME Init PROVE AsCatalogue!Init
    OBVIOUS
  <2>1. PICK n \in 0..MaxRows : DOMAIN rows = 1..n
    BY IngestionAssumption DEF Init
  <2>2. nextId = n + 1 /\ IsTable(rows)
    <3>0. 1 \in Int /\ n \in Int
      BY IngestionAssumption
    <3>1. Cardinality(1..n) = IF 1 > n THEN 0 ELSE n - 1 + 1
      BY <3>0, FS_Interval
    <3> QED BY <2>1, <3>1, IngestionAssumption DEF Init
  <2>3. Spent = 1..n /\ DOMAIN rows \subseteq RowIds
    BY <2>1, <2>2, IngestionAssumption DEF Init, Spent, EmptyTx, IsTable
  <2>4. \A i \in 1..n : rows[i] \in Row /\ rows[i].acl # {}
    BY <2>1, <2>2, IngestionAssumption DEF Init, IsTable
  <2>6. Published \in [1..n -> AsCatalogue!Document]
    BY <2>1, <2>4 DEF Published, AsCatalogue!Document, Row
  <2>5. \A i, k \in DOMAIN Published : AsCatalogue!Clash(Published[i], Published[k]) => i = k
    BY IngestionAssumption DEF Init, Published, AsCatalogue!Clash, SameKey
  <2> QED BY <2>1, <2>3, <2>5, <2>6 DEF AsCatalogue!Init
<1>2. IInv /\ Found /\ [Next]_vars => [AsCatalogue!Next]_<<Published, Spent>>
  <2> SUFFICES ASSUME IInv, Found, [Next]_vars
               PROVE  AsCatalogue!Next \/ UNCHANGED <<Published, Spent>>
    OBVIOUS
  <2>1. CASE UNCHANGED vars
    BY <2>1 DEF vars, Published, Spent
  <2>2. ASSUME NEW j \in Jobs, Step(j)
        PROVE  AsCatalogue!Next \/ UNCHANGED <<Published, Spent>>
    BY <2>2, CatalogueStep
  <2> QED BY <2>1, <2>2 DEF Next, Step, Finished
<1> QED BY <1>1, <1>2, FoundInvariance, PTL DEF Spec, ImplementsCatalogue, AsCatalogue!Spec

-----------------------------------------------------------------------------
(* Chunking: sequences in ascending order, as InOrder makes them           *)

Ascends(s, S) ==
  /\ s \in Seq(S)
  /\ \A i, j \in DOMAIN s : i < j => s[i] < s[j]
  /\ \A x \in S : \E i \in DOMAIN s : s[i] = x

LEMMA SeqFacts ==
  ASSUME NEW S, NEW s \in Seq(S)
  PROVE  DOMAIN s = 1..Len(s) /\ Len(s) \in Nat /\ \A i \in DOMAIN s : s[i] \in S
BY LenProperties, ElementOfSeq

LEMMA AscendingNoLater ==
  ASSUME NEW S \in SUBSET Nat, NEW s, NEW t, Ascends(s, S), Ascends(t, S),
         NEW k \in DOMAIN s, \A n \in 1..(k - 1) : n \in DOMAIN s /\ n \in DOMAIN t /\ s[n] = t[n]
  PROVE  k \in DOMAIN t /\ t[k] <= s[k]
<1>1. /\ DOMAIN s = 1..Len(s) /\ Len(s) \in Nat /\ \A i \in DOMAIN s : s[i] \in S /\ s[i] \in Nat
      /\ DOMAIN t = 1..Len(t) /\ Len(t) \in Nat /\ \A i \in DOMAIN t : t[i] \in S /\ t[i] \in Nat
  BY SeqFacts DEF Ascends
<1>2. PICK m \in DOMAIN t : t[m] = s[k]
  BY <1>1 DEF Ascends
<1>3. m \in Nat /\ k \in Nat /\ m >= 1 /\ k >= 1
  BY <1>1
<1>4. ASSUME m < k PROVE FALSE
  <2>1. m \in 1..(k - 1)
    BY <1>3, <1>4
  <2>2. m \in DOMAIN s /\ s[m] = s[k]
    BY <1>2, <2>1
  <2> QED BY <1>1, <1>4, <2>2 DEF Ascends
<1>5. k <= m
  BY <1>3, <1>4
<1>6. k \in DOMAIN t
  BY <1>1, <1>3, <1>5
<1>7. t[k] <= t[m]
  BY SMTT(40), <1>1, <1>3, <1>5, <1>6 DEF Ascends
<1> QED BY <1>2, <1>6, <1>7

\* Two ascending sequences of the same numbers are one.
LEMMA AscendingUnique ==
  ASSUME NEW S \in SUBSET Nat, NEW s, NEW t, Ascends(s, S), Ascends(t, S)
  PROVE  s = t
<1>1. /\ s \in Seq(S) /\ DOMAIN s = 1..Len(s) /\ Len(s) \in Nat /\ \A i \in DOMAIN s : s[i] \in Nat
      /\ t \in Seq(S) /\ DOMAIN t = 1..Len(t) /\ Len(t) \in Nat /\ \A i \in DOMAIN t : t[i] \in Nat
  BY SeqFacts DEF Ascends
<1> DEFINE Agree(n) == n \in DOMAIN s /\ n \in DOMAIN t /\ s[n] = t[n]
           B == {n \in DOMAIN s \cup DOMAIN t : ~Agree(n)}
<1>2. SUFFICES ASSUME B # {} PROVE FALSE
  <2>1. \A n \in DOMAIN s \cup DOMAIN t : Agree(n)
    BY <1>2
  <2> QED BY <1>1, <2>1
<1>3. PICK k \in B : \A n \in B : k <= n
  <2>1. B \in SUBSET Nat
    BY <1>1
  <2> HIDE DEF B
  <2> QED BY <1>2, <2>1, LeastNumber
<1>4. k \in Nat /\ k >= 1
  BY <1>1
<1>5. ASSUME NEW n \in 1..(k - 1) PROVE Agree(n)
  <2>1. n \in Nat /\ n < k /\ n >= 1
    BY <1>4
  <2>2. n \in DOMAIN s \cup DOMAIN t
    BY <1>1, <1>4, <2>1
  <2> QED BY <1>3, <1>4, <2>1, <2>2
<1>6. k \in DOMAIN s => k \in DOMAIN t /\ t[k] <= s[k]
  BY <1>5, AscendingNoLater
<1>7. k \in DOMAIN t => k \in DOMAIN s /\ s[k] <= t[k]
  BY <1>5, AscendingNoLater
<1>8. Agree(k)
  BY <1>1, <1>6, <1>7
<1> QED BY <1>8

-----------------------------------------------------------------------------
(* InOrder                                                                 *)

Written == doc \in [xlsx : BOOLEAN, blocks : Seq(Block)]

Picks(f, S, n) ==
  f = [k \in 0..n |-> IF k = 0 THEN <<>> ELSE IF k \in S THEN Append(f[k - 1], k) ELSE f[k - 1]]

LEMMA PicksExist ==
  ASSUME NEW S, NEW n \in Nat
  PROVE  \E f : Picks(f, S, n)
<1> DEFINE B == {m \in Nat : ~\E f : Picks(f, S, m)}
<1>1. SUFFICES ASSUME B # {} PROVE FALSE
  OBVIOUS
<1>2. PICK m \in B : \A k \in B : m <= k
  <2>1. B \in SUBSET Nat
    OBVIOUS
  <2> HIDE DEF B
  <2> QED BY <1>1, <2>1, LeastNumber
<1> DEFINE Next1(g, k) == IF k = 0 THEN <<>> ELSE IF k \in S THEN Append(g[k - 1], k) ELSE g[k - 1]
<1>3. CASE m = 0
  <2> DEFINE f == [k \in 0..0 |-> <<>>]
  <2>1. f = [k \in 0..0 |-> Next1(f, k)]
    OBVIOUS
  <2>2. Picks(f, S, 0)
    BY <2>1 DEF Picks
  <2> QED BY <1>3, <2>2
<1>4. CASE m # 0
  <2>1. m \in Nat /\ m - 1 \in Nat /\ ~(m <= m - 1)
    BY <1>4
  <2>2. PICK g : Picks(g, S, m - 1)
    BY <1>2, <2>1
  <2> DEFINE f == [k \in 0..m |-> Next1(g, k)]
  <2>3. \A k \in 0..(m - 1) : g[k] = Next1(g, k)
    BY <2>2 DEF Picks
  <2>4. \A k \in 0..(m - 1) : f[k] = g[k]
    <3> TAKE k \in 0..(m - 1)
    <3>1. k \in 0..m
      BY <2>1
    <3> QED BY <2>3, <3>1, Zenon
  <2>5. \A k \in 0..m : f[k] = Next1(f, k)
    <3> TAKE k \in 0..m
    <3>1. k # 0 => k - 1 \in 0..(m - 1)
      BY <2>1
    <3>2. f[k] = Next1(g, k)
      OBVIOUS
    <3> HIDE DEF f
    <3> QED BY <2>4, <3>1, <3>2, Zenon
  <2>6. f = [k \in 0..m |-> f[k]]
    OBVIOUS
  <2>7. Picks(f, S, m)
    <3> HIDE DEF f
    <3>1. [k \in 0..m |-> f[k]] = [k \in 0..m |-> Next1(f, k)]
      BY <2>5, Zenon
    <3> QED BY <2>6, <3>1, Zenon DEF Picks
  <2> QED BY <2>7
<1> QED BY <1>3, <1>4

LEMMA PicksAscend ==
  ASSUME NEW S, NEW n \in Nat, NEW f, Picks(f, S, n)
  PROVE  \A m \in 0..n : Ascends(f[m], {x \in 1..m : x \in S})
<1> DEFINE Upto(m) == {x \in 1..m : x \in S}
           B == {m \in 0..n : ~Ascends(f[m], Upto(m))}
<1>1. SUFFICES ASSUME B # {} PROVE FALSE
  OBVIOUS
<1>2. PICK m \in B : \A k \in B : m <= k
  <2>1. B \in SUBSET Nat
    OBVIOUS
  <2> HIDE DEF B
  <2> QED BY <1>1, <2>1, LeastNumber
<1>3. f[m] = IF m = 0 THEN <<>> ELSE IF m \in S THEN Append(f[m - 1], m) ELSE f[m - 1]
  BY DEF Picks
<1>4. CASE m = 0
  <2>1. f[m] = <<>> /\ Upto(m) = {}
    BY <1>3, <1>4
  <2>2. Ascends(<<>>, {})
    BY DEF Ascends
  <2> QED BY <2>1, <2>2
<1>5. CASE m # 0
  <2>1. m \in Nat /\ m - 1 \in Nat /\ m - 1 \in 0..n /\ ~(m <= m - 1)
    BY <1>5
  <2>2. Ascends(f[m - 1], Upto(m - 1))
    BY <1>2, <2>1
  <2> DEFINE g == f[m - 1]
  <2>3. CASE m \in S
    <3>1. Upto(m) = Upto(m - 1) \cup {m}
      BY <2>1, <2>3
    <3>2. f[m] = Append(g, m)
      BY <1>3, <1>5, <2>3
    <3>3. g \in Seq(Upto(m - 1)) /\ g \in Seq(Upto(m))
      BY <2>2, <3>1 DEF Ascends
    <3> HIDE DEF g
    <3>4. /\ Append(g, m) \in Seq(Upto(m)) /\ Len(g) \in Nat
          /\ DOMAIN g = 1..Len(g) /\ DOMAIN Append(g, m) = 1..(Len(g) + 1)
          /\ Append(g, m)[Len(g) + 1] = m
          /\ \A i \in DOMAIN g : Append(g, m)[i] = g[i] /\ g[i] \in 1..(m - 1)
      <4>1. /\ Len(g) \in Nat /\ DOMAIN g = 1..Len(g)
            /\ \A i \in DOMAIN g : g[i] \in Upto(m - 1)
        BY <3>3, SeqFacts
      <4>2. m \in Upto(m)
        BY <3>1
      <4> HIDE DEF Upto
      <4>3. /\ Append(g, m) \in Seq(Upto(m)) /\ Len(Append(g, m)) = Len(g) + 1
            /\ \A i \in 1..Len(g) : Append(g, m)[i] = g[i]
            /\ Append(g, m)[Len(g) + 1] = m
        BY <3>3, <4>2, AppendProperties
      <4>4. DOMAIN Append(g, m) = 1..(Len(g) + 1)
        BY <4>3, SeqFacts
      <4> QED BY <4>1, <4>3, <4>4 DEF Upto
    <3>5. \A i, j \in DOMAIN Append(g, m) : i < j => Append(g, m)[i] < Append(g, m)[j]
      <4>1. \A i, j \in DOMAIN g : i < j => g[i] < g[j]
        BY <2>2 DEF Ascends, g
      <4> TAKE i, j \in DOMAIN Append(g, m)
      <4> HAVE i < j
      <4>2. i \in DOMAIN g
        BY <3>4
      <4>3. CASE j \in DOMAIN g
        BY <3>4, <4>1, <4>2, <4>3
      <4>4. CASE j = Len(g) + 1
        BY <2>1, <3>4, <4>2, <4>4
      <4> QED BY <3>4, <4>3, <4>4
    <3>6. \A x \in Upto(m) : \E i \in DOMAIN Append(g, m) : Append(g, m)[i] = x
      <4> TAKE x \in Upto(m)
      <4>1. CASE x = m
        BY SMTT(40), <3>4, <4>1
      <4>2. CASE x # m
        <5>1. PICK i \in DOMAIN g : g[i] = x
          BY <2>2, <3>1, <4>2 DEF Ascends, g
        <5> QED BY <3>4, <5>1
      <4> QED BY <4>1, <4>2
    <3>7. Ascends(Append(g, m), Upto(m))
      <4> HIDE DEF Upto
      <4> QED BY <3>4, <3>5, <3>6 DEF Ascends
    <3> QED BY <3>2, <3>7
  <2>4. CASE m \notin S
    <3>1. Upto(m) = Upto(m - 1)
      BY <2>1, <2>4
    <3>2. f[m] = f[m - 1]
      BY <1>3, <1>5, <2>4
    <3> QED BY <2>2, <3>1, <3>2
  <2> QED BY <2>3, <2>4
<1> QED BY <1>4, <1>5

LEMMA InOrderAscends ==
  ASSUME Written, NEW S \in SUBSET (DOMAIN Blocks)
  PROVE  Ascends(InOrder(S), S)
<1> DEFINE n == Len(Blocks)
           f == CHOOSE f : Picks(f, S, n)
<1>1. n \in Nat /\ DOMAIN Blocks = 1..n
  BY DEF Written, Blocks
<1>2. Picks(f, S, n)
  BY <1>1, PicksExist, Zenon
<1>3. InOrder(S) = f[n]
  BY Zenon DEF InOrder, Picks
<1>4. {x \in 1..n : x \in S} = S
  BY <1>1
<1> HIDE DEF f, n
<1>5. n \in 0..n
  BY <1>1
<1>6. Ascends(f[n], {x \in 1..n : x \in S})
  BY <1>1, <1>2, <1>5, PicksAscend
<1> QED BY <1>3, <1>4, <1>6

-----------------------------------------------------------------------------
(* The outline                                                             *)

\* The headings in Outline(i).
OpenAt(i) ==
  {h \in DOMAIN Blocks :
    /\ Kind(h) = "heading" /\ h <= i
    /\ \A g \in DOMAIN Blocks : Kind(g) = "heading" /\ h < g /\ g <= i => Level(g) > Level(h)}

LEMMA BlockFacts ==
  ASSUME Written
  PROVE  /\ Len(Blocks) \in Nat /\ DOMAIN Blocks = 1..Len(Blocks)
         /\ \A i \in DOMAIN Blocks : /\ i \in Nat \ {0} /\ Kind(i) \in Kinds /\ Level(i) \in 1..3
                                     /\ Blocks[i].size \in Nat \ {0}
<1>1. Blocks \in Seq(Block)
  BY DEF Written, Blocks
<1>2. \A i \in DOMAIN Blocks : Blocks[i] \in Block
  BY <1>1, SeqFacts
<1>3. Len(Blocks) \in Nat /\ DOMAIN Blocks = 1..Len(Blocks)
  BY <1>1, SeqFacts
<1> QED BY <1>2, <1>3 DEF Block, Kind, Level

LEMMA OutlineAscends ==
  ASSUME Written, NEW i
  PROVE  Ascends(Outline(i), OpenAt(i))
<1>1. OpenAt(i) \in SUBSET (DOMAIN Blocks)
  BY DEF OpenAt
<1>2. Outline(i) = InOrder(OpenAt(i))
  BY Zenon DEF Outline, OpenAt
<1> QED BY <1>1, <1>2, InOrderAscends

LEMMA OutlineTyped ==
  ASSUME Written, NEW i
  PROVE  Outline(i) \in Seq(DOMAIN Blocks)
<1>1. OpenAt(i) \subseteq DOMAIN Blocks
  BY DEF OpenAt
<1> QED BY <1>1, OutlineAscends, SeqMonotonic DEF Ascends

LEMMA IsOutline ==
  ASSUME Written, NEW i, NEW s, Ascends(s, OpenAt(i))
  PROVE  s = Outline(i)
<1>1. OpenAt(i) \in SUBSET Nat
  BY BlockFacts DEF OpenAt
<1> QED BY <1>1, OutlineAscends, AscendingUnique

LEMMA NoneOpen ==
  ASSUME Written
  PROVE  Outline(0) = <<>>
<1>1. OpenAt(0) = {}
  BY BlockFacts DEF OpenAt
<1>2. Ascends(<<>>, {})
  BY DEF Ascends
<1> QED BY <1>1, <1>2, IsOutline

LEMMA OutlineStays ==
  ASSUME Written, NEW i \in Nat, NEW j \in Nat, j <= i,
         \A g \in DOMAIN Blocks : j < g /\ g <= i => Kind(g) # "heading"
  PROVE  Outline(i) = Outline(j)
<1>1. OpenAt(i) = OpenAt(j)
  BY BlockFacts DEF OpenAt
<1> QED BY <1>1, OutlineAscends, IsOutline

\* What SectionStack.push leaves is the outline at the heading pushed.
LEMMA PushIsOutline ==
  ASSUME Written, NEW h \in DOMAIN Blocks, Kind(h) = "heading", NEW j \in Nat, j < h,
         \A g \in DOMAIN Blocks : j < g /\ g < h => Kind(g) # "heading"
  PROVE  Push(Outline(j), h) = Outline(h)
<1>1. PICK s : s = Outline(j)
  OBVIOUS
<1>2. Ascends(s, OpenAt(j))
  BY <1>1, OutlineAscends
<1>3. s \in Seq(OpenAt(j)) /\ Len(s) \in Nat /\ DOMAIN s = 1..Len(s) /\ \A k \in DOMAIN s : s[k] \in OpenAt(j)
  BY <1>2, SeqFacts DEF Ascends
<1>4. \A x \in OpenAt(j) : /\ x \in DOMAIN Blocks /\ x \in Nat /\ x <= j /\ Level(x) \in Nat /\ Kind(x) = "heading"
                         /\ \A g \in DOMAIN Blocks : Kind(g) = "heading" /\ x < g /\ g <= j => Level(g) > Level(x)
  BY BlockFacts DEF OpenAt
<1>5. \A a, b \in DOMAIN s : a < b => s[a] < s[b] /\ Level(s[a]) < Level(s[b])
  BY <1>2, <1>3, <1>4 DEF Ascends
<1> DEFINE open == {k \in 0..Len(s) : k = 0 \/ Level(s[k]) < Level(h)}
<1>6. PICK m : m = CHOOSE k \in open : \A n \in open : n <= k
  OBVIOUS
<1>7. m \in open /\ \A n \in open : n <= m
  <2>1. open \in SUBSET (0..Len(s)) /\ open # {}
    BY <1>3
  <2> HIDE DEF open
  <2>2. \E k \in open : \A n \in open : n <= k
    BY <1>3, <2>1, GreatestNumber
  <2> QED BY <1>6, <2>2, Zenon
<1>8. m \in Nat /\ m <= Len(s) /\ h \in Nat /\ Level(h) \in Nat
  BY <1>3, <1>7, BlockFacts
<1>9. Push(s, h) = Append(SubSeq(s, 1, m), h)
  BY <1>6, Zenon DEF Push
<1>10. \A k \in DOMAIN s : Level(s[k]) < Level(h) <=> k <= m
  <2> TAKE k \in DOMAIN s
  <2>1. k \in Nat /\ k >= 1 /\ s[k] \in OpenAt(j) /\ Level(s[k]) \in Nat
    BY <1>3, <1>4
  <2>2. Level(s[k]) < Level(h) => k <= m
    BY <1>3, <1>7, <2>1
  <2>3. ASSUME k <= m PROVE Level(s[k]) < Level(h)
    <3>1. m \in DOMAIN s /\ Level(s[m]) < Level(h)
      BY <1>3, <1>7, <1>8, <2>1, <2>3
    <3>2. Level(s[m]) \in Nat
      BY <1>3, <1>4, <3>1
    <3>3. CASE k = m
      BY <3>1, <3>3
    <3>4. CASE k # m
      <4>1. k < m
        BY <1>8, <2>1, <2>3, <3>4
      <4>2. Level(s[k]) < Level(s[m])
        BY <1>5, <3>1, <4>1
      <4> QED BY <1>8, <2>1, <3>1, <3>2, <4>2
    <3> QED BY <3>3, <3>4
  <2> QED BY <2>2, <2>3
<1>11. OpenAt(h) = {x \in OpenAt(j) : Level(x) < Level(h)} \cup {h}
  <2>1. ASSUME NEW x \in OpenAt(h), x # h PROVE x \in OpenAt(j) /\ Level(x) < Level(h)
    <3>1. x \in DOMAIN Blocks /\ Kind(x) = "heading" /\ x <= h /\ x \in Nat
      BY BlockFacts DEF OpenAt
    <3>2. x <= j
      BY <1>8, <2>1, <3>1
    <3>3. Level(x) < Level(h)
      BY <1>4, <1>8, <2>1, <3>1, BlockFacts DEF OpenAt
    <3>4. \A g \in DOMAIN Blocks : g <= j => g <= h
      BY <1>8, BlockFacts
    <3> QED BY <3>1, <3>2, <3>3, <3>4 DEF OpenAt
  <2>2. ASSUME NEW x \in OpenAt(j), Level(x) < Level(h) PROVE x \in OpenAt(h)
    <3>1. x \in DOMAIN Blocks /\ Kind(x) = "heading" /\ x <= j /\ x \in Nat /\ x <= h
      BY <1>4, <1>8
    <3>2. ASSUME NEW g \in DOMAIN Blocks, Kind(g) = "heading", x < g, g <= h PROVE Level(g) > Level(x)
      <4>1. CASE g = h
        BY <1>4, <1>8, <2>2, <4>1
      <4>2. CASE g # h
        <5>1. g <= j
          BY <1>8, <3>2, <4>2, BlockFacts
        <5> QED BY <1>4, <3>2, <5>1
      <4> QED BY <4>1, <4>2
    <3> QED BY <3>1, <3>2 DEF OpenAt
  <2>3. h \in OpenAt(h)
    BY <1>8, BlockFacts DEF OpenAt
  <2> QED BY <2>1, <2>2, <2>3
<1> DEFINE t == SubSeq(s, 1, m)
<1>12. t \in Seq(OpenAt(h)) /\ Len(t) = m /\ \A k \in 1..m : t[k] = s[k]
  <2>1. \A k \in 1..m : s[k] \in OpenAt(h)
    BY <1>3, <1>8, <1>10, <1>11
  <2>2. 1 \in Int /\ m \in Int /\ m - 1 + 1 = m /\ (IF 1 <= m THEN m - 1 + 1 ELSE 0) = m
    BY <1>8
  <2> QED BY <2>1, <2>2, SubSeqProperties
<1> HIDE DEF t
<1>13. /\ Append(t, h) \in Seq(OpenAt(h)) /\ DOMAIN Append(t, h) = 1..(m + 1)
       /\ \A k \in 1..m : Append(t, h)[k] = s[k]
       /\ Append(t, h)[m + 1] = h
  <2>1. h \in OpenAt(h)
    BY <1>11
  <2>2. /\ Append(t, h) \in Seq(OpenAt(h)) /\ Len(Append(t, h)) = m + 1
        /\ \A k \in 1..m : Append(t, h)[k] = t[k]
        /\ Append(t, h)[m + 1] = h
    BY <1>12, <2>1, AppendProperties
  <2> QED BY <1>12, <2>2, SeqFacts
<1>14. \A a, b \in DOMAIN Append(t, h) : a < b => Append(t, h)[a] < Append(t, h)[b]
  <2> TAKE a, b \in DOMAIN Append(t, h)
  <2> HAVE a < b
  <2>1. a \in 1..m /\ a \in DOMAIN s /\ Append(t, h)[a] = s[a]
    BY <1>3, <1>8, <1>13
  <2>2. CASE b \in 1..m
    <3>1. b \in DOMAIN s /\ Append(t, h)[b] = s[b]
      BY <1>3, <1>8, <1>13, <2>2
    <3> QED BY <1>5, <2>1, <3>1
  <2>3. CASE b = m + 1
    <3>1. s[a] \in Nat /\ s[a] <= j
      BY <1>3, <1>4, <2>1
    <3> QED BY <1>8, <1>13, <2>1, <2>3, <3>1
  <2> QED BY <1>8, <1>13, <2>2, <2>3
<1>15. \A x \in OpenAt(h) : \E k \in DOMAIN Append(t, h) : Append(t, h)[k] = x
  <2> TAKE x \in OpenAt(h)
  <2>1. CASE x = h
    BY <1>8, <1>13, <2>1
  <2>2. CASE x # h
    <3>1. x \in OpenAt(j) /\ Level(x) < Level(h)
      BY <1>11, <2>2
    <3>2. PICK k \in DOMAIN s : s[k] = x
      BY <1>2, <3>1 DEF Ascends
    <3>3. k \in 1..m /\ k \in 1..(m + 1)
      BY <1>3, <1>8, <1>10, <3>1, <3>2
    <3> QED BY <1>13, <3>2, <3>3
  <2> QED BY <2>1, <2>2
<1>16. Ascends(Append(t, h), OpenAt(h))
  BY <1>13, <1>14, <1>15 DEF Ascends
<1> QED BY <1>1, <1>9, <1>16, IsOutline DEF t

-----------------------------------------------------------------------------
(* What lines count                                                        *)

LEMMA SumIsTotal ==
  ASSUME NEW w, IsFiniteSet(DOMAIN w)
  PROVE  SumFunction(w) = Total(w, DOMAIN w)
<1> DEFINE D == DOMAIN w
           R(it) == it = [t \in SUBSET D |->
                      IF t = {} THEN 0
                      ELSE w[CHOOSE x \in t : TRUE] + it[t \ {CHOOSE x \in t : TRUE}]]
<1>1. SumFunction(w) = (CHOOSE it : R(it))[D]
  BY Zenon DEF SumFunction, SumFunctionOnSet, FoldFunctionOnSet, MapThenFoldSet
<1>2. \A it : R(it) <=> Adds(it, w, D)
  BY Zenon DEF Adds, Some
<1> HIDE DEF R
<1>3. PICK jt : Adds(jt, w, D) /\ Total(w, D) = jt[D]
  BY TotalAdds
<1>4. R(CHOOSE it : R(it))
  <2>1. R(jt)
    BY <1>2, <1>3
  <2> QED BY <2>1, Zenon
<1>5. PICK it : it = CHOOSE i : R(i)
  OBVIOUS
<1>6. Adds(it, w, D) /\ SumFunction(w) = it[D]
  BY <1>1, <1>2, <1>4, <1>5
<1>7. D \subseteq D /\ Alike(w, w, D)
  BY DEF Alike
<1>8. \A t \in SUBSET D : it[t] = jt[t]
  BY <1>3, <1>6, <1>7, AddsAgree
<1> QED BY <1>3, <1>6, <1>8

LEMMA EstimateNat ==
  ASSUME NEW n \in Nat
  PROVE  EstimateTokens(n) \in Nat
BY DEF EstimateTokens

LEMMA LineNat ==
  ASSUME Written, NEW i \in DOMAIN Blocks
  PROVE  LineTokens(i) \in Nat
BY BlockFacts, EstimateNat DEF LineTokens

LEMMA ContentNat ==
  ASSUME Written, NEW lines \in Seq(DOMAIN Blocks)
  PROVE  ContentTokens(lines) \in Nat
<1>1. DOMAIN lines = 1..Len(lines) /\ Len(lines) \in Nat /\ \A k \in DOMAIN lines : lines[k] \in DOMAIN Blocks
  BY SeqFacts
<1>2. IsFiniteSet(DOMAIN lines)
  BY <1>1, FS_Interval
<1>3. CASE lines = <<>>
  BY <1>3 DEF ContentTokens
<1>4. CASE lines # <<>>
  <2> DEFINE w == [k \in DOMAIN lines |-> Blocks[lines[k]].size]
  <2>1. \A k \in DOMAIN lines : w[k] \in Nat
    BY <1>1, BlockFacts
  <2>2. DOMAIN w = DOMAIN lines
    OBVIOUS
  <2>3. ContentTokens(lines) = EstimateTokens(SumFunction(w) + Len(lines) - 1)
    BY <1>4, Zenon DEF ContentTokens
  <2> HIDE DEF w
  <2>4. SumFunction(w) = Total(w, DOMAIN lines)
    BY <1>2, <2>2, SumIsTotal
  <2>5. SumFunction(w) \in Nat
    <3>1. Total(w, DOMAIN lines) \in Nat
      BY <1>2, <2>1, TotalNat
    <3> QED BY <2>4, <3>1
  <2>6. Len(lines) >= 1
    BY <1>1, <1>4, EmptySeq
  <2>7. SumFunction(w) + Len(lines) - 1 \in Nat
    BY <1>1, <2>5, <2>6
  <2> QED BY <2>3, <2>7, EstimateNat
<1> QED BY <1>3, <1>4

\* What the lines from the one to the other have been counted as.
Counts(b, lo, hi) == SumFunction([k \in lo..hi |-> LineTokens(b[k])])

LEMMA CountsAre ==
  ASSUME NEW b, NEW lo \in Nat, NEW hi \in Nat
  PROVE  Counts(b, lo, hi) = Total([k \in lo..hi |-> LineTokens(b[k])], lo..hi)
<1> DEFINE w == [k \in lo..hi |-> LineTokens(b[k])]
<1>1. DOMAIN w = lo..hi /\ IsFiniteSet(lo..hi)
  BY FS_Interval
<1> HIDE DEF w
<1>2. SumFunction(w) = Total(w, lo..hi)
  BY <1>1, SumIsTotal
<1> QED BY <1>2, Zenon DEF Counts, w

LEMMA CountsNat ==
  ASSUME Written, NEW b, NEW lo \in Nat, NEW hi \in Nat, \A k \in lo..hi : b[k] \in DOMAIN Blocks
  PROVE  Counts(b, lo, hi) \in Nat
<1> DEFINE w == [k \in lo..hi |-> LineTokens(b[k])]
<1>1. IsFiniteSet(lo..hi)
  BY FS_Interval
<1>2. \A k \in lo..hi : w[k] \in Nat
  BY LineNat
<1>3. Counts(b, lo, hi) = Total(w, lo..hi)
  BY CountsAre
<1> HIDE DEF w
<1>4. Total(w, lo..hi) \in Nat
  BY <1>1, <1>2, TotalNat
<1> QED BY <1>3, <1>4

LEMMA CountsSame ==
  ASSUME NEW b, NEW c, NEW lo \in Nat, NEW hi \in Nat, \A k \in lo..hi : b[k] = c[k]
  PROVE  Counts(b, lo, hi) = Counts(c, lo, hi)
<1>1. [k \in lo..hi |-> LineTokens(b[k])] = [k \in lo..hi |-> LineTokens(c[k])]
  OBVIOUS
<1> QED BY <1>1, Zenon DEF Counts

LEMMA CountsNone ==
  ASSUME NEW b, NEW lo \in Nat, NEW hi \in Nat, hi < lo
  PROVE  Counts(b, lo, hi) = 0
<1>1. lo..hi = {}
  OBVIOUS
<1>2. Counts(b, lo, hi) = Total([k \in lo..hi |-> LineTokens(b[k])], lo..hi)
  BY CountsAre
<1> QED BY <1>1, <1>2, TotalNone

LEMMA CountsOneMore ==
  ASSUME Written, NEW b, NEW lo \in Nat, NEW hi \in Nat, lo <= hi + 1,
         \A k \in lo..(hi + 1) : b[k] \in DOMAIN Blocks
  PROVE  Counts(b, lo, hi + 1) = Counts(b, lo, hi) + LineTokens(b[hi + 1])
<1> DEFINE v == [k \in lo..hi |-> LineTokens(b[k])]
           w == [k \in lo..(hi + 1) |-> LineTokens(b[k])]
<1>1. IsFiniteSet(lo..hi) /\ IsFiniteSet(lo..(hi + 1))
  BY FS_Interval
<1>2. hi + 1 \in lo..(hi + 1) /\ (lo..(hi + 1)) \ {hi + 1} = lo..hi /\ \A k \in lo..hi : k \in lo..(hi + 1)
  OBVIOUS
<1>3. \A k \in lo..(hi + 1) : w[k] \in Nat
  BY LineNat
<1>4. \A k \in lo..hi : w[k] = v[k]
  BY <1>2
<1>5. w[hi + 1] = LineTokens(b[hi + 1])
  BY <1>2
<1>6. Counts(b, lo, hi) = Total(v, lo..hi)
  BY CountsAre
<1>7. Counts(b, lo, hi + 1) = Total(w, lo..(hi + 1))
  BY CountsAre
<1> HIDE DEF v, w
<1>8. PICK S : S = lo..(hi + 1)
  OBVIOUS
<1>9. IsFiniteSet(S) /\ hi + 1 \in S /\ \A p \in S : w[p] \in Nat
  BY <1>1, <1>2, <1>3, <1>8
<1>10. Total(w, S) = w[hi + 1] + Total(w, S \ {hi + 1})
  BY <1>9, TotalOneMore
<1>11. Total(w, lo..hi) = Total(v, lo..hi)
  BY <1>1, <1>4, TotalSame
<1>12. Counts(b, lo, hi + 1) = LineTokens(b[hi + 1]) + Counts(b, lo, hi)
  BY <1>2, <1>5, <1>6, <1>7, <1>8, <1>10, <1>11, Zenon
<1>13. Counts(b, lo, hi) \in Nat /\ LineTokens(b[hi + 1]) \in Nat
  BY <1>2, CountsNat, LineNat
<1> QED BY <1>12, <1>13

-----------------------------------------------------------------------------
(* The text that chunk_by_structure reads: line by line, LineAt(r) the last *)
(* one of r, 0 for none                                                    *)

Wanted == {i \in DOMAIN Blocks : ChooseStrategy(doc) = "qa" => Kind(i) \in Prose}
Text == IF ChooseStrategy(doc) = "qa" THEN Of(Prose) ELSE Of(Kinds)
LineAt(r) == IF r = 0 THEN 0 ELSE Text[r]
TextUpTo(r) == {Text[j] : j \in 1..r}

LEMMA OfAscends ==
  ASSUME Written, NEW kinds
  PROVE  Ascends(Of(kinds), {i \in DOMAIN Blocks : Kind(i) \in kinds})
<1> DEFINE S == {i \in DOMAIN Blocks : Kind(i) \in kinds}
<1>1. S \in SUBSET (DOMAIN Blocks) /\ Of(kinds) = InOrder(S)
  BY DEF Of
<1> HIDE DEF S
<1>2. Ascends(InOrder(S), S)
  BY <1>1, InOrderAscends
<1> QED BY <1>1, <1>2 DEF S

LEMMA TextAscends ==
  ASSUME Written
  PROVE  Ascends(Text, Wanted)
<1>1. CASE ChooseStrategy(doc) = "qa"
  <2>1. Wanted = {i \in DOMAIN Blocks : Kind(i) \in Prose} /\ Text = Of(Prose)
    BY <1>1 DEF Wanted, Text
  <2> QED BY <2>1, OfAscends
<1>2. CASE ChooseStrategy(doc) # "qa"
  <2>1. Wanted = {i \in DOMAIN Blocks : Kind(i) \in Kinds} /\ Text = Of(Kinds)
    BY <1>2, BlockFacts DEF Wanted, Text
  <2> QED BY <2>1, OfAscends
<1> QED BY <1>1, <1>2

LEMMA TextFacts ==
  ASSUME Written
  PROVE  /\ Text \in Seq(DOMAIN Blocks) /\ Len(Text) \in Nat /\ DOMAIN Text = 1..Len(Text)
         /\ \A k \in 1..Len(Text) : /\ Text[k] \in Wanted /\ Text[k] \in DOMAIN Blocks
                                    /\ Text[k] \in Nat /\ Text[k] > 0
         /\ \A j, k \in 1..Len(Text) : j < k => Text[j] < Text[k]
         /\ \A x \in Wanted : \E k \in 1..Len(Text) : Text[k] = x
<1>1. Ascends(Text, Wanted)
  BY TextAscends
<1>2. Wanted \subseteq DOMAIN Blocks
  BY DEF Wanted
<1>3. Text \in Seq(Wanted) /\ Text \in Seq(DOMAIN Blocks)
  BY <1>1, <1>2, SeqMonotonic DEF Ascends
<1>4. Len(Text) \in Nat /\ DOMAIN Text = 1..Len(Text) /\ \A k \in DOMAIN Text : Text[k] \in Wanted
  BY <1>3, SeqFacts
<1>5. \A i \in DOMAIN Blocks : i \in Nat /\ i > 0
  BY BlockFacts
<1> QED BY <1>1, <1>2, <1>3, <1>4, <1>5 DEF Ascends

LEMMA AllIsText ==
  ASSUME Written, ChooseStrategy(doc) # "qa"
  PROVE  Text = [i \in DOMAIN Blocks |-> i]
<1> DEFINE s == [i \in DOMAIN Blocks |-> i]
           D == DOMAIN Blocks
<1>1. Len(Blocks) \in Nat /\ D = 1..Len(Blocks) /\ D \in SUBSET Nat
  BY BlockFacts
<1>2. Wanted = D
  BY DEF Wanted
<1>3. s \in [1..Len(Blocks) -> D] /\ DOMAIN s = D /\ \A i \in D : s[i] = i
  BY <1>1
<1>4. s \in Seq(D)
  BY <1>1, <1>3, SeqDef
<1> HIDE DEF s, D
<1>5. Ascends(s, D)
  <2>1. \A i, j \in DOMAIN s : i < j => s[i] < s[j]
    BY <1>3
  <2>2. \A x \in D : \E i \in DOMAIN s : s[i] = x
    BY <1>3
  <2> QED BY <1>4, <2>1, <2>2 DEF Ascends
<1>6. Ascends(Text, D)
  BY <1>2, TextAscends
<1> QED BY <1>1, <1>5, <1>6, AscendingUnique DEF s, D

LEMMA AtFacts ==
  ASSUME Written, NEW r \in 0..Len(Text)
  PROVE  LineAt(r) \in Nat /\ (r > 0 => LineAt(r) = Text[r] /\ LineAt(r) \in DOMAIN Blocks)
BY TextFacts DEF LineAt

LEMMA NoHeadingBetween ==
  ASSUME Written, NEW r \in Nat, r + 1 <= Len(Text), NEW g \in DOMAIN Blocks, LineAt(r) < g, g < Text[r + 1]
  PROVE  Kind(g) # "heading"
<1>1. SUFFICES ASSUME Kind(g) = "heading" PROVE FALSE
  OBVIOUS
<1>2. g \in Wanted
  BY <1>1 DEF Wanted, Prose
<1>3. PICK k \in 1..Len(Text) : Text[k] = g
  BY <1>2, TextFacts
<1>4. r \in 0..Len(Text) /\ r + 1 \in 1..Len(Text) /\ k \in Nat /\ Len(Text) \in Nat
  BY TextFacts
<1>5. g \in Nat
  BY BlockFacts
<1>6. ASSUME k <= r PROVE FALSE
  <2>1. LineAt(r) = Text[r] /\ r \in 1..Len(Text)
    BY <1>3, <1>4, <1>6, AtFacts
  <2>2. Text[k] <= Text[r]
    <3>1. CASE k = r
      BY <2>1, <3>1, TextFacts
    <3>2. CASE k # r
      BY <1>3, <1>4, <1>6, <2>1, <3>2, TextFacts
    <3> QED BY <3>1, <3>2
  <2> QED BY <1>3, <1>5, <2>1, <2>2, TextFacts
<1>7. ASSUME k >= r + 1 PROVE FALSE
  <2>1. Text[r + 1] <= Text[k]
    <3>1. CASE k = r + 1
      BY <1>4, <3>1, TextFacts
    <3>2. CASE k # r + 1
      BY <1>3, <1>4, <1>7, <3>2, TextFacts
    <3> QED BY <3>1, <3>2
  <2> QED BY <1>3, <1>4, <1>5, <2>1, TextFacts
<1> QED BY <1>3, <1>4, <1>6, <1>7

\* The section stack follows the outline from one line to the next.
LEMMA NextOutline ==
  ASSUME Written, NEW r \in Nat, r + 1 <= Len(Text), NEW h, h = Text[r + 1]
  PROVE  /\ Kind(h) = "heading" => Outline(h) = Push(Outline(LineAt(r)), h)
         /\ Kind(h) # "heading" => Outline(h) = Outline(LineAt(r))
<1>1. r \in 0..Len(Text) /\ r + 1 \in 1..Len(Text) /\ Len(Text) \in Nat
  BY TextFacts
<1>2. h \in DOMAIN Blocks /\ h \in Nat /\ h > 0
  BY <1>1, TextFacts
<1>3. PICK u \in Nat : u = LineAt(r)
  BY <1>1, AtFacts
<1>4. u < h
  <2>1. CASE r = 0
    BY <1>2, <1>3, <2>1 DEF LineAt
  <2>2. CASE r # 0
    <3>1. r \in 1..Len(Text) /\ r < r + 1
      BY <1>1, <2>2
    <3> QED BY <1>1, <1>3, <2>2, <3>1, TextFacts DEF LineAt
  <2> QED BY <2>1, <2>2
<1>5. \A g \in DOMAIN Blocks : u < g /\ g < h => Kind(g) # "heading"
  BY <1>3, NoHeadingBetween
<1>6. CASE Kind(h) = "heading"
  BY <1>2, <1>3, <1>4, <1>5, <1>6, PushIsOutline
<1>7. CASE Kind(h) # "heading"
  <2>1. \A g \in DOMAIN Blocks : u < g /\ g <= h => Kind(g) # "heading"
    <3> TAKE g \in DOMAIN Blocks
    <3>1. g \in Nat
      BY BlockFacts
    <3>2. CASE g = h
      BY <1>7, <3>2
    <3>3. CASE g # h
      BY <1>2, <1>5, <3>1, <3>3
    <3> QED BY <3>2, <3>3
  <2>2. u <= h
    BY <1>2, <1>4
  <2>3. Outline(h) = Outline(u)
    BY <1>2, <2>1, <2>2, OutlineStays
  <2> QED BY <1>3, <1>7, <2>3
<1> QED BY <1>6, <1>7

-----------------------------------------------------------------------------
(* The lines gathered, after r lines of text: b, the first n of them overlap *)

Gathered(r, b, n) ==
  /\ b \in Seq(DOMAIN Blocks) /\ Len(b) \in 1..r /\ n \in 0..(Len(b) - 1)
  /\ \A k \in 1..Len(b) : b[k] = Text[r - Len(b) + k]
  /\ \A k \in 2..Len(b) : Kind(b[k]) # "heading"

\* The lines gathered are in one section.
LEMMA SameSection ==
  ASSUME Written, NEW r \in 1..Len(Text), NEW b, NEW n, Gathered(r, b, n)
  PROVE  b[n + 1] \in DOMAIN Blocks /\ Outline(b[n + 1]) = Outline(Text[r])
<1> DEFINE a == r - Len(b)
<1>1. /\ Len(b) \in Nat /\ n \in Nat /\ a \in Nat /\ r \in Nat /\ n + 1 <= Len(b) /\ a + Len(b) = r
      /\ r <= Len(Text) /\ Len(Text) \in Nat
  BY TextFacts DEF Gathered
<1> HIDE DEF a
<1>2. \A k \in 1..Len(b) : b[k] = Text[a + k] /\ b[k] \in DOMAIN Blocks
  <2>1. \A k \in 1..Len(b) : b[k] = Text[r - Len(b) + k]
    BY DEF Gathered
  <2>2. \A k \in 1..Len(b) : b[k] \in DOMAIN Blocks
    BY SeqFacts DEF Gathered
  <2> QED BY <2>1, <2>2 DEF a
<1> DEFINE B == {k \in (n + 1)..Len(b) : Outline(b[k]) # Outline(b[n + 1])}
<1>3. SUFFICES ASSUME B # {} PROVE FALSE
  <2>1. Len(b) \in (n + 1)..Len(b) /\ n + 1 \in 1..Len(b) /\ Len(b) \in 1..Len(b)
    BY <1>1
  <2>2. Outline(b[Len(b)]) = Outline(b[n + 1])
    BY <1>3, <2>1
  <2>3. b[Len(b)] = Text[r]
    BY <1>1, <1>2, <2>1
  <2> QED BY <1>2, <2>1, <2>2, <2>3
<1>4. PICK k \in B : \A m \in B : k <= m
  <2>1. B \in SUBSET Nat
    BY <1>1
  <2> HIDE DEF B
  <2> QED BY <1>3, <2>1, LeastNumber
<1>5. k \in Nat /\ k > n + 1 /\ k - 1 \in (n + 1)..Len(b) /\ ~(k <= k - 1) /\ k \in 2..Len(b) /\ k - 1 \in 1..Len(b)
      /\ k \in 1..Len(b)
  BY <1>1
<1>6. Outline(b[k - 1]) = Outline(b[n + 1])
  BY <1>4, <1>5
<1> DEFINE q == a + k - 1
<1>7. q \in Nat /\ q + 1 <= Len(Text) /\ b[k] = Text[q + 1] /\ b[k - 1] = Text[q] /\ q # 0
  <2>1. q \in Nat /\ q + 1 = a + k /\ q = a + (k - 1) /\ q + 1 <= Len(Text) /\ q # 0
    BY <1>1, <1>5
  <2> QED BY <1>2, <1>5, <2>1
<1> HIDE DEF q
<1>8. Kind(b[k]) # "heading"
  BY <1>5 DEF Gathered
<1>9. Outline(b[k]) = Outline(LineAt(q))
  BY <1>7, <1>8, NextOutline
<1>10. LineAt(q) = b[k - 1]
  BY <1>7 DEF LineAt
<1> QED BY <1>4, <1>6, <1>9, <1>10

-----------------------------------------------------------------------------
(* flush                                                                   *)

Chunks == Seq([lines : Seq(DOMAIN Blocks), path : Seq(DOMAIN Blocks), first : DOMAIN Blocks,
               strategy : {"structure", "row", "qa"}])

\* Of the chunks cs, the first m were made by chunk_by_qa.
Layered(cs, m) ==
  \A k \in 1..Len(cs) : cs[k].strategy = IF k <= m THEN "qa" ELSE "structure"
\* The text of chunks m + 1 to k - 1.
LinesBefore(cs, m, k) == UNION {ToSet(cs[n].lines) : n \in (m + 1)..(k - 1)}
\* Each later chunk cites the first line that it has and none of them before it.
Cites(cs, m) ==
  \A k \in (m + 1)..Len(cs) : \E f \in DOMAIN Blocks :
    /\ f = cs[k].first /\ cs[k].path = Outline(f)
    /\ f \in ToSet(cs[k].lines) \ LinesBefore(cs, m, k)
    /\ \A l \in ToSet(cs[k].lines) \ LinesBefore(cs, m, k) : f <= l

LEMMA ToSetAppend ==
  ASSUME NEW S, NEW s \in Seq(S), NEW t \in Seq(S)
  PROVE  ToSet(s \o t) = ToSet(s) \cup ToSet(t)
<1>1. /\ Len(s) \in Nat /\ DOMAIN s = 1..Len(s) /\ Len(t) \in Nat /\ DOMAIN t = 1..Len(t)
  BY SeqFacts
<1>2. /\ s \o t \in Seq(S) /\ Len(s \o t) = Len(s) + Len(t)
      /\ \A i \in 1..(Len(s) + Len(t)) : (s \o t)[i] = IF i <= Len(s) THEN s[i] ELSE t[i - Len(s)]
  BY ConcatProperties
<1>3. DOMAIN (s \o t) = 1..(Len(s) + Len(t))
  BY <1>2, SeqFacts
<1> DEFINE c == s \o t
<1> HIDE DEF c
<1>4. ASSUME NEW x \in ToSet(c) PROVE x \in ToSet(s) \cup ToSet(t)
  <2>1. PICK i \in DOMAIN c : c[i] = x
    BY DEF ToSet
  <2>2. CASE i <= Len(s)
    <3>1. i \in DOMAIN s /\ s[i] = x
      BY <1>1, <1>2, <1>3, <2>1, <2>2 DEF c
    <3> QED BY <3>1 DEF ToSet
  <2>3. CASE ~(i <= Len(s))
    <3>1. i - Len(s) \in DOMAIN t /\ t[i - Len(s)] = x
      BY <1>1, <1>2, <1>3, <2>1, <2>3 DEF c
    <3> QED BY <3>1 DEF ToSet
  <2> QED BY <2>2, <2>3
<1>5. ASSUME NEW x \in ToSet(s) PROVE x \in ToSet(c)
  <2>1. PICK i \in DOMAIN s : s[i] = x
    BY DEF ToSet
  <2>2. i \in DOMAIN c /\ c[i] = x
    BY <1>1, <1>2, <1>3, <2>1 DEF c
  <2> QED BY <2>2 DEF ToSet
<1>6. ASSUME NEW x \in ToSet(t) PROVE x \in ToSet(c)
  <2>1. PICK i \in DOMAIN t : t[i] = x
    BY DEF ToSet
  <2>2. i + Len(s) \in DOMAIN c /\ c[i + Len(s)] = x
    BY <1>1, <1>2, <1>3, <2>1 DEF c
  <2> QED BY <2>2 DEF ToSet
<1> QED BY <1>4, <1>5, <1>6 DEF c

\* What is new in the lines gathered comes after all that chunks hold, the page's line first.
LEMMA GatheredLines ==
  ASSUME Written, NEW r \in 1..Len(Text), NEW b, NEW n, Gathered(r, b, n)
  PROVE  /\ ToSet(b) = {Text[j] : j \in (r - Len(b) + 1)..r}
         /\ TextUpTo(r - Len(b) + n) \cup ToSet(b) = TextUpTo(r)
         /\ b[n + 1] \in ToSet(b) \ TextUpTo(r - Len(b) + n)
         /\ \A l \in ToSet(b) \ TextUpTo(r - Len(b) + n) : b[n + 1] <= l
         /\ \A l \in TextUpTo(r - Len(b) + n) : l < b[n + 1]
<1> DEFINE a == r - Len(b)
<1>1. /\ Len(b) \in Nat /\ DOMAIN b = 1..Len(b) /\ n \in Nat /\ a \in Nat /\ r \in Nat
      /\ n + 1 <= Len(b) /\ a + Len(b) = r /\ Len(b) > 0
      /\ r <= Len(Text) /\ Len(Text) \in Nat
  BY SeqFacts, TextFacts DEF Gathered
<1>2. \A k \in 1..Len(b) : b[k] = Text[a + k]
  BY DEF Gathered
<1> HIDE DEF a
<1>3. ToSet(b) = {Text[j] : j \in (a + 1)..r}
  <2>1. ASSUME NEW x \in ToSet(b) PROVE x \in {Text[j] : j \in (a + 1)..r}
    <3>1. PICK k \in 1..Len(b) : b[k] = x
      BY <1>1 DEF ToSet
    <3>2. a + k \in (a + 1)..r /\ Text[a + k] = x
      BY <1>1, <1>2, <3>1
    <3> QED BY <3>2
  <2>2. ASSUME NEW j \in (a + 1)..r PROVE Text[j] \in ToSet(b)
    <3>1. j - a \in 1..Len(b) /\ a + (j - a) = j
      BY <1>1
    <3>2. b[j - a] = Text[j]
      BY <1>2, <3>1
    <3> QED BY <1>1, <3>1, <3>2 DEF ToSet
  <2> QED BY <2>1, <2>2
<1>4. b[n + 1] = Text[a + n + 1] /\ a + n + 1 \in (a + 1)..r /\ a + n + 1 \in 1..Len(Text)
  <2>1. n + 1 \in 1..Len(b) /\ a + (n + 1) = a + n + 1
    BY <1>1
  <2>2. b[n + 1] = Text[a + (n + 1)]
    BY <1>2, <2>1
  <2>3. a + n + 1 \in (a + 1)..r /\ a + n + 1 \in 1..Len(Text)
    BY <1>1
  <2> QED BY <2>1, <2>2, <2>3
<1>5. \A j \in 1..(a + n) : j \in 1..Len(Text) /\ j < a + n + 1
  BY <1>1
<1>6. ASSUME NEW l \in TextUpTo(a + n) PROVE l < b[n + 1]
  <2>1. PICK j \in 1..(a + n) : l = Text[j]
    BY DEF TextUpTo
  <2> QED BY <1>4, <1>5, <2>1, TextFacts
<1>7. b[n + 1] \in Nat /\ b[n + 1] \in ToSet(b)
  BY <1>3, <1>4, TextFacts
<1>8. ASSUME NEW l \in ToSet(b), l \notin TextUpTo(a + n) PROVE b[n + 1] <= l
  <2>1. PICK j \in (a + 1)..r : l = Text[j]
    BY <1>3
  <2>2. j \notin 1..(a + n)
    BY <1>8, <2>1 DEF TextUpTo
  <2>3. j \in Nat /\ j >= a + n + 1 /\ j \in 1..Len(Text)
    BY <1>1, <2>2
  <2>4. CASE j = a + n + 1
    BY <1>4, <1>7, <2>1, <2>4
  <2>5. CASE j # a + n + 1
    <3>1. a + n + 1 < j
      BY <1>1, <2>3, <2>5
    <3>2. Text[a + n + 1] < Text[j] /\ Text[j] \in Nat
      BY <1>4, <2>3, <3>1, TextFacts
    <3> QED BY <1>4, <1>7, <2>1, <3>2
  <2> QED BY <2>4, <2>5
<1>9. TextUpTo(a + n) \cup ToSet(b) = TextUpTo(r)
  <2>1. \A j : j \in 1..r <=> j \in 1..(a + n) \/ j \in (a + 1)..r
    BY <1>1
  <2> QED BY <1>3, <2>1 DEF TextUpTo
<1>10. b[n + 1] \notin TextUpTo(a + n)
  BY <1>6, <1>7
<1> QED BY <1>3, <1>6, <1>7, <1>8, <1>9, <1>10 DEF a

\* The buffer becomes a chunk of its own ...
LEMMA NewChunk ==
  ASSUME Written, NEW cs \in Chunks, NEW m \in 0..Len(cs), Layered(cs, m), Cites(cs, m),
         NEW r \in 1..Len(Text), NEW b, NEW n, Gathered(r, b, n),
         LinesBefore(cs, m, Len(cs) + 1) = TextUpTo(r - Len(b) + n),
         NEW f, f = b[n + 1], NEW p, p = Outline(f)
  PROVE  LET F == Append(cs, Chunk(b, p, f, "structure")) IN
         /\ F \in Chunks /\ Len(F) = Len(cs) + 1 /\ \A k \in 1..m : F[k] = cs[k]
         /\ Layered(F, m) /\ Cites(F, m)
         /\ LinesBefore(F, m, Len(F) + 1) = TextUpTo(r)
<1>1. Len(cs) \in Nat /\ DOMAIN cs = 1..Len(cs) /\ m \in Nat /\ m <= Len(cs)
  BY SeqFacts DEF Chunks
<1>2. f \in DOMAIN Blocks
  BY SameSection
<1> DEFINE c == Chunk(b, p, f, "structure")
           F == Append(cs, c)
           l == Len(cs)
<1>3. c.lines = b /\ c.path = p /\ c.first = f /\ c.strategy = "structure"
  BY DEF Chunk
<1>4. F \in Chunks /\ Len(F) = l + 1 /\ F[l + 1] = c /\ \A k \in 1..l : F[k] = cs[k]
  <2>1. c \in [lines : Seq(DOMAIN Blocks), path : Seq(DOMAIN Blocks), first : DOMAIN Blocks,
               strategy : {"structure", "row", "qa"}]
    BY <1>2, OutlineTyped DEF Chunk, Gathered
  <2> HIDE DEF c
  <2> QED BY <2>1, AppendProperties DEF Chunks
<1> HIDE DEF c, F
<1>5. Layered(F, m)
  <2>1. ASSUME NEW k \in 1..(l + 1) PROVE F[k].strategy = IF k <= m THEN "qa" ELSE "structure"
    <3>1. CASE k \in 1..l
      BY <1>4, <3>1 DEF Layered
    <3>2. CASE k = l + 1
      BY <1>1, <1>3, <1>4, <3>2
    <3> QED BY <1>1, <3>1, <3>2
  <2> QED BY <1>4, <2>1 DEF Layered
<1>6. \A k \in 1..(l + 1) : LinesBefore(F, m, k) = LinesBefore(cs, m, k)
  <2> TAKE k \in 1..(l + 1)
  <2>1. \A i \in (m + 1)..(k - 1) : i \in 1..l /\ F[i] = cs[i]
    BY <1>1, <1>4
  <2>2. {ToSet(F[i].lines) : i \in (m + 1)..(k - 1)} = {ToSet(cs[i].lines) : i \in (m + 1)..(k - 1)}
    BY <2>1
  <2> QED BY <2>2, Zenon DEF LinesBefore
<1>7. l + 1 \in 1..(l + 1)
  BY <1>1
<1>8. LinesBefore(F, m, l + 1) = TextUpTo(r - Len(b) + n)
  BY <1>6, <1>7
<1>9. Cites(F, m)
  <2>1. ASSUME NEW k \in (m + 1)..(l + 1)
        PROVE  \E g \in DOMAIN Blocks :
                 /\ g = F[k].first /\ F[k].path = Outline(g)
                 /\ g \in ToSet(F[k].lines) \ LinesBefore(F, m, k)
                 /\ \A x \in ToSet(F[k].lines) \ LinesBefore(F, m, k) : g <= x
    <3>1. k \in 1..(l + 1) /\ LinesBefore(F, m, k) = LinesBefore(cs, m, k)
      BY <1>1, <1>6
    <3>2. CASE k = l + 1
      <4>1. F[k] = c /\ LinesBefore(F, m, k) = TextUpTo(r - Len(b) + n)
        BY <1>4, <1>8, <3>2
      <4>2. /\ f \in ToSet(b) \ TextUpTo(r - Len(b) + n)
            /\ \A x \in ToSet(b) \ TextUpTo(r - Len(b) + n) : f <= x
        BY GatheredLines
      <4> QED BY <1>2, <1>3, <4>1, <4>2
    <3>3. CASE k # l + 1
      <4>1. k \in (m + 1)..l /\ F[k] = cs[k]
        BY <1>1, <1>4, <3>3
      <4> QED BY <3>1, <4>1 DEF Cites
    <3> QED BY <3>2, <3>3
  <2> QED BY <1>4, <2>1 DEF Cites
<1>10. LinesBefore(F, m, l + 1 + 1) = TextUpTo(r)
  <2>1. LinesBefore(F, m, l + 1 + 1) = LinesBefore(F, m, l + 1) \cup ToSet(F[l + 1].lines)
    <3>1. \A i : i \in (m + 1)..(l + 1 + 1 - 1) <=> i \in (m + 1)..(l + 1 - 1) \/ i = l + 1
      BY <1>1
    <3> QED BY <3>1 DEF LinesBefore
  <2>2. TextUpTo(r - Len(b) + n) \cup ToSet(b) = TextUpTo(r)
    BY GatheredLines
  <2> QED BY <1>3, <1>4, <1>8, <2>1, <2>2
<1>11. Len(F) = Len(cs) + 1 /\ \A k \in 1..m : F[k] = cs[k]
  BY <1>1, <1>4
<1> QED BY <1>4, <1>5, <1>9, <1>10, <1>11 DEF F, c

Joined(cs, b) == [cs EXCEPT ![Len(cs)].lines = @ \o b]

\* ... or joins the one before it.
LEMMA JoinedChunk ==
  ASSUME Written, NEW cs \in Chunks, NEW m \in 0..Len(cs), m < Len(cs), Layered(cs, m), Cites(cs, m),
         NEW r \in 1..Len(Text), NEW b, NEW n, Gathered(r, b, n),
         LinesBefore(cs, m, Len(cs) + 1) = TextUpTo(r - Len(b) + n),
         NEW G, G = Joined(cs, b)
  PROVE  /\ G \in Chunks /\ Len(G) = Len(cs) /\ \A k \in 1..m : G[k] = cs[k]
         /\ Layered(G, m) /\ Cites(G, m)
         /\ LinesBefore(G, m, Len(G) + 1) = TextUpTo(r)
<1> DEFINE l == Len(cs)
           F == [cs EXCEPT ![l].lines = @ \o b]
           C == [lines : Seq(DOMAIN Blocks), path : Seq(DOMAIN Blocks), first : DOMAIN Blocks,
                 strategy : {"structure", "row", "qa"}]
<1>1. l \in Nat /\ DOMAIN cs = 1..l /\ m \in Nat /\ m < l /\ l \in 1..l /\ l \in (m + 1)..l
      /\ cs \in Seq(C) /\ \A k \in 1..l : cs[k] \in C
  <2>1. cs \in Seq(C)
    BY DEF Chunks
  <2> HIDE DEF C
  <2>2. l \in Nat /\ DOMAIN cs = 1..l /\ \A k \in 1..l : cs[k] \in C
    BY <2>1, SeqFacts
  <2>3. m \in Nat /\ m < l /\ l \in 1..l /\ l \in (m + 1)..l
    BY <2>2
  <2> QED BY <2>1, <2>2, <2>3
<1>0. l \in Nat /\ m \in Nat /\ m < l
  BY <1>1
<1>2. PICK d \in C : d = cs[l]
  BY <1>1
<1>3. PICK e : e = [d EXCEPT !.lines = d.lines \o b]
  OBVIOUS
<1>4. /\ e \in C /\ e.lines = d.lines \o b /\ e.path = d.path /\ e.first = d.first
      /\ e.strategy = d.strategy
  <2>1. d.lines \in Seq(DOMAIN Blocks) /\ b \in Seq(DOMAIN Blocks)
    BY DEF Gathered
  <2>2. d.lines \o b \in Seq(DOMAIN Blocks)
    BY <2>1, ConcatProperties
  <2> QED BY <1>3, <2>2
<1>5. F = [cs EXCEPT ![l] = e]
  BY <1>1, <1>2, <1>3
<1>51. G = F
  BY DEF Joined
<1> HIDE DEF F, C
<1>6. F \in Seq(C) /\ Len(F) = l /\ F[l] = e /\ \A k \in 1..l : k # l => F[k] = cs[k]
  BY <1>1, <1>4, <1>5, ExceptSeq
<1>7. F \in Chunks
  BY <1>6 DEF Chunks, C
<1>8. Layered(F, m)
  <2>1. ASSUME NEW k \in 1..l PROVE F[k].strategy = cs[k].strategy
    BY <1>2, <1>4, <1>6
  <2> QED BY <1>6, <2>1 DEF Layered
<1>9. \A k \in 1..l : LinesBefore(F, m, k) = LinesBefore(cs, m, k)
  <2> TAKE k \in 1..l
  <2>1. ASSUME NEW i \in (m + 1)..(k - 1) PROVE i \in 1..l /\ F[i] = cs[i]
    <3>1. i \in 1..l /\ i # l
      BY <1>0
    <3> QED BY <1>6, <3>1
  <2>2. {ToSet(F[i].lines) : i \in (m + 1)..(k - 1)} = {ToSet(cs[i].lines) : i \in (m + 1)..(k - 1)}
    BY <2>1
  <2> QED BY <2>2, Zenon DEF LinesBefore
<1>10. ToSet(e.lines) = ToSet(d.lines) \cup ToSet(b)
  <2>1. d.lines \in Seq(DOMAIN Blocks) /\ b \in Seq(DOMAIN Blocks)
    BY DEF Gathered, C
  <2> QED BY <1>4, <2>1, ToSetAppend
<1>11. /\ LinesBefore(cs, m, l + 1) = LinesBefore(cs, m, l) \cup ToSet(d.lines)
       /\ LinesBefore(F, m, l + 1) = LinesBefore(F, m, l) \cup ToSet(e.lines)
  <2>1. \A i : i \in (m + 1)..(l + 1 - 1) <=> i \in (m + 1)..(l - 1) \/ i = l
    BY <1>1
  <2> QED BY <1>2, <1>6, <2>1 DEF LinesBefore
<1>12. Cites(F, m)
  <2>1. ASSUME NEW k \in (m + 1)..l
        PROVE  \E g \in DOMAIN Blocks :
                 /\ g = F[k].first /\ F[k].path = Outline(g)
                 /\ g \in ToSet(F[k].lines) \ LinesBefore(F, m, k)
                 /\ \A x \in ToSet(F[k].lines) \ LinesBefore(F, m, k) : g <= x
    <3>1. k \in 1..l /\ LinesBefore(F, m, k) = LinesBefore(cs, m, k)
      BY <1>1, <1>9
    <3>2. PICK g \in DOMAIN Blocks :
            /\ g = cs[k].first /\ cs[k].path = Outline(g)
            /\ g \in ToSet(cs[k].lines) \ LinesBefore(cs, m, k)
            /\ \A x \in ToSet(cs[k].lines) \ LinesBefore(cs, m, k) : g <= x
      BY DEF Cites
    <3>3. CASE k # l
      BY <1>6, <3>1, <3>2, <3>3
    <3>4. CASE k = l
      <4>1. g = e.first /\ e.path = Outline(g)
        BY <1>2, <1>4, <3>2, <3>4
      <4>2. g \in ToSet(e.lines) \ LinesBefore(cs, m, l)
        BY <1>2, <1>10, <3>2, <3>4
      <4>3. ASSUME NEW x \in ToSet(e.lines) \ LinesBefore(cs, m, l) PROVE g <= x
        <5>1. CASE x \in ToSet(d.lines)
          BY <1>2, <3>2, <3>4, <4>3, <5>1
        <5>2. CASE x \notin ToSet(d.lines)
          <6>1. x \in ToSet(b) /\ x \notin TextUpTo(r - Len(b) + n)
            BY <1>10, <1>11, <4>3, <5>2
          <6>2. b[n + 1] <= x
            BY <6>1, GatheredLines
          <6>3. g \in TextUpTo(r - Len(b) + n)
            BY <1>2, <1>11, <3>2, <3>4
          <6>4. g < b[n + 1]
            BY <6>3, GatheredLines
          <6>5. g \in Nat /\ b[n + 1] \in Nat
            BY BlockFacts, SameSection
          <6>6. x \in Nat
            <7>1. ToSet(b) \subseteq DOMAIN Blocks
              BY SeqFacts DEF Gathered, ToSet
            <7> QED BY <6>1, <7>1, BlockFacts
          <6> QED BY <6>2, <6>4, <6>5, <6>6
        <5> QED BY <5>1, <5>2
      <4> QED BY <1>6, <3>1, <3>4, <4>1, <4>2, <4>3
    <3> QED BY <3>3, <3>4
  <2> QED BY <1>6, <2>1 DEF Cites
<1>13. LinesBefore(F, m, l + 1) = TextUpTo(r)
  <2>1. TextUpTo(r - Len(b) + n) \cup ToSet(b) = TextUpTo(r)
    BY GatheredLines
  <2>2. LinesBefore(F, m, l) = LinesBefore(cs, m, l)
    BY <1>1, <1>9
  <2> QED BY <1>10, <1>11, <2>1, <2>2
<1>14. ASSUME NEW k \in 1..m PROVE F[k] = cs[k]
  <2>1. k \in 1..l /\ k # l
    BY <1>0
  <2> QED BY <1>6, <2>1
<1> QED BY <1>6, <1>7, <1>8, <1>12, <1>13, <1>14, <1>51

-----------------------------------------------------------------------------
(* Chunking: the invariant                                                 *)
(* What chunk_by_structure has read of the text is what its chunks hold,   *)
(* the overlap once more, and the lines gathered: a run of the text that   *)
(* ends with the last line read, all in the section of that line.  What    *)
(* chunk_by_qa has read is paired, but for the question that waits.        *)

\* What the n lines of overlap are counted as.
Start(b, n) == IF n = 0 THEN 0 ELSE ContentTokens(SubSeq(b, 1, n))

\* The lines b, n of them overlap, are counted as t, and keep to their bounds.
Measured(b, n, t) ==
  /\ n > 1 => ContentTokens(Tail(SubSeq(b, 1, n))) < Budget
  /\ t = Start(b, n) + Counts(b, n + 1, Len(b))
  /\ n + 1 < Len(b) => Start(b, n) + Counts(b, n + 1, Len(b) - 1) <= Target

\* Chunk c pairs a question with its answer, the answer being block j or before it.
Pair(c, j) ==
  \E q, i \in DOMAIN Blocks :
    /\ c.lines = <<q, i>> /\ c.path = Outline(i)
    /\ Kind(i) = "answer" /\ i <= j /\ q \in Answered(i)
Paired(cs, m, j) ==
  \A i \in DOMAIN Blocks : Kind(i) = "answer" /\ i <= j =>
    \A q \in Answered(i) : \E k \in 1..m : cs[k].lines = <<q, i>>

\* The first m chunks pair the answers up to block j with their questions.
Pairs(cs, m, j) ==
  /\ \A k \in 1..m : Pair(cs[k], j)
  /\ \A k, l \in 1..m : k < l => cs[k].lines[2] < cs[l].lines[2]
  /\ Paired(cs, m, j)

\* The question p waits for its answer after block j.
Waits(p, j) ==
  \A q \in 1..j :
    (q = p) <=> Kind(q) = "question" /\ \A k \in (q + 1)..j : Kind(k) \notin {"question", "answer"}

NothingGathered == buf = <<>> /\ bufTokens = 0 /\ bufPath = <<>> /\ bufPage = 0

\* chunk_by_qa after block j.
Asking(j, cs) ==
  /\ chunks = cs /\ cs \in Chunks /\ base = 0 /\ NothingGathered
  /\ \A k \in 1..Len(cs) : cs[k].strategy = "qa"
  /\ j \in 0..Len(Blocks)
  /\ Len(todo) = Len(Blocks) - j /\ \A k \in 1..Len(todo) : todo[k] = j + k
  /\ sections = Outline(j)
  /\ Pairs(cs, Len(cs), j)
  /\ Waits(pending, j) /\ pending \in 0..j

\* chunk_by_structure after r lines of the text, of which u is the last, with n lines of overlap
\* in the buffer b, and the chunks cs, of which chunk_by_qa made m.
Gathering(r, u, b, n, cs, m) ==
  /\ r \in 0..Len(Text) /\ u = LineAt(r)
  /\ Len(todo) = Len(Text) - r /\ \A k \in 1..Len(todo) : todo[k] = Text[r + k]
  /\ sections = Outline(u) /\ bufPath = Outline(u)
  /\ buf = b /\ chunks = cs /\ base = m
  /\ cs \in Chunks /\ m \in 0..Len(cs) /\ Layered(cs, m) /\ Cites(cs, m)
  /\ r = 0 => b = <<>> /\ bufTokens = 0 /\ bufPage = 0 /\ Len(cs) = m
  /\ r > 0 => /\ Gathered(r, b, n) /\ Measured(b, n, bufTokens) /\ bufPage = b[n + 1]
              /\ LinesBefore(cs, m, Len(cs) + 1) = TextUpTo(r - Len(b) + n)
  /\ IF ChooseStrategy(doc) = "qa" THEN Pairs(cs, m, Len(Blocks)) ELSE m = 0

Ended(cs, m) ==
  /\ chunks = cs /\ base = m /\ cs \in Chunks /\ m \in 0..Len(cs)
  /\ ChooseStrategy(doc) = "row" =>
       /\ m = 0 /\ \A k \in 1..Len(cs) : cs[k].strategy = "row"
       /\ \A i \in DOMAIN Blocks : Kind(i) = "row" => \E k \in 1..Len(cs) : i \in ToSet(cs[k].lines)
  /\ ChooseStrategy(doc) # "row" =>
       Layered(cs, m) /\ Cites(cs, m) /\ Wanted \subseteq LinesBefore(cs, m, Len(cs) + 1)
  /\ IF ChooseStrategy(doc) = "qa" THEN Pairs(cs, m, Len(Blocks)) ELSE m = 0

ReadInv ==
  /\ phase = "qa" => ChooseStrategy(doc) = "qa" /\ \E j, cs : Asking(j, cs)
  /\ phase = "row" => ChooseStrategy(doc) = "row" /\ chunks = <<>> /\ base = 0
  /\ phase = "structure" =>
       ChooseStrategy(doc) # "row" /\ \E r, u, b, n, cs, m : Gathering(r, u, b, n, cs, m)
  /\ phase = "done" => \E cs, m : Ended(cs, m)

ChunkInv == ChunkingTypeOK /\ ReadInv

\* What is said of the document stays true of it.
LEMMA Stays ==
  ASSUME doc' = doc
  PROVE  /\ DOMAIN Blocks' = DOMAIN Blocks /\ Len(Blocks)' = Len(Blocks)
         /\ ChooseStrategy(doc)' = ChooseStrategy(doc)
         /\ Text' = Text /\ Wanted' = Wanted /\ Chunks' = Chunks
         /\ \A i : Kind(i)' = Kind(i) /\ Outline(i)' = Outline(i) /\ LineAt(i)' = LineAt(i)
                   /\ LineTokens(i)' = LineTokens(i) /\ TextUpTo(i)' = TextUpTo(i)
                   /\ Answered(i)' = Answered(i)
         /\ \A l : ContentTokens(l)' = ContentTokens(l)
<1>1. /\ DOMAIN Blocks' = DOMAIN Blocks /\ Len(Blocks)' = Len(Blocks)
      /\ ChooseStrategy(doc)' = ChooseStrategy(doc)
  BY DEF Blocks
<1>2. \A i : Kind(i)' = Kind(i) /\ LineTokens(i)' = LineTokens(i)
  BY DEF Kind, LineTokens, Blocks
<1>3. \A i : Outline(i)' = Outline(i)
  BY DEF Outline, InOrder, Kind, Level, Blocks
<1>4. Text' = Text
  BY DEF Text, Of, InOrder, Kind, Blocks
<1>5. Wanted' = Wanted
  BY <1>1, <1>2 DEF Wanted
<1>6. \A i : LineAt(i)' = LineAt(i) /\ TextUpTo(i)' = TextUpTo(i)
  BY <1>4 DEF LineAt, TextUpTo
<1>7. \A i : Answered(i)' = Answered(i)
  BY <1>2 DEF Answered
<1>8. \A l : ContentTokens(l)' = ContentTokens(l)
  BY DEF ContentTokens, Blocks
<1>9. Chunks' = Chunks
  BY <1>1 DEF Chunks
<1> QED BY <1>1, <1>2, <1>3, <1>4, <1>5, <1>6, <1>7, <1>8, <1>9

LEMMA StaysToo ==
  ASSUME doc' = doc
  PROVE  /\ \A cs, m : Cites(cs, m)' = Cites(cs, m)
         /\ \A r, b, n : Gathered(r, b, n)' = Gathered(r, b, n)
         /\ \A b, n, t : Measured(b, n, t)' = Measured(b, n, t)
         /\ \A cs, m, j : Pairs(cs, m, j)' = Pairs(cs, m, j)
         /\ \A p, j : Waits(p, j)' = Waits(p, j)
<1>1. \A cs, m : Cites(cs, m)' = Cites(cs, m)
  BY Stays DEF Cites
<1>2. \A r, b, n : Gathered(r, b, n)' = Gathered(r, b, n)
  BY Stays DEF Gathered
<1>3. \A b, n, t : Measured(b, n, t)' = Measured(b, n, t)
  <2>1. \A b, lo, hi : Counts(b, lo, hi)' = Counts(b, lo, hi)
    BY DEF Counts, LineTokens, Blocks
  <2>2. \A b, n : Start(b, n)' = Start(b, n)
    BY Stays DEF Start
  <2> QED BY <2>1, <2>2, Stays DEF Measured
<1>4. \A cs, m, j : Pairs(cs, m, j)' = Pairs(cs, m, j)
  <2>1. /\ (DOMAIN Blocks)' = DOMAIN Blocks
        /\ \A i : Kind(i)' = Kind(i) /\ Outline(i)' = Outline(i) /\ Answered(i)' = Answered(i)
    BY Stays
  <2>2. \A c, j : Pair(c, j)' = Pair(c, j)
    BY <2>1 DEF Pair
  <2>3. \A cs, m, j : Paired(cs, m, j)' = Paired(cs, m, j)
    BY <2>1 DEF Paired
  <2> QED BY <2>2, <2>3 DEF Pairs
<1>5. \A p, j : Waits(p, j)' = Waits(p, j)
  BY Stays DEF Waits
<1> QED BY <1>1, <1>2, <1>3, <1>4, <1>5

-----------------------------------------------------------------------------
(* chunk_by_structure: one step                                            *)

LEMMA ChunksTyped ==
  ASSUME Written, NEW cs \in Chunks
  PROVE  /\ Len(cs) \in Nat /\ DOMAIN cs = 1..Len(cs)
         /\ \A k \in 1..Len(cs) : /\ cs[k].lines \in Seq(DOMAIN Blocks)
                                  /\ cs[k].first \in DOMAIN Blocks
<1> DEFINE C == [lines : Seq(DOMAIN Blocks), path : Seq(DOMAIN Blocks), first : DOMAIN Blocks,
                 strategy : {"structure", "row", "qa"}]
<1>1. cs \in Seq(C)
  BY DEF Chunks
<1>2. \A c \in C : c.lines \in Seq(DOMAIN Blocks) /\ c.first \in DOMAIN Blocks
  OBVIOUS
<1> HIDE DEF C
<1>3. Len(cs) \in Nat /\ DOMAIN cs = 1..Len(cs) /\ \A k \in 1..Len(cs) : cs[k] \in C
  BY <1>1, SeqFacts
<1> QED BY <1>2, <1>3

\* What flush leaves, whether the lines become a chunk or join the one before.
LEMMA FlushGives ==
  ASSUME Written, NEW r, NEW u, NEW b, NEW n, NEW cs, NEW m, Gathering(r, u, b, n, cs, m),
         NEW p, NEW f, r > 0 => p = bufPath /\ f = bufPage,
         NEW F, F = Flushed(p, f)
  PROVE  /\ F \in Chunks /\ m \in 0..Len(F) /\ \A k \in 1..m : F[k] = cs[k]
         /\ Layered(F, m) /\ Cites(F, m)
         /\ LinesBefore(F, m, Len(F) + 1) = TextUpTo(r)
<1>1. /\ r \in 0..Len(Text) /\ buf = b /\ chunks = cs /\ base = m
      /\ cs \in Chunks /\ m \in 0..Len(cs) /\ Layered(cs, m) /\ Cites(cs, m)
  BY DEF Gathering
<1>2. Len(cs) \in Nat /\ r \in Nat /\ m \in Nat
  BY <1>1, ChunksTyped, TextFacts
<1>3. CASE r = 0
  <2>1. b = <<>> /\ Len(cs) = m
    BY <1>3 DEF Gathering
  <2>2. F = cs
    BY <1>1, <2>1, Zenon DEF Flushed
  <2>3. LinesBefore(cs, m, Len(cs) + 1) = {}
    <3>1. (m + 1)..(Len(cs) + 1 - 1) = {}
      BY <1>2, <2>1
    <3> QED BY <3>1 DEF LinesBefore
  <2>4. TextUpTo(0) = {}
    BY DEF TextUpTo
  <2> QED BY <1>1, <1>3, <2>2, <2>3, <2>4
<1>4. CASE r # 0
  <2>1. r > 0
    BY <1>2, <1>4
  <2>2. /\ Gathered(r, b, n) /\ bufPage = b[n + 1]
        /\ LinesBefore(cs, m, Len(cs) + 1) = TextUpTo(r - Len(b) + n)
        /\ u = Text[r] /\ bufPath = Outline(u) /\ r \in 1..Len(Text)
    BY <1>1, <1>2, <2>1 DEF Gathering, LineAt
  <2>3. f = b[n + 1] /\ p = Outline(f)
    BY <2>1, <2>2, SameSection
  <2>4. b # <<>>
    BY <2>2, EmptySeq DEF Gathered
  <2>5. \/ F = Joined(cs, b) /\ m < Len(cs)
        \/ F = Append(cs, Chunk(b, p, f, "structure"))
    <3>1. CASE Tiny
      <4>1. F = Joined(cs, b)
        BY <1>1, <2>4, <3>1 DEF Flushed, Joined
      <4>2. m < Len(cs)
        BY <1>1, <1>2, <3>1 DEF Tiny
      <4> QED BY <4>1, <4>2
    <3>2. CASE ~Tiny
      BY <1>1, <2>4, <3>2 DEF Flushed
    <3> QED BY <3>1, <3>2
  <2>6. CASE F = Joined(cs, b) /\ m < Len(cs)
    <3>1. PICK G : G = Joined(cs, b)
      OBVIOUS
    <3>2. /\ G \in Chunks /\ Len(G) = Len(cs) /\ \A k \in 1..m : G[k] = cs[k]
          /\ Layered(G, m) /\ Cites(G, m)
          /\ LinesBefore(G, m, Len(G) + 1) = TextUpTo(r)
      <4>1. m < Len(cs) /\ r \in 1..Len(Text) /\ Gathered(r, b, n)
        BY <2>2, <2>6
      <4>2. LinesBefore(cs, m, Len(cs) + 1) = TextUpTo(r - Len(b) + n)
        BY <2>2
      <4>3. cs \in Chunks /\ m \in 0..Len(cs) /\ Layered(cs, m) /\ Cites(cs, m)
        BY <1>1
      <4>4. Layered(G, m)
        BY <3>1, <4>1, <4>2, <4>3, JoinedChunk
      <4>5. \A k \in 1..m : G[k] = cs[k]
        BY <3>1, <4>1, <4>2, <4>3, JoinedChunk
      <4>6. G \in Chunks /\ Len(G) = Len(cs) /\ Cites(G, m)
        BY <3>1, <4>1, <4>2, <4>3, JoinedChunk
      <4>7. LinesBefore(G, m, Len(G) + 1) = TextUpTo(r)
        BY <3>1, <4>1, <4>2, <4>3, JoinedChunk
      <4> QED BY <4>4, <4>5, <4>6, <4>7
    <3> QED BY <1>1, <2>6, <3>1, <3>2
  <2>7. CASE F = Append(cs, Chunk(b, p, f, "structure"))
    <3>1. PICK G : G = Append(cs, Chunk(b, p, f, "structure"))
      OBVIOUS
    <3>2. /\ G \in Chunks /\ Len(G) = Len(cs) + 1 /\ \A k \in 1..m : G[k] = cs[k]
          /\ Layered(G, m) /\ Cites(G, m)
          /\ LinesBefore(G, m, Len(G) + 1) = TextUpTo(r)
      BY <1>1, <2>2, <2>3, <3>1, NewChunk
    <3>3. m \in 0..Len(G)
      BY <1>1, <1>2, <3>2
    <3> QED BY <2>7, <3>1, <3>2, <3>3
  <2> QED BY <2>5, <2>6, <2>7
<1> QED BY <1>3, <1>4

\* The chunks of chunk_by_qa are left alone by what follows them.
LEMMA PairsStay ==
  ASSUME NEW cs, NEW F, NEW m, NEW j, Pairs(cs, m, j), \A k \in 1..m : F[k] = cs[k]
  PROVE  Pairs(F, m, j)
<1>1. \A k \in 1..m : Pair(F[k], j)
  BY DEF Pairs
<1>2. \A k, l \in 1..m : k < l => F[k].lines[2] < F[l].lines[2]
  BY DEF Pairs
<1>3. Paired(F, m, j)
  BY DEF Pairs, Paired
<1> QED BY <1>1, <1>2, <1>3 DEF Pairs

\* The next line of the text is read.
LEMMA ReadOn ==
  ASSUME Written, NEW r, NEW u, NEW b, NEW n, NEW cs, NEW m, Gathering(r, u, b, n, cs, m),
         todo \in Seq(DOMAIN Blocks), todo # <<>>
  PROVE  /\ r \in Nat /\ r + 1 \in 1..Len(Text) /\ r + 1 \in 0..Len(Text)
         /\ This = Text[r + 1] /\ This = LineAt(r + 1) /\ This \in DOMAIN Blocks
         /\ Len(Tail(todo)) = Len(Text) - (r + 1)
         /\ \A k \in 1..Len(Tail(todo)) : Tail(todo)[k] = Text[(r + 1) + k]
         /\ Tail(todo) \in Seq(DOMAIN Blocks)
<1>1. /\ r \in 0..Len(Text) /\ Len(Text) \in Nat /\ r \in Nat
      /\ Len(todo) = Len(Text) - r /\ \A k \in 1..Len(todo) : todo[k] = Text[r + k]
  BY TextFacts DEF Gathering
<1>2. Len(todo) \in Nat \ {0}
  BY EmptySeq
<1>3. /\ Tail(todo) \in Seq(DOMAIN Blocks) /\ Len(Tail(todo)) = Len(todo) - 1
      /\ \A k \in 1..Len(Tail(todo)) : Tail(todo)[k] = todo[k + 1]
  BY HeadTailProperties
<1>4. Head(todo) = todo[1]
  OBVIOUS
<1>5. r + 1 \in 1..Len(Text) /\ r + 1 \in 0..Len(Text) /\ r + 1 # 0
  BY <1>1, <1>2
<1>6. This = Text[r + 1]
  BY <1>1, <1>2, <1>4 DEF This
<1>7. This = LineAt(r + 1) /\ This \in DOMAIN Blocks
  BY <1>5, <1>6, TextFacts DEF LineAt
<1>8. ASSUME NEW k \in 1..Len(Tail(todo)) PROVE Tail(todo)[k] = Text[(r + 1) + k]
  <2>1. k + 1 \in 1..Len(todo) /\ r + (k + 1) = (r + 1) + k
    BY <1>1, <1>2, <1>3
  <2> QED BY <1>1, <1>3, <2>1
<1> QED BY <1>1, <1>2, <1>3, <1>5, <1>6, <1>7, <1>8

LEMMA OneLine ==
  ASSUME Written, NEW r \in Nat, r + 1 \in 1..Len(Text), NEW h, h = Text[r + 1]
  PROVE  Gathered(r + 1, <<h>>, 0) /\ Measured(<<h>>, 0, LineTokens(h))
<1> DEFINE b == <<h>>
<1>1. h \in DOMAIN Blocks /\ LineTokens(h) \in Nat
  BY TextFacts, LineNat
<1>2. b \in Seq(DOMAIN Blocks) /\ Len(b) = 1 /\ b[1] = h
  BY <1>1
<1> HIDE DEF b
<1>3. Gathered(r + 1, b, 0)
  <2>1. Len(b) \in 1..(r + 1) /\ 0 \in 0..(Len(b) - 1)
    BY <1>2
  <2>2. \A k \in 1..Len(b) : b[k] = Text[r + 1 - Len(b) + k]
    <3>1. \A k \in 1..1 : k = 1
      OBVIOUS
    <3>2. r + 1 - 1 + 1 = r + 1
      OBVIOUS
    <3> QED BY <1>2, <3>1, <3>2
  <2>3. \A k \in 2..Len(b) : Kind(b[k]) # "heading"
    BY <1>2
  <2> QED BY <1>2, <2>1, <2>2, <2>3 DEF Gathered
<1>4. Counts(b, 1, 1) = LineTokens(h)
  <2>1. Counts(b, 1, 0 + 1) = Counts(b, 1, 0) + LineTokens(b[0 + 1])
    <3>1. \A k \in 1..(0 + 1) : b[k] \in DOMAIN Blocks
      BY <1>1, <1>2
    <3>2. 1 \in Nat /\ 0 \in Nat /\ 1 <= 0 + 1
      OBVIOUS
    <3> QED BY <3>1, <3>2, CountsOneMore
  <2>2. Counts(b, 1, 0) = 0
    BY CountsNone
  <2> QED BY <1>1, <1>2, <2>1, <2>2
<1>5. Measured(b, 0, LineTokens(h))
  <2>1. Start(b, 0) = 0
    BY DEF Start
  <2>2. 0 + 1 = 1 /\ ~(0 + 1 < Len(b)) /\ ~(0 > 1)
    BY <1>2
  <2>3. LineTokens(h) = Start(b, 0) + Counts(b, 0 + 1, Len(b))
    BY <1>1, <1>2, <1>4, <2>1
  <2> QED BY <2>2, <2>3 DEF Measured
<1> QED BY <1>3, <1>5 DEF b

\* The tail that is carried over.
LEMMA Carried ==
  ASSUME Written, NEW b \in Seq(DOMAIN Blocks), buf = b
  PROVE  \E n \in 0..Len(b) :
           /\ CarriedTail \in Seq(DOMAIN Blocks) /\ Len(CarriedTail) = n
           /\ \A k \in 1..n : CarriedTail[k] = b[Len(b) - n + k]
           /\ n > 1 => ContentTokens(Tail(CarriedTail)) < Budget
<1>1. Len(b) \in Nat /\ \A k \in 1..Len(b) : b[k] \in DOMAIN Blocks
  BY SeqFacts
<1> DEFINE enough == {n \in 0..Len(b) : n = Len(b) \/ ContentTokens(LastLines(n)) >= Budget}
<1>2. PICK n : n = CHOOSE k \in enough : \A l \in enough : k <= l
  OBVIOUS
<1>3. n \in enough /\ \A l \in enough : n <= l
  <2>1. enough \in SUBSET Nat /\ enough # {}
    <3>1. Len(b) \in enough
      BY <1>1
    <3> QED BY <1>1, <3>1
  <2> HIDE DEF enough
  <2>2. \E k \in enough : \A l \in enough : k <= l
    BY <2>1, LeastNumber
  <2> QED BY <1>2, <2>2, Zenon
<1>4. CarriedTail = LastLines(n)
  BY <1>2, Zenon DEF CarriedTail
<1>5. ASSUME NEW q \in 0..Len(b)
      PROVE  /\ LastLines(q) \in Seq(DOMAIN Blocks) /\ Len(LastLines(q)) = q
             /\ \A k \in 1..q : LastLines(q)[k] = b[Len(b) - q + k]
  <2>0. q \in Nat /\ q <= Len(b) /\ Len(b) - q + 1 \in Int
    BY <1>1
  <2>1. PICK lo \in Int : lo = Len(b) - q + 1
    BY <2>0
  <2>2. LastLines(q) = SubSeq(b, lo, Len(b))
    BY <2>1 DEF LastLines
  <2>3. \A k \in lo..Len(b) : b[k] \in DOMAIN Blocks
    BY <1>1, <2>1
  <2>4. /\ SubSeq(b, lo, Len(b)) \in Seq(DOMAIN Blocks)
        /\ Len(SubSeq(b, lo, Len(b))) = IF lo <= Len(b) THEN Len(b) - lo + 1 ELSE 0
        /\ \A k \in 1..(Len(b) - lo + 1) : SubSeq(b, lo, Len(b))[k] = b[lo + k - 1]
    BY <1>1, <2>3, SubSeqProperties
  <2>5. Len(b) - lo + 1 = q /\ (IF lo <= Len(b) THEN Len(b) - lo + 1 ELSE 0) = q
    BY <1>1, <2>1
  <2>6. \A k \in 1..q : lo + k - 1 = Len(b) - q + k
    BY <1>1, <2>1
  <2> QED BY <2>2, <2>4, <2>5, <2>6
<1>6. n \in 0..Len(b) /\ n \in Nat
  BY <1>1, <1>3
<1>7. ASSUME n > 1 PROVE ContentTokens(Tail(LastLines(n))) < Budget
  <2>1. n - 1 \in 0..Len(b) /\ ~(n <= n - 1) /\ n - 1 # Len(b)
    BY <1>1, <1>6, <1>7
  <2>2. n - 1 \notin enough
    BY <1>3, <2>1
  <2>3. ~(ContentTokens(LastLines(n - 1)) >= Budget)
    BY <2>1, <2>2
  <2>4. Tail(LastLines(n)) = LastLines(n - 1)
    <3>1. PICK s \in Seq(DOMAIN Blocks) : s = LastLines(n)
      BY <1>5, <1>6
    <3>2. PICK t \in Seq(DOMAIN Blocks) : t = LastLines(n - 1)
      BY <1>5, <2>1
    <3>3. Len(s) = n /\ \A k \in 1..n : s[k] = b[Len(b) - n + k]
      BY <1>5, <1>6, <3>1
    <3>4. Len(t) = n - 1 /\ \A k \in 1..(n - 1) : t[k] = b[Len(b) - (n - 1) + k]
      BY <1>5, <2>1, <3>2
    <3>5. s # <<>>
      BY <1>7, <3>3
    <3>6. /\ Tail(s) \in Seq(DOMAIN Blocks) /\ Len(Tail(s)) = Len(s) - 1
          /\ \A k \in 1..Len(Tail(s)) : Tail(s)[k] = s[k + 1]
      BY <3>5, HeadTailProperties
    <3>7. ASSUME NEW k \in 1..Len(t) PROVE t[k] = Tail(s)[k]
      <4>1. k \in 1..(n - 1) /\ k + 1 \in 1..n /\ k \in 1..Len(Tail(s))
            /\ Len(b) - (n - 1) + k = Len(b) - n + (k + 1)
        BY <1>1, <1>6, <3>3, <3>4, <3>6
      <4> QED BY ZenonT(60), <3>3, <3>4, <3>6, <4>1
    <3>8. t = Tail(s)
      BY <3>3, <3>4, <3>6, <3>7, SeqEqual
    <3> QED BY <3>1, <3>2, <3>8
  <2>5. PICK z \in Nat : z = ContentTokens(LastLines(n - 1))
    BY <1>5, <2>1, ContentNat
  <2>6. Budget \in Nat
    BY ChunkingAssumption
  <2>7. z < Budget
    BY <2>3, <2>5, <2>6
  <2> QED BY <2>4, <2>5, <2>7, Zenon
<1> HIDE DEF enough
<1> QED BY <1>4, <1>5, <1>6, <1>7

OneMore(c, b, h) ==
  /\ c \in Seq(DOMAIN Blocks) /\ Len(c) = Len(b) + 1 /\ c[Len(b) + 1] = h
  /\ \A k \in 1..Len(b) : c[k] = b[k]

LEMMA AppendOne ==
  ASSUME NEW b \in Seq(DOMAIN Blocks), NEW h \in DOMAIN Blocks, NEW c, c = Append(b, h)
  PROVE  OneMore(c, b, h)
<1>1. OneMore(Append(b, h), b, h)
  BY AppendProperties DEF OneMore
<1> QED BY <1>1

\* A buffer counted as t is not full for h.
Room(t, h) == ~(t + LineTokens(h) > Target /\ t >= Minimum)

\* One more line, and still not full.
LEMMA OneLineMore ==
  ASSUME Written, NEW r \in Nat, r > 0, r + 1 \in 1..Len(Text), NEW b, NEW n, Gathered(r, b, n),
         NEW t, Measured(b, n, t), NEW h, h = Text[r + 1], Kind(h) # "heading",
         Room(t, h), NEW c, OneMore(c, b, h)
  PROVE  /\ Gathered(r + 1, c, n) /\ Measured(c, n, t + LineTokens(h))
         /\ c[n + 1] = b[n + 1]
         /\ (r + 1) - Len(c) + n = r - Len(b) + n
<1>1. h \in DOMAIN Blocks /\ LineTokens(h) \in Nat
  BY TextFacts, LineNat
<1>2. /\ b \in Seq(DOMAIN Blocks) /\ Len(b) \in Nat /\ n \in Nat /\ n + 1 <= Len(b) /\ Len(b) <= r
      /\ Len(b) > 0 /\ \A k \in 1..Len(b) : b[k] \in DOMAIN Blocks
  BY SeqFacts DEF Gathered
<1>3. /\ c \in Seq(DOMAIN Blocks) /\ Len(c) = Len(b) + 1 /\ c[Len(b) + 1] = h
      /\ \A k \in 1..Len(b) : c[k] = b[k]
  BY DEF OneMore
<1>4. Gathered(r + 1, c, n)
  <2>1. Len(c) \in 1..(r + 1) /\ n \in 0..(Len(c) - 1)
    BY <1>2, <1>3
  <2>2. ASSUME NEW k \in 1..Len(c) PROVE c[k] = Text[r + 1 - Len(c) + k]
    <3>1. r + 1 - Len(c) + k = r - Len(b) + k
      BY <1>2, <1>3
    <3>2. CASE k \in 1..Len(b)
      BY <1>3, <3>1, <3>2 DEF Gathered
    <3>3. CASE k = Len(b) + 1
      <4>1. r - Len(b) + k = r + 1
        BY <1>2, <3>3
      <4> QED BY <1>3, <3>1, <3>3, <4>1
    <3> QED BY <1>2, <1>3, <3>2, <3>3
  <2>3. ASSUME NEW k \in 2..Len(c) PROVE Kind(c[k]) # "heading"
    <3>1. (k \in 2..Len(b) /\ k \in 1..Len(b)) \/ k = Len(b) + 1
      BY <1>2, <1>3
    <3> QED BY <1>3, <3>1 DEF Gathered
  <2> QED BY <1>3, <2>1, <2>2, <2>3 DEF Gathered
<1>5. n > 0 => SubSeq(c, 1, n) = SubSeq(b, 1, n)
  <2> HAVE n > 0
  <2>1. \A k \in 1..n : c[k] \in DOMAIN Blocks /\ b[k] \in DOMAIN Blocks /\ c[k] = b[k]
    BY <1>2, <1>3
  <2>2. 1 \in Int /\ n \in Int /\ n - 1 + 1 = n /\ (IF 1 <= n THEN n - 1 + 1 ELSE 0) = n
    BY <1>2
  <2>3. PICK x : x = SubSeq(c, 1, n)
    OBVIOUS
  <2>4. PICK y : y = SubSeq(b, 1, n)
    OBVIOUS
  <2>5. x \in Seq(DOMAIN Blocks) /\ Len(x) = n /\ \A k \in 1..n : x[k] = c[1 + k - 1]
    BY <2>1, <2>2, <2>3, SubSeqProperties
  <2>6. y \in Seq(DOMAIN Blocks) /\ Len(y) = n /\ \A k \in 1..n : y[k] = b[1 + k - 1]
    BY <2>1, <2>2, <2>4, SubSeqProperties
  <2>7. \A k \in 1..n : x[k] = y[k]
    <3>1. \A k \in 1..n : 1 + k - 1 = k
      OBVIOUS
    <3> QED BY <2>1, <2>5, <2>6, <3>1
  <2>8. x = y
    BY <2>5, <2>6, <2>7, SeqEqual
  <2> QED BY <2>3, <2>4, <2>8
<1>6. Start(c, n) = Start(b, n) /\ Start(b, n) \in Nat
  <2>1. CASE n = 0
    BY <2>1 DEF Start
  <2>2. CASE n # 0
    <3>1. n > 0
      BY <1>2, <2>2
    <3>2. SubSeq(b, 1, n) \in Seq(DOMAIN Blocks)
      <4>1. \A k \in 1..n : b[k] \in DOMAIN Blocks
        BY <1>2
      <4> QED BY <1>2, <4>1, SubSeqProperties
    <3> QED BY <1>5, <2>2, <3>1, <3>2, ContentNat DEF Start
  <2> QED BY <2>1, <2>2
<1>7. /\ Counts(b, n + 1, Len(b)) \in Nat
      /\ Counts(c, n + 1, Len(b)) = Counts(b, n + 1, Len(b))
      /\ Counts(c, n + 1, Len(b) + 1) = Counts(c, n + 1, Len(b)) + LineTokens(h)
  <2>1. n + 1 \in Nat /\ n + 1 <= Len(b) + 1
    BY <1>2
  <2>2. \A k \in (n + 1)..Len(b) : b[k] \in DOMAIN Blocks /\ c[k] = b[k]
    BY <1>2, <1>3
  <2>3. \A k \in (n + 1)..(Len(b) + 1) : c[k] \in DOMAIN Blocks
    <3>1. \A k \in (n + 1)..(Len(b) + 1) : k \in (n + 1)..Len(b) \/ k = Len(b) + 1
      BY <1>2
    <3> QED BY <1>1, <1>3, <2>2, <3>1
  <2>4. Counts(b, n + 1, Len(b)) \in Nat
    BY <1>2, <2>1, <2>2, CountsNat
  <2>5. Counts(c, n + 1, Len(b)) = Counts(b, n + 1, Len(b))
    BY <1>2, <2>1, <2>2, CountsSame
  <2>6. Counts(c, n + 1, Len(b) + 1) = Counts(c, n + 1, Len(b)) + LineTokens(c[Len(b) + 1])
    BY <1>2, <2>1, <2>3, CountsOneMore
  <2> QED BY <1>3, <2>4, <2>5, <2>6
<1>8. t = Start(b, n) + Counts(b, n + 1, Len(b)) /\ t \in Nat
  BY <1>6, <1>7 DEF Measured
<1>9. t <= Target
  <2>1. Target \in Nat /\ Minimum \in Nat /\ Minimum <= Target
    BY ChunkingAssumption
  <2> QED BY <1>1, <1>8, <2>1 DEF Room
<1>10. Measured(c, n, t + LineTokens(h))
  <2>1. n > 1 => ContentTokens(Tail(SubSeq(c, 1, n))) < Budget
    <3> HAVE n > 1
    <3>1. n > 0
      BY <1>2
    <3> QED BY <1>5, <3>1 DEF Measured
  <2>2. t + LineTokens(h) = Start(c, n) + Counts(c, n + 1, Len(c))
    BY <1>1, <1>3, <1>6, <1>7, <1>8
  <2>3. Start(c, n) + Counts(c, n + 1, Len(c) - 1) <= Target
    <3>1. Len(c) - 1 = Len(b)
      BY <1>2, <1>3
    <3> QED BY <1>6, <1>7, <1>8, <1>9, <3>1
  <2> QED BY <2>1, <2>2, <2>3 DEF Measured
<1>11. c[n + 1] = b[n + 1] /\ (r + 1) - Len(c) + n = r - Len(b) + n
  BY <1>2, <1>3
<1> QED BY <1>4, <1>10, <1>11

LEMMA TypesStay ==
  ASSUME ChunkingTypeOK, doc' = doc, phase' \in {"qa", "row", "structure", "done"},
         todo' \in Seq(DOMAIN Blocks), chunks' \in Chunks, base' \in 0..Len(chunks'),
         sections' \in Seq(DOMAIN Blocks), bufPath' \in Seq(DOMAIN Blocks),
         buf' \in Seq(DOMAIN Blocks), bufTokens' \in Nat,
         bufPage' \in DOMAIN Blocks \cup {0}, pending' \in DOMAIN Blocks \cup {0}
  PROVE  ChunkingTypeOK'
<1>1. (DOMAIN Blocks)' = DOMAIN Blocks
  BY Stays
<1> QED BY <1>1 DEF ChunkingTypeOK, Chunks

LEMMA TypesAre ==
  ASSUME ChunkingTypeOK
  PROVE  /\ Written /\ todo \in Seq(DOMAIN Blocks) /\ chunks \in Chunks /\ base \in 0..Len(chunks)
         /\ sections \in Seq(DOMAIN Blocks) /\ bufPath \in Seq(DOMAIN Blocks)
         /\ buf \in Seq(DOMAIN Blocks) /\ bufTokens \in Nat
         /\ bufPage \in DOMAIN Blocks \cup {0} /\ pending \in DOMAIN Blocks \cup {0}
BY DEF ChunkingTypeOK, Written, Chunks

\* What a step of chunk_by_structure has to show.
LEMMA GoesOn ==
  ASSUME ChunkingTypeOK, doc' = doc, phase = "structure", phase' = phase, pending' = pending,
         ChooseStrategy(doc) # "row", base' = base,
         NEW r \in Nat, r + 1 \in 0..Len(Text), NEW h, h = LineAt(r + 1), h \in DOMAIN Blocks,
         todo' \in Seq(DOMAIN Blocks),
         Len(todo') = Len(Text) - (r + 1), \A k \in 1..Len(todo') : todo'[k] = Text[(r + 1) + k],
         sections' = Outline(h), bufPath' = Outline(h),
         NEW b, NEW n, buf' = b, Gathered(r + 1, b, n), bufPage' = b[n + 1],
         bufTokens' \in Nat, Measured(b, n, bufTokens'),
         NEW cs \in Chunks, chunks' = cs, base \in 0..Len(cs), Layered(cs, base), Cites(cs, base),
         LinesBefore(cs, base, Len(cs) + 1) = TextUpTo((r + 1) - Len(b) + n),
         IF ChooseStrategy(doc) = "qa" THEN Pairs(cs, base, Len(Blocks)) ELSE base = 0
  PROVE  ChunkInv'
<1>1. Written /\ base \in 0..Len(cs)
  BY TypesAre
<1>2. b \in Seq(DOMAIN Blocks) /\ b[n + 1] \in DOMAIN Blocks
  <2>1. b \in Seq(DOMAIN Blocks) /\ n \in 0..(Len(b) - 1)
    BY DEF Gathered
  <2>2. Len(b) \in Nat
    BY <2>1, SeqFacts
  <2>3. n + 1 \in 1..Len(b)
    BY <2>1, <2>2
  <2> QED BY <2>1, <2>3, SeqFacts
<1>3. Outline(h) \in Seq(DOMAIN Blocks)
  BY <1>1, OutlineTyped
<1>4. ChunkingTypeOK'
  <2>1. pending' \in DOMAIN Blocks \cup {0}
    BY TypesAre
  <2>2. phase' \in {"qa", "row", "structure", "done"}
    OBVIOUS
  <2>3. base' \in 0..Len(chunks')
    OBVIOUS
  <2> QED BY <1>2, <1>3, <2>1, <2>2, <2>3, TypesStay
<1>5. PICK m : m = base
  OBVIOUS
<1>6. PICK t : t = bufTokens'
  OBVIOUS
<1>7. Gathering(r + 1, h, b, n, cs, m)'
  <2>1. r + 1 > 0 /\ r + 1 # 0
    BY SMTT(40)
  <2>2. r + 1 \in 0..Len(Text') /\ h = LineAt(r + 1)'
    BY Stays
  <2>3. Len(todo') = Len(Text') - (r + 1) /\ \A k \in 1..Len(todo') : todo'[k] = Text'[(r + 1) + k]
    BY Stays
  <2>4. sections' = Outline(h)' /\ bufPath' = Outline(h)'
    BY Stays
  <2>5. cs \in Chunks' /\ m \in 0..Len(cs) /\ Layered(cs, m) /\ Cites(cs, m)'
    BY <1>5, Stays, StaysToo
  <2>6. Gathered(r + 1, b, n)' /\ Measured(b, n, t)'
    BY <1>6, StaysToo
  <2>7. LinesBefore(cs, m, Len(cs) + 1) = TextUpTo((r + 1) - Len(b) + n)'
    BY <1>5, Stays
  <2>8. IF ChooseStrategy(doc') = "qa" THEN Pairs(cs, m, Len(Blocks))' ELSE m = 0
    <3>1. PICK l : l = Len(Blocks)
      OBVIOUS
    <3>2. Len(Blocks') = l
      BY <3>1, Stays
    <3>3. Pairs(cs, m, l)' = Pairs(cs, m, l)
      BY StaysToo
    <3> QED BY <1>5, <3>1, <3>2, <3>3
  <2> QED BY <1>5, <1>6, <2>1, <2>2, <2>3, <2>4, <2>5, <2>6, <2>7, <2>8 DEF Gathering
<1>8. ReadInv'
  <2>1. \E r1, u1, b1, n1, cs1, m1 : Gathering(r1, u1, b1, n1, cs1, m1)'
    BY <1>7
  <2>2. ChooseStrategy(doc') # "row"
    OBVIOUS
  <2> QED BY <2>1, <2>2 DEF ReadInv
<1> QED BY <1>4, <1>8 DEF ChunkInv

LEMMA HeadingStep ==
  ASSUME ChunkInv, Heading
  PROVE  ChunkInv'
<1>1. /\ phase = "structure" /\ todo # <<>> /\ Kind(This) = "heading"
      /\ chunks' = Flushed(bufPath, bufPage) /\ sections' = Push(sections, This) /\ bufPath' = sections'
      /\ buf' = <<This>> /\ bufTokens' = LineTokens(This) /\ bufPage' = This
      /\ todo' = Tail(todo) /\ doc' = doc /\ phase' = phase /\ base' = base /\ pending' = pending
  BY DEF Heading, Reading, Read
<1>2. ChunkingTypeOK /\ ReadInv
  BY DEF ChunkInv
<1>3. Written /\ todo \in Seq(DOMAIN Blocks)
  BY <1>2, TypesAre
<1>4. ChooseStrategy(doc) # "row" /\ \E r, u, b, n, cs, m : Gathering(r, u, b, n, cs, m)
  BY <1>1, <1>2 DEF ReadInv
<1>5. PICK r, u, b, n, cs, m : Gathering(r, u, b, n, cs, m)
  BY <1>4
<1>6. PICK h : h = This
  OBVIOUS
<1>7. PICK F : F = Flushed(bufPath, bufPage)
  OBVIOUS
<1>8. /\ r \in Nat /\ r + 1 \in 1..Len(Text) /\ r + 1 \in 0..Len(Text)
      /\ h = Text[r + 1] /\ h = LineAt(r + 1) /\ h \in DOMAIN Blocks
      /\ Len(todo') = Len(Text) - (r + 1)
      /\ \A k \in 1..Len(todo') : todo'[k] = Text[(r + 1) + k]
      /\ todo' \in Seq(DOMAIN Blocks)
  BY <1>1, <1>3, <1>5, <1>6, ReadOn
<1>9. /\ F \in Chunks /\ m \in 0..Len(F) /\ \A k \in 1..m : F[k] = cs[k]
      /\ Layered(F, m) /\ Cites(F, m)
      /\ LinesBefore(F, m, Len(F) + 1) = TextUpTo(r)
  BY <1>3, <1>5, <1>7, FlushGives
<1>10. Push(sections, h) = Outline(h)
  <2>1. sections = Outline(u) /\ u = LineAt(r)
    BY <1>5 DEF Gathering
  <2>2. r + 1 <= Len(Text)
    BY <1>8, <1>3, TextFacts
  <2> QED BY <1>1, <1>3, <1>6, <1>8, <2>1, <2>2, NextOutline
<1>11. Gathered(r + 1, <<h>>, 0) /\ Measured(<<h>>, 0, LineTokens(h))
  BY <1>3, <1>8, OneLine
<1>12. PICK b2 : b2 = <<h>>
  OBVIOUS
<1>13. /\ (r + 1) - Len(b2) + 0 = r /\ b2[0 + 1] = h
  BY <1>8, <1>12
<1>14. LineTokens(h) \in Nat
  BY <1>3, <1>8, LineNat
<1>15. base = m /\ IF ChooseStrategy(doc) = "qa" THEN Pairs(F, m, Len(Blocks)) ELSE m = 0
  <2>1. base = m /\ IF ChooseStrategy(doc) = "qa" THEN Pairs(cs, m, Len(Blocks)) ELSE m = 0
    BY <1>5 DEF Gathering
  <2>2. Pairs(cs, m, Len(Blocks)) => Pairs(F, m, Len(Blocks))
    BY <1>9, PairsStay
  <2> QED BY <2>1, <2>2
<1>16. sections' = Outline(h) /\ bufPath' = Outline(h)
  BY <1>1, <1>6, <1>10
<1>17. /\ buf' = b2 /\ Gathered(r + 1, b2, 0) /\ bufPage' = b2[0 + 1] /\ bufTokens' \in Nat
       /\ Measured(b2, 0, bufTokens')
  BY <1>1, <1>6, <1>11, <1>12, <1>13, <1>14
<1>18. /\ chunks' = F /\ base \in 0..Len(F) /\ Layered(F, base) /\ Cites(F, base)
       /\ LinesBefore(F, base, Len(F) + 1) = TextUpTo((r + 1) - Len(b2) + 0)
       /\ IF ChooseStrategy(doc) = "qa" THEN Pairs(F, base, Len(Blocks)) ELSE base = 0
  BY <1>1, <1>7, <1>9, <1>13, <1>15
<1> QED BY <1>1, <1>2, <1>4, <1>8, <1>9, <1>16, <1>17, <1>18, GoesOn

LEMMA TextFitsStep ==
  ASSUME ChunkInv, TextFits
  PROVE  ChunkInv'
<1>1. /\ phase = "structure" /\ todo # <<>> /\ Kind(This) # "heading" /\ ~Full
      /\ buf' = Append(buf, This) /\ bufTokens' = bufTokens + LineTokens(This)
      /\ bufPath' = Path /\ bufPage' = Page
      /\ todo' = Tail(todo) /\ doc' = doc /\ phase' = phase /\ base' = base /\ pending' = pending
      /\ chunks' = chunks /\ sections' = sections
  BY DEF TextFits, Reading, Read
<1>2. ChunkingTypeOK /\ ReadInv
  BY DEF ChunkInv
<1>3. Written /\ todo \in Seq(DOMAIN Blocks) /\ bufTokens \in Nat
  BY <1>2, TypesAre
<1>4. ChooseStrategy(doc) # "row" /\ \E r, u, b, n, cs, m : Gathering(r, u, b, n, cs, m)
  BY <1>1, <1>2 DEF ReadInv
<1>5. PICK r, u, b, n, cs, m : Gathering(r, u, b, n, cs, m)
  BY <1>4
<1>6. PICK h : h = This
  OBVIOUS
<1>8. /\ r \in Nat /\ r + 1 \in 1..Len(Text) /\ r + 1 \in 0..Len(Text)
      /\ h = Text[r + 1] /\ h = LineAt(r + 1) /\ h \in DOMAIN Blocks
      /\ Len(todo') = Len(Text) - (r + 1)
      /\ \A k \in 1..Len(todo') : todo'[k] = Text[(r + 1) + k]
      /\ todo' \in Seq(DOMAIN Blocks)
  BY <1>1, <1>3, <1>5, <1>6, ReadOn
<1>9. /\ buf = b /\ chunks = cs /\ base = m /\ sections = Outline(u) /\ bufPath = Outline(u) /\ u = LineAt(r)
      /\ cs \in Chunks /\ m \in 0..Len(cs) /\ Layered(cs, m) /\ Cites(cs, m)
      /\ IF ChooseStrategy(doc) = "qa" THEN Pairs(cs, m, Len(Blocks)) ELSE m = 0
  BY <1>5 DEF Gathering
<1>10. Outline(h) = Outline(u)
  <2>1. r + 1 <= Len(Text)
    BY <1>8, <1>3, TextFacts
  <2> QED BY <1>1, <1>3, <1>6, <1>8, <1>9, <2>1, NextOutline
<1>11. sections' = Outline(h) /\ bufPath' = Outline(h)
  BY <1>1, <1>9, <1>10 DEF Path
<1>12. LineTokens(h) \in Nat /\ bufTokens' \in Nat /\ bufTokens' = bufTokens + LineTokens(h)
  BY <1>1, <1>3, <1>6, <1>8, LineNat
<1>13. PICK c : c = Append(b, h)
  OBVIOUS
<1>14. \E q : /\ Gathered(r + 1, c, q) /\ bufPage' = c[q + 1] /\ Measured(c, q, bufTokens')
              /\ LinesBefore(cs, m, Len(cs) + 1) = TextUpTo((r + 1) - Len(c) + q)
  <2>1. CASE r = 0
    <3>1. b = <<>> /\ bufTokens = 0 /\ bufPage = 0 /\ Len(cs) = m
      BY <1>5, <2>1 DEF Gathering
    <3>2. c = <<h>>
      BY <1>13, <3>1
    <3>3. Gathered(r + 1, c, 0) /\ Measured(c, 0, LineTokens(h))
      BY <1>3, <1>8, <3>2, OneLine
    <3>4. bufTokens' = LineTokens(h)
      BY <1>12, <3>1
    <3>5. c[0 + 1] = h /\ bufPage' = h /\ (r + 1) - Len(c) + 0 = 0
      BY <1>1, <1>6, <2>1, <3>1, <3>2 DEF Page
    <3>6. LinesBefore(cs, m, Len(cs) + 1) = TextUpTo(0)
      <4>1. Len(cs) \in Nat /\ (m + 1)..(Len(cs) + 1 - 1) = {}
        BY <1>3, <1>9, <3>1, ChunksTyped
      <4> QED BY <4>1 DEF LinesBefore, TextUpTo
    <3>7. /\ Gathered(r + 1, c, 0) /\ bufPage' = c[0 + 1] /\ Measured(c, 0, bufTokens')
          /\ LinesBefore(cs, m, Len(cs) + 1) = TextUpTo((r + 1) - Len(c) + 0)
      BY <3>3, <3>4, <3>5, <3>6
    <3> QED BY <3>7, Zenon
  <2>2. CASE r # 0
    <3>1. r > 0
      BY <1>8, <2>2
    <3>2. /\ Gathered(r, b, n) /\ Measured(b, n, bufTokens) /\ bufPage = b[n + 1]
          /\ LinesBefore(cs, m, Len(cs) + 1) = TextUpTo(r - Len(b) + n)
      BY <1>5, <3>1 DEF Gathering
    <3>3. PICK t : t = bufTokens
      OBVIOUS
    <3>4. Room(t, h) /\ Kind(h) # "heading"
      BY <1>1, <1>6, <3>3 DEF Full, Room
    <3>41. OneMore(c, b, h)
      <4>1. b \in Seq(DOMAIN Blocks)
        BY <3>2 DEF Gathered
      <4> QED BY <1>8, <1>13, <4>1, AppendOne
    <3>42. /\ Written /\ r \in Nat /\ r > 0 /\ r + 1 \in 1..Len(Text) /\ Gathered(r, b, n)
           /\ Measured(b, n, t) /\ h = Text[r + 1] /\ Kind(h) # "heading" /\ Room(t, h)
           /\ OneMore(c, b, h)
      BY <1>3, <1>8, <3>1, <3>2, <3>3, <3>4, <3>41
    <3>51. Gathered(r + 1, c, n)
      BY <3>42, OneLineMore
    <3>52. Measured(c, n, t + LineTokens(h))
      BY <3>42, OneLineMore
    <3>5. c[n + 1] = b[n + 1] /\ (r + 1) - Len(c) + n = r - Len(b) + n
      BY <3>42, OneLineMore
    <3>6. bufPage' = b[n + 1]
      <4>1. b[n + 1] \in DOMAIN Blocks
        <5>1. r \in 1..Len(Text)
          BY <1>3, <1>8, <3>1, TextFacts
        <5> QED BY <1>3, <3>2, <5>1, SameSection
      <4>2. b[n + 1] # 0
        BY <1>3, <4>1, BlockFacts
      <4> QED BY <1>1, <3>2, <4>2 DEF Page
    <3>7. /\ Gathered(r + 1, c, n) /\ bufPage' = c[n + 1] /\ Measured(c, n, bufTokens')
          /\ LinesBefore(cs, m, Len(cs) + 1) = TextUpTo((r + 1) - Len(c) + n)
      BY <1>12, <3>2, <3>3, <3>5, <3>51, <3>52, <3>6
    <3> QED BY <3>7, Zenon
  <2> QED BY <2>1, <2>2
<1>15. PICK q : /\ Gathered(r + 1, c, q) /\ bufPage' = c[q + 1] /\ Measured(c, q, bufTokens')
                /\ LinesBefore(cs, m, Len(cs) + 1) = TextUpTo((r + 1) - Len(c) + q)
  BY <1>14, Zenon
<1>16. /\ buf' = c /\ chunks' = cs
  BY <1>1, <1>6, <1>9, <1>13
<1>17. /\ cs \in Chunks /\ base \in 0..Len(cs) /\ Layered(cs, base) /\ Cites(cs, base)
       /\ LinesBefore(cs, base, Len(cs) + 1) = TextUpTo((r + 1) - Len(c) + q)
       /\ IF ChooseStrategy(doc) = "qa" THEN Pairs(cs, base, Len(Blocks)) ELSE base = 0
  BY <1>9, <1>15
<1>18. /\ Gathered(r + 1, c, q) /\ bufPage' = c[q + 1] /\ Measured(c, q, bufTokens')
  BY <1>15
<1> QED BY <1>1, <1>2, <1>4, <1>8, <1>11, <1>12, <1>16, <1>17, <1>18, GoesOn

\* What the tail T and the line h are counted as.
Anew(T, h) == LineTokens(h) + IF T = <<>> THEN 0 ELSE ContentTokens(T)

\* The first line of a chunk after another that was full.
LEMMA LineAfterTail ==
  ASSUME Written, NEW r \in Nat, r > 0, r + 1 \in 1..Len(Text), NEW b, NEW n, Gathered(r, b, n), buf = b,
         NEW h, h = Text[r + 1], Kind(h) # "heading", NEW T, T = CarriedTail,
         NEW c, OneMore(c, T, h), NEW t, t = Anew(T, h)
  PROVE  \E q : /\ Gathered(r + 1, c, q) /\ Measured(c, q, t) /\ c[q + 1] = h
                /\ (r + 1) - Len(c) + q = r /\ t \in Nat
<1>1. h \in DOMAIN Blocks /\ LineTokens(h) \in Nat
  BY TextFacts, LineNat
<1>2. /\ b \in Seq(DOMAIN Blocks) /\ Len(b) \in Nat /\ Len(b) <= r
      /\ \A k \in 1..Len(b) : b[k] \in DOMAIN Blocks
  BY SeqFacts DEF Gathered
<1>3. PICK q \in 0..Len(b) :
        /\ T \in Seq(DOMAIN Blocks) /\ Len(T) = q
        /\ \A k \in 1..q : T[k] = b[Len(b) - q + k]
        /\ q > 1 => ContentTokens(Tail(T)) < Budget
  BY <1>2, Carried
<1>4. q \in Nat /\ q <= Len(b) /\ q <= r
  BY <1>2, <1>3
<1>6. /\ c \in Seq(DOMAIN Blocks) /\ Len(c) = q + 1 /\ c[q + 1] = h /\ \A k \in 1..q : c[k] = T[k]
  BY <1>3 DEF OneMore
<1>7. Gathered(r + 1, c, q)
  <2>1. Len(c) \in 1..(r + 1) /\ q \in 0..(Len(c) - 1)
    BY <1>4, <1>6
  <2>2. ASSUME NEW k \in 1..Len(c) PROVE c[k] = Text[r + 1 - Len(c) + k]
    <3>1. CASE k \in 1..q
      <4>1. Len(b) - q + k \in 1..Len(b) /\ r - Len(b) + (Len(b) - q + k) = r + 1 - Len(c) + k
        BY <1>2, <1>4, <1>6, <3>1
      <4>2. b[Len(b) - q + k] = Text[r - Len(b) + (Len(b) - q + k)]
        BY <4>1 DEF Gathered
      <4> QED BY <1>3, <1>6, <3>1, <4>1, <4>2
    <3>2. CASE k = q + 1
      <4>1. r + 1 - Len(c) + k = r + 1
        BY <1>4, <1>6, <3>2
      <4> QED BY <1>6, <3>2, <4>1
    <3> QED BY <1>4, <1>6, <3>1, <3>2
  <2>3. ASSUME NEW k \in 2..Len(c) PROVE Kind(c[k]) # "heading"
    <3>1. CASE k \in 2..q
      <4>1. Len(b) - q + k \in 2..Len(b) /\ k \in 1..q
        BY <1>2, <1>4, <3>1
      <4>2. Kind(b[Len(b) - q + k]) # "heading"
        BY <4>1 DEF Gathered
      <4> QED BY <1>3, <1>6, <4>1, <4>2
    <3>2. CASE k = q + 1
      BY <1>6, <3>2
    <3> QED BY <1>4, <1>6, <3>1, <3>2
  <2>4. c \in Seq(DOMAIN Blocks)
    BY <1>6
  <2> QED BY <2>1, <2>2, <2>3, <2>4 DEF Gathered
<1>8. SubSeq(c, 1, q) = T
  <2>1. \A k \in 1..q : c[k] \in DOMAIN Blocks
    <3>1. \A k \in 1..q : k \in 1..Len(c)
      BY <1>4, <1>6
    <3> QED BY <1>6, <3>1, SeqFacts
  <2>2. q - 1 + 1 = q /\ (IF 1 <= q THEN q - 1 + 1 ELSE 0) = q /\ 1 \in Int /\ q \in Int
        /\ \A k \in 1..q : 1 + k - 1 = k
    BY <1>4
  <2>3. PICK x : x = SubSeq(c, 1, q)
    OBVIOUS
  <2>4. x \in Seq(DOMAIN Blocks) /\ Len(x) = q /\ \A k \in 1..q : x[k] = c[1 + k - 1]
    <3>1. /\ SubSeq(c, 1, q) \in Seq(DOMAIN Blocks)
          /\ Len(SubSeq(c, 1, q)) = (IF 1 <= q THEN q - 1 + 1 ELSE 0)
          /\ \A k \in 1..(q - 1 + 1) : SubSeq(c, 1, q)[k] = c[1 + k - 1]
      BY <1>6, <2>1, <2>2, SubSeqProperties
    <3> QED BY <2>2, <2>3, <3>1
  <2>5. \A k \in 1..q : x[k] = T[k]
    BY <1>6, <2>2, <2>4
  <2>6. x = T
    BY <1>3, <2>4, <2>5, SeqEqual
  <2> QED BY <2>3, <2>6
<1>9. Start(c, q) = (IF T = <<>> THEN 0 ELSE ContentTokens(T)) /\ Start(c, q) \in Nat
  <2>1. CASE q = 0
    <3>1. T = <<>>
      BY <1>3, <2>1, EmptySeq
    <3> QED BY <2>1, <3>1 DEF Start
  <2>2. CASE q # 0
    <3>1. T # <<>>
      BY <1>3, <2>2, EmptySeq
    <3>2. ContentTokens(T) \in Nat
      BY <1>3, ContentNat
    <3> QED BY <1>8, <2>2, <3>1, <3>2 DEF Start
  <2> QED BY <2>1, <2>2
<1>10. Counts(c, q + 1, q + 1) = LineTokens(h)
  <2>1. q + 1 \in Nat /\ q \in Nat /\ q + 1 <= q + 1 /\ q < q + 1
    BY <1>4
  <2>2. \A k \in (q + 1)..(q + 1) : c[k] \in DOMAIN Blocks
    BY <1>1, <1>4, <1>6
  <2>3. Counts(c, q + 1, q + 1) = Counts(c, q + 1, q) + LineTokens(c[q + 1])
    BY <2>1, <2>2, CountsOneMore
  <2>4. Counts(c, q + 1, q) = 0
    BY <2>1, CountsNone
  <2> QED BY <1>1, <1>6, <2>3, <2>4
<1>11. t = Start(c, q) + LineTokens(h) /\ t \in Nat
  BY <1>1, <1>9 DEF Anew
<1>12. Measured(c, q, t)
  <2>1. ~(q + 1 < Len(c))
    BY <1>4, <1>6
  <2>2. t = Start(c, q) + Counts(c, q + 1, Len(c))
    BY <1>6, <1>10, <1>11
  <2>3. q > 1 => ContentTokens(Tail(SubSeq(c, 1, q))) < Budget
    BY <1>3, <1>8
  <2> QED BY <2>1, <2>2, <2>3 DEF Measured
<1>13. (r + 1) - Len(c) + q = r
  BY <1>4, <1>6
<1> QED BY <1>6, <1>7, <1>11, <1>12, <1>13

LEMMA TextOverflowsStep ==
  ASSUME ChunkInv, TextOverflows
  PROVE  ChunkInv'
<1>1. /\ phase = "structure" /\ todo # <<>> /\ Kind(This) # "heading" /\ Full
      /\ chunks' = Flushed(Path, Page) /\ buf' = Append(CarriedTail, This)
      /\ bufTokens' = LineTokens(This) + IF CarriedTail = <<>> THEN 0 ELSE ContentTokens(CarriedTail)
      /\ bufPath' = sections /\ bufPage' = This /\ sections' = sections
      /\ todo' = Tail(todo) /\ doc' = doc /\ phase' = phase /\ base' = base /\ pending' = pending
  BY DEF TextOverflows, Reading, Read
<1>2. ChunkingTypeOK /\ ReadInv
  BY DEF ChunkInv
<1>3. Written /\ todo \in Seq(DOMAIN Blocks) /\ bufTokens \in Nat
  BY <1>2, TypesAre
<1>4. ChooseStrategy(doc) # "row" /\ \E r, u, b, n, cs, m : Gathering(r, u, b, n, cs, m)
  BY <1>1, <1>2 DEF ReadInv
<1>5. PICK r, u, b, n, cs, m : Gathering(r, u, b, n, cs, m)
  BY <1>4
<1>6. PICK h : h = This
  OBVIOUS
<1>7. /\ r \in Nat /\ r + 1 \in 1..Len(Text) /\ r + 1 \in 0..Len(Text)
      /\ h = Text[r + 1] /\ h = LineAt(r + 1) /\ h \in DOMAIN Blocks
      /\ Len(todo') = Len(Text) - (r + 1)
      /\ \A k \in 1..Len(todo') : todo'[k] = Text[(r + 1) + k]
      /\ todo' \in Seq(DOMAIN Blocks)
  BY <1>1, <1>3, <1>5, <1>6, ReadOn
<1>8. /\ buf = b /\ base = m /\ sections = Outline(u) /\ bufPath = Outline(u) /\ u = LineAt(r)
      /\ IF ChooseStrategy(doc) = "qa" THEN Pairs(cs, m, Len(Blocks)) ELSE m = 0
  BY <1>5 DEF Gathering
<1>9. r > 0
  <2>1. Minimum \in Nat /\ Minimum > 0
    BY ChunkingAssumption
  <2>2. bufTokens >= Minimum
    BY <1>1 DEF Full
  <2>3. bufTokens # 0
    BY <1>3, <2>1, <2>2
  <2>4. r # 0
    BY <1>5, <2>3 DEF Gathering
  <2> QED BY <1>7, <2>4
<1>10. Gathered(r, b, n) /\ bufPage = b[n + 1]
  BY <1>5, <1>9 DEF Gathering
<1>11. PICK p : p = Path
  OBVIOUS
<1>12. PICK f : f = Page
  OBVIOUS
<1>13. p = bufPath /\ f = bufPage
  <2>1. b[n + 1] \in DOMAIN Blocks
    <3>1. r \in 1..Len(Text)
      BY <1>3, <1>7, <1>9, TextFacts
    <3> QED BY <1>3, <1>10, <3>1, SameSection
  <2>2. b[n + 1] # 0
    BY <1>3, <2>1, BlockFacts
  <2> QED BY <1>8, <1>10, <1>11, <1>12, <2>2 DEF Path, Page
<1>14. PICK F : F = Flushed(p, f)
  OBVIOUS
<1>15. /\ F \in Chunks /\ m \in 0..Len(F) /\ \A k \in 1..m : F[k] = cs[k]
       /\ Layered(F, m) /\ Cites(F, m)
       /\ LinesBefore(F, m, Len(F) + 1) = TextUpTo(r)
  BY <1>3, <1>5, <1>13, <1>14, FlushGives
<1>16. Outline(h) = Outline(u)
  <2>1. r + 1 <= Len(Text)
    BY <1>3, <1>7, TextFacts
  <2> QED BY <1>1, <1>3, <1>6, <1>7, <1>8, <2>1, NextOutline
<1>17. sections' = Outline(h) /\ bufPath' = Outline(h)
  BY <1>1, <1>8, <1>16
<1>18. PICK T : T = CarriedTail
  OBVIOUS
<1>19. PICK c : c = Append(T, h)
  OBVIOUS
<1>20. PICK t : t = Anew(T, h)
  OBVIOUS
<1>21. PICK q : /\ Gathered(r + 1, c, q) /\ Measured(c, q, t) /\ c[q + 1] = h
                /\ (r + 1) - Len(c) + q = r /\ t \in Nat
  <2>1. /\ Written /\ r \in Nat /\ r > 0 /\ r + 1 \in 1..Len(Text) /\ Gathered(r, b, n) /\ buf = b
        /\ h = Text[r + 1] /\ Kind(h) # "heading"
    BY <1>1, <1>3, <1>6, <1>7, <1>8, <1>9, <1>10
  <2>2. b \in Seq(DOMAIN Blocks)
    BY <1>10 DEF Gathered
  <2>3. T \in Seq(DOMAIN Blocks)
    BY <1>3, <1>8, <1>18, <2>2, Carried
  <2>4. OneMore(c, T, h)
    BY <1>7, <1>19, <2>3, AppendOne
  <2> QED BY <1>18, <1>20, <2>1, <2>4, LineAfterTail
<1>22. buf' = c /\ chunks' = F /\ bufTokens' = t /\ bufPage' = c[q + 1]
  BY <1>1, <1>6, <1>11, <1>12, <1>14, <1>18, <1>19, <1>20, <1>21 DEF Anew
<1>23. IF ChooseStrategy(doc) = "qa" THEN Pairs(F, m, Len(Blocks)) ELSE m = 0
  <2>1. Pairs(cs, m, Len(Blocks)) => Pairs(F, m, Len(Blocks))
    BY <1>15, PairsStay
  <2> QED BY <1>8, <2>1
<1>24. /\ Gathered(r + 1, c, q) /\ bufTokens' \in Nat /\ Measured(c, q, bufTokens')
       /\ F \in Chunks /\ base \in 0..Len(F) /\ Layered(F, base) /\ Cites(F, base)
       /\ LinesBefore(F, base, Len(F) + 1) = TextUpTo((r + 1) - Len(c) + q)
       /\ IF ChooseStrategy(doc) = "qa" THEN Pairs(F, base, Len(Blocks)) ELSE base = 0
  BY <1>8, <1>15, <1>21, <1>22, <1>23
<1> QED BY <1>1, <1>2, <1>4, <1>7, <1>17, <1>22, <1>24, GoesOn

LEMMA EndOfStructureStep ==
  ASSUME ChunkInv, EndOfStructure
  PROVE  ChunkInv'
<1>1. /\ phase = "structure" /\ todo = <<>> /\ chunks' = Flushed(bufPath, bufPage)
      /\ buf' = <<>> /\ bufTokens' = 0 /\ bufPage' = 0 /\ phase' = "done" /\ doc' = doc
      /\ todo' = todo /\ base' = base /\ sections' = sections /\ bufPath' = bufPath /\ pending' = pending
  BY DEF EndOfStructure, AllRead
<1>2. ChunkingTypeOK /\ ReadInv
  BY DEF ChunkInv
<1>3. /\ Written /\ todo \in Seq(DOMAIN Blocks) /\ sections \in Seq(DOMAIN Blocks)
      /\ bufPath \in Seq(DOMAIN Blocks) /\ pending \in DOMAIN Blocks \cup {0}
  BY <1>2, TypesAre
<1>4. ChooseStrategy(doc) # "row" /\ \E r, u, b, n, cs, m : Gathering(r, u, b, n, cs, m)
  BY <1>1, <1>2 DEF ReadInv
<1>5. PICK r, u, b, n, cs, m : Gathering(r, u, b, n, cs, m)
  BY <1>4
<1>6. PICK F : F = Flushed(bufPath, bufPage)
  OBVIOUS
<1>7. /\ F \in Chunks /\ m \in 0..Len(F) /\ \A k \in 1..m : F[k] = cs[k]
      /\ Layered(F, m) /\ Cites(F, m)
      /\ LinesBefore(F, m, Len(F) + 1) = TextUpTo(r)
  BY <1>3, <1>5, <1>6, FlushGives
<1>8. base = m /\ IF ChooseStrategy(doc) = "qa" THEN Pairs(F, m, Len(Blocks)) ELSE m = 0
  <2>1. base = m /\ IF ChooseStrategy(doc) = "qa" THEN Pairs(cs, m, Len(Blocks)) ELSE m = 0
    BY <1>5 DEF Gathering
  <2>2. Pairs(cs, m, Len(Blocks)) => Pairs(F, m, Len(Blocks))
    BY <1>7, PairsStay
  <2> QED BY <2>1, <2>2
<1>9. r = Len(Text)
  <2>1. Len(todo) = 0
    BY <1>1
  <2>2. r \in 0..Len(Text) /\ Len(todo) = Len(Text) - r
    BY <1>5 DEF Gathering
  <2> QED BY <1>3, <2>1, <2>2, TextFacts
<1>10. Wanted \subseteq LinesBefore(F, m, Len(F) + 1)
  <2>1. Wanted \subseteq TextUpTo(Len(Text))
    BY <1>3, TextFacts DEF TextUpTo
  <2> QED BY <1>7, <1>9, <2>1
<1>11. Ended(F, m)'
  <2>1. chunks' = F /\ base' = m
    BY <1>1, <1>6, <1>8
  <2>2. /\ F \in Chunks' /\ m \in 0..Len(F) /\ Layered(F, m) /\ Cites(F, m)'
        /\ Wanted' \subseteq LinesBefore(F, m, Len(F) + 1)
    BY <1>1, <1>7, <1>10, Stays, StaysToo
  <2>3. ChooseStrategy(doc') # "row"
    BY <1>1, <1>4
  <2>4. IF ChooseStrategy(doc') = "qa" THEN Pairs(F, m, Len(Blocks))' ELSE m = 0
    <3>1. PICK l : l = Len(Blocks)
      OBVIOUS
    <3>2. Len(Blocks') = l
      BY <1>1, <3>1, Stays
    <3>3. Pairs(F, m, l)' = Pairs(F, m, l)
      BY <1>1, StaysToo
    <3> QED BY <1>1, <1>8, <3>1, <3>2, <3>3
  <2> QED BY <2>1, <2>2, <2>3, <2>4 DEF Ended
<1>12. ReadInv'
  BY <1>1, <1>11 DEF ReadInv
<1>13. ChunkingTypeOK'
  <2>1. base' \in 0..Len(chunks') /\ chunks' \in Chunks
    BY <1>1, <1>6, <1>7, <1>8
  <2> QED BY <1>1, <1>2, <1>3, <2>1, TypesStay
<1> QED BY <1>12, <1>13 DEF ChunkInv

-----------------------------------------------------------------------------
(* chunk_by_row: one step                                                  *)

LEMMA RowWindowHas ==
  ASSUME NEW S, NEW these \in Seq(S), NEW k \in 1..Len(these)
  PROVE  RowWindow(these, k) \in Seq(S) /\ these[k] \in ToSet(RowWindow(these, k))
<1>1. Len(these) \in Nat /\ k \in Nat /\ k >= 1 /\ k <= Len(these) /\ \A i \in 1..Len(these) : these[i] \in S
  BY SeqFacts
<1>2. PICK lo : lo = IF k > RowOverlap THEN k - RowOverlap ELSE 1
  OBVIOUS
<1>3. PICK hi : hi = IF k + RowOverlap < Len(these) THEN k + RowOverlap ELSE Len(these)
  OBVIOUS
<1>4. lo \in Nat /\ hi \in Nat /\ 1 <= lo /\ lo <= k /\ k <= hi /\ hi <= Len(these)
  <2>1. RowOverlap \in Nat
    BY ChunkingAssumption
  <2> QED BY <1>1, <1>2, <1>3, <2>1
<1>5. RowWindow(these, k) = SubSeq(these, lo, hi)
  BY <1>2, <1>3 DEF RowWindow
<1>6. PICK s : s = SubSeq(these, lo, hi)
  OBVIOUS
<1>7. \A i \in lo..hi : these[i] \in S
  <2>1. \A i \in lo..hi : i \in 1..Len(these)
    BY <1>1, <1>4
  <2> QED BY <1>1, <2>1
<1>8. /\ s \in Seq(S) /\ Len(s) = (IF lo <= hi THEN hi - lo + 1 ELSE 0)
      /\ \A i \in 1..(hi - lo + 1) : s[i] = these[lo + i - 1]
  <2>1. lo \in Int /\ hi \in Int
    BY <1>4
  <2> QED BY <1>6, <1>7, <2>1, SubSeqProperties
<1>9. k - lo + 1 \in 1..(hi - lo + 1) /\ lo + (k - lo + 1) - 1 = k
      /\ (IF lo <= hi THEN hi - lo + 1 ELSE 0) = hi - lo + 1
  BY <1>1, <1>4
<1>10. s[k - lo + 1] = these[k] /\ k - lo + 1 \in DOMAIN s
  <2>1. DOMAIN s = 1..Len(s)
    BY <1>8, SeqFacts
  <2> QED BY <1>8, <1>9, <2>1
<1>11. these[k] \in ToSet(s)
  BY <1>10 DEF ToSet
<1> QED BY <1>5, <1>6, <1>8, <1>11

LEMMA SheetTyped ==
  ASSUME Written, NEW i
  PROVE  SheetOf(i) \in Seq(DOMAIN Blocks)
<1> DEFINE titles == {h \in DOMAIN Blocks : Kind(h) = "heading" /\ (doc.xlsx => h < i)}
<1>1. Len(Blocks) \in Nat /\ titles \subseteq DOMAIN Blocks /\ DOMAIN Blocks = 1..Len(Blocks)
  BY BlockFacts
<1>2. SheetOf(i) =
        CASE titles = {} -> <<>>
          [] titles # {} /\ doc.xlsx -> <<CHOOSE h \in titles : \A g \in titles : g <= h>>
          [] OTHER -> <<CHOOSE h \in titles : \A g \in titles : h <= g>>
  BY Zenon DEF SheetOf
<1> HIDE DEF titles
<1>3. ASSUME titles # {}
      PROVE  /\ (CHOOSE h \in titles : \A g \in titles : g <= h) \in titles
             /\ (CHOOSE h \in titles : \A g \in titles : h <= g) \in titles
  <2>1. titles \in SUBSET Nat /\ titles \in SUBSET (0..Len(Blocks))
    BY <1>1
  <2>2. \E h \in titles : \A g \in titles : g <= h
    BY <1>1, <1>3, <2>1, GreatestNumber
  <2>3. \E h \in titles : \A g \in titles : h <= g
    BY <1>3, <2>1, LeastNumber
  <2> QED BY <2>2, <2>3
<1>4. PICK x : x = CHOOSE h \in titles : \A g \in titles : g <= h
  OBVIOUS
<1>5. PICK y : y = CHOOSE h \in titles : \A g \in titles : h <= g
  OBVIOUS
<1>6. SheetOf(i) = <<>> \/ (titles # {} /\ SheetOf(i) = <<x>>) \/ (titles # {} /\ SheetOf(i) = <<y>>)
  BY <1>2, <1>4, <1>5
<1>7. titles # {} => x \in DOMAIN Blocks /\ y \in DOMAIN Blocks
  BY <1>1, <1>3, <1>4, <1>5
<1>8. <<>> \in Seq(DOMAIN Blocks)
  BY EmptySeq
<1>9. titles # {} => <<x>> \in Seq(DOMAIN Blocks) /\ <<y>> \in Seq(DOMAIN Blocks)
  BY <1>7
<1> QED BY <1>6, <1>8, <1>9, Zenon

LEMMA RowsStep ==
  ASSUME ChunkInv, Rows
  PROVE  ChunkInv'
<1> DEFINE these == Of({"row"})
           C == [lines : Seq(DOMAIN Blocks), path : Seq(DOMAIN Blocks), first : DOMAIN Blocks,
                 strategy : {"structure", "row", "qa"}]
           G == [k \in DOMAIN these |-> Chunk(RowWindow(these, k), SheetOf(these[k]), these[k], "row")]
<1>1. /\ phase = "row" /\ chunks' = G /\ todo' = <<>> /\ phase' = "done" /\ doc' = doc
      /\ base' = base /\ sections' = sections /\ buf' = buf /\ bufTokens' = bufTokens
      /\ bufPath' = bufPath /\ bufPage' = bufPage /\ pending' = pending
  BY DEF Rows
<1>2. ChunkingTypeOK /\ ReadInv
  BY DEF ChunkInv
<1>3. /\ Written /\ sections \in Seq(DOMAIN Blocks) /\ bufPath \in Seq(DOMAIN Blocks)
      /\ buf \in Seq(DOMAIN Blocks) /\ bufTokens \in Nat
      /\ bufPage \in DOMAIN Blocks \cup {0} /\ pending \in DOMAIN Blocks \cup {0}
  BY <1>2, TypesAre
<1>4. ChooseStrategy(doc) = "row" /\ base = 0
  BY <1>1, <1>2 DEF ReadInv
<1>5. Ascends(these, {i \in DOMAIN Blocks : Kind(i) \in {"row"}})
  BY <1>3, OfAscends
<1>6. /\ these \in Seq(DOMAIN Blocks)
      /\ \A i \in DOMAIN Blocks : Kind(i) = "row" => \E k \in DOMAIN these : these[k] = i
  <2>1. {i \in DOMAIN Blocks : Kind(i) \in {"row"}} \subseteq DOMAIN Blocks
    OBVIOUS
  <2> QED BY <1>5, <2>1, SeqMonotonic DEF Ascends
<1> HIDE DEF these
<1>7. DOMAIN these = 1..Len(these) /\ Len(these) \in Nat /\ \A k \in DOMAIN these : these[k] \in DOMAIN Blocks
  BY <1>6, SeqFacts
<1>8. ASSUME NEW k \in DOMAIN these
      PROVE  /\ G[k] \in C /\ G[k].strategy = "row" /\ these[k] \in ToSet(G[k].lines)
  <2>1. RowWindow(these, k) \in Seq(DOMAIN Blocks) /\ these[k] \in ToSet(RowWindow(these, k))
    BY <1>6, <1>7, RowWindowHas
  <2>2. SheetOf(these[k]) \in Seq(DOMAIN Blocks)
    BY <1>3, SheetTyped
  <2>3. G[k] = Chunk(RowWindow(these, k), SheetOf(these[k]), these[k], "row")
    OBVIOUS
  <2> HIDE DEF G
  <2> QED BY <1>7, <2>1, <2>2, <2>3 DEF Chunk
<1>9. G \in Seq(C) /\ Len(G) = Len(these)
  <2>1. DOMAIN G = 1..Len(these)
    BY <1>7
  <2>2. \A k \in 1..Len(these) : G[k] \in C
    BY <1>7, <1>8
  <2>3. G = [k \in 1..Len(these) |-> G[k]]
    BY <1>7
  <2> HIDE DEF G, C
  <2>4. G \in [1..Len(these) -> C]
    BY <2>1, <2>2, <2>3
  <2> QED BY <1>7, <2>4
<1>10. PICK F : F = G
  OBVIOUS
<1>11. F \in Chunks /\ Len(F) \in Nat
  BY <1>7, <1>9, <1>10 DEF Chunks
<1>12. \A k \in 1..Len(F) : F[k].strategy = "row"
  BY <1>7, <1>8, <1>9, <1>10
<1>13. \A i \in DOMAIN Blocks : Kind(i) = "row" => \E k \in 1..Len(F) : i \in ToSet(F[k].lines)
  BY <1>6, <1>7, <1>8, <1>9, <1>10
<1> HIDE DEF G, C
<1>14. Ended(F, 0)'
  <2>1. chunks' = F /\ base' = 0
    BY <1>1, <1>4, <1>10
  <2>2. F \in Chunks' /\ 0 \in 0..Len(F)
    BY <1>1, <1>11, Stays
  <2>3. \A i \in DOMAIN Blocks' : Kind(i)' = "row" => \E k \in 1..Len(F) : i \in ToSet(F[k].lines)
    BY <1>1, <1>13, Stays
  <2>4. ChooseStrategy(doc') = "row"
    BY <1>1, <1>4
  <2> QED BY <1>12, <2>1, <2>2, <2>3, <2>4 DEF Ended
<1>15. ReadInv'
  BY <1>1, <1>14 DEF ReadInv
<1>16. ChunkingTypeOK'
  <2>1. base' \in 0..Len(chunks') /\ chunks' \in Chunks
    BY <1>1, <1>4, <1>10, <1>11
  <2>2. todo' \in Seq(DOMAIN Blocks)
    BY <1>1, EmptySeq
  <2> QED BY <1>1, <1>2, <1>3, <2>1, <2>2, TypesStay
<1> QED BY <1>15, <1>16 DEF ChunkInv

-----------------------------------------------------------------------------
(* chunk_by_qa: one step                                                   *)

\* The next block is read.
LEMMA AskOn ==
  ASSUME Written, NEW j, NEW cs, Asking(j, cs), todo \in Seq(DOMAIN Blocks), todo # <<>>
  PROVE  /\ j \in Nat /\ j + 1 \in 0..Len(Blocks) /\ j + 1 \in DOMAIN Blocks /\ This = j + 1
         /\ Tail(todo) \in Seq(DOMAIN Blocks) /\ Len(Tail(todo)) = Len(Blocks) - (j + 1)
         /\ \A k \in 1..Len(Tail(todo)) : Tail(todo)[k] = (j + 1) + k
<1>1. /\ j \in 0..Len(Blocks) /\ Len(Blocks) \in Nat /\ DOMAIN Blocks = 1..Len(Blocks)
      /\ Len(todo) = Len(Blocks) - j /\ \A k \in 1..Len(todo) : todo[k] = j + k
  BY BlockFacts DEF Asking
<1>2. Len(todo) \in Nat \ {0}
  BY EmptySeq
<1>3. /\ Tail(todo) \in Seq(DOMAIN Blocks) /\ Len(Tail(todo)) = Len(todo) - 1
      /\ \A k \in 1..Len(Tail(todo)) : Tail(todo)[k] = todo[k + 1]
  BY HeadTailProperties
<1>4. Head(todo) = todo[1]
  OBVIOUS
<1>5. PICK l : l = Len(Blocks)
  OBVIOUS
<1>6. PICK t : t = Len(todo)
  OBVIOUS
<1>7. j \in Nat /\ l \in Nat /\ t \in Nat /\ t # 0 /\ t = l - j /\ Len(Tail(todo)) = t - 1
  <2>1. j \in 0..l /\ l \in Nat /\ t = l - j
    BY <1>1, <1>5, <1>6
  <2>2. t \in Nat /\ t # 0 /\ Len(Tail(todo)) = t - 1
    BY <1>2, <1>3, <1>6
  <2> QED BY <2>1, <2>2
<1>8. j + 1 \in 0..l /\ j + 1 \in 1..l /\ t - 1 = l - (j + 1) /\ 1 \in 1..t
  BY <1>7
<1>9. j + 1 \in 0..Len(Blocks) /\ j + 1 \in DOMAIN Blocks
  BY <1>1, <1>5, <1>8
<1>10. This = j + 1
  BY <1>1, <1>4, <1>6, <1>8 DEF This
<1>11. Len(Tail(todo)) = Len(Blocks) - (j + 1)
  BY <1>5, <1>7, <1>8
<1>12. ASSUME NEW k \in 1..Len(Tail(todo)) PROVE Tail(todo)[k] = (j + 1) + k
  <2>1. k \in 1..(t - 1)
    BY <1>7
  <2>2. k + 1 \in 1..t /\ j + (k + 1) = (j + 1) + k
    BY <1>7, <2>1
  <2>3. Tail(todo)[k] = todo[k + 1]
    BY <1>3
  <2> QED BY <1>1, <1>6, <2>2, <2>3
<1> QED BY <1>3, <1>7, <1>9, <1>10, <1>11, <1>12

LEMMA OutlineOfNext ==
  ASSUME Written, NEW j \in Nat, NEW i \in DOMAIN Blocks, i = j + 1
  PROVE  /\ Kind(i) = "heading" => Push(Outline(j), i) = Outline(i)
         /\ Kind(i) # "heading" => Outline(i) = Outline(j)
<1>1. j < i /\ i \in Nat /\ \A g \in DOMAIN Blocks : ~(j < g /\ g < i) /\ (j < g /\ g <= i => g = i)
  BY BlockFacts
<1>2. Kind(i) = "heading" => Push(Outline(j), i) = Outline(i)
  BY <1>1, PushIsOutline
<1>3. Kind(i) # "heading" => Outline(i) = Outline(j)
  BY <1>1, OutlineStays
<1> QED BY <1>2, <1>3

\* Who waits is who the next block, if an answer, answers.
LEMMA AnsweredNext ==
  ASSUME NEW j \in Nat, NEW p \in 0..j, Waits(p, j)
  PROVE  \A q : q \in Answered(j + 1) <=> q = p /\ p # 0
<1>1. (j + 1) - 1 = j
  OBVIOUS
<1>2. \A q : q \in Answered(j + 1) <=>
        q \in 1..j /\ Kind(q) = "question" /\ \A k \in (q + 1)..j : Kind(k) \notin {"question", "answer"}
  BY <1>1 DEF Answered
<1>3. \A q : q \in Answered(j + 1) <=> q \in 1..j /\ q = p
  BY <1>2 DEF Waits
<1> QED BY <1>3

LEMMA WaitsOn ==
  ASSUME NEW j \in Nat, NEW p \in 0..j, Waits(p, j)
  PROVE  /\ Kind(j + 1) = "question" => Waits(j + 1, j + 1)
         /\ Kind(j + 1) = "answer" => Waits(0, j + 1)
         /\ Kind(j + 1) \notin {"question", "answer"} => Waits(p, j + 1)
<1> DEFINE Latest(q, n) == Kind(q) = "question" /\ \A k \in (q + 1)..n : Kind(k) \notin {"question", "answer"}
<1>1. \A q \in 1..(j + 1) : q \in 1..j \/ q = j + 1
  OBVIOUS
<1>2. ASSUME Kind(j + 1) \in {"question", "answer"}, NEW q \in 1..j PROVE ~Latest(q, j + 1)
  <2>1. j + 1 \in (q + 1)..(j + 1)
    OBVIOUS
  <2> QED BY <1>2, <2>1
<1>3. ASSUME Kind(j + 1) \notin {"question", "answer"}, NEW q \in 1..j PROVE Latest(q, j + 1) <=> Latest(q, j)
  <2>1. \A k : k \in (q + 1)..(j + 1) <=> k \in (q + 1)..j \/ k = j + 1
    OBVIOUS
  <2> QED BY <1>3, <2>1
<1>4. Latest(j + 1, j + 1) <=> Kind(j + 1) = "question"
  <2>1. (j + 1 + 1)..(j + 1) = {}
    OBVIOUS
  <2> QED BY <2>1
<1>5. \A n, m \in Nat : Waits(n, m) <=> \A q \in 1..m : (q = n) <=> Latest(q, m)
  BY DEF Waits
<1> HIDE DEF Latest
<1>6. \A q \in 1..j : (q = p) <=> Latest(q, j)
  BY <1>5
<1>7. \A q \in 1..j : q # j + 1 /\ q # 0
  OBVIOUS
<1>8. p # j + 1 /\ j + 1 # 0 /\ j + 1 \in Nat /\ p \in Nat /\ 0 \in Nat
  OBVIOUS
<1>9. Kind(j + 1) = "question" => Waits(j + 1, j + 1)
  <2>1. HAVE Kind(j + 1) = "question"
  <2>2. \A q \in 1..(j + 1) : (q = j + 1) <=> Latest(q, j + 1)
    BY <2>1, <1>1, <1>2, <1>4, <1>7
  <2> QED BY <1>5, <1>8, <2>2
<1>10. Kind(j + 1) = "answer" => Waits(0, j + 1)
  <2>1. HAVE Kind(j + 1) = "answer"
  <2>2. \A q \in 1..(j + 1) : (q = 0) <=> Latest(q, j + 1)
    BY <2>1, <1>1, <1>2, <1>4, <1>7, <1>8
  <2> QED BY <1>5, <1>8, <2>2
<1>11. Kind(j + 1) \notin {"question", "answer"} => Waits(p, j + 1)
  <2>1. HAVE Kind(j + 1) \notin {"question", "answer"}
  <2>2. \A q \in 1..(j + 1) : (q = p) <=> Latest(q, j + 1)
    BY <2>1, <1>1, <1>3, <1>4, <1>6, <1>8
  <2> QED BY <1>5, <1>8, <2>2
<1> QED BY <1>9, <1>10, <1>11

\* No chunk is due for the next block.
LEMMA PairsOn ==
  ASSUME Written, NEW j \in Nat, NEW cs, NEW m, Pairs(cs, m, j),
         Kind(j + 1) = "answer" => \A q : q \notin Answered(j + 1)
  PROVE  Pairs(cs, m, j + 1)
<1>1. \A i \in DOMAIN Blocks : i \in Nat /\ (i <= j => i <= j + 1) /\ (i <= j + 1 => i <= j \/ i = j + 1)
  BY BlockFacts
<1>2. \A k \in 1..m : Pair(cs[k], j + 1)
  BY <1>1 DEF Pairs, Pair
<1>3. Paired(cs, m, j + 1)
  BY <1>1 DEF Pairs, Paired
<1>4. \A k, l \in 1..m : k < l => cs[k].lines[2] < cs[l].lines[2]
  BY DEF Pairs
<1> QED BY <1>2, <1>3, <1>4 DEF Pairs

\* What a step of chunk_by_qa has to show.
LEMMA AsksOn ==
  ASSUME ChunkingTypeOK, doc' = doc, phase = "qa", phase' = phase, ChooseStrategy(doc) = "qa",
         base = 0, base' = base, NothingGathered,
         buf' = buf, bufTokens' = bufTokens, bufPath' = bufPath, bufPage' = bufPage,
         NEW i \in DOMAIN Blocks, i \in 0..Len(Blocks), todo' \in Seq(DOMAIN Blocks),
         Len(todo') = Len(Blocks) - i, \A k \in 1..Len(todo') : todo'[k] = i + k,
         sections' = Outline(i), NEW cs \in Chunks, chunks' = cs, \A k \in 1..Len(cs) : cs[k].strategy = "qa",
         Pairs(cs, Len(cs), i), NEW p, pending' = p, Waits(p, i), p \in 0..i
  PROVE  ChunkInv'
<1>1. /\ Written /\ bufPath \in Seq(DOMAIN Blocks) /\ buf \in Seq(DOMAIN Blocks) /\ bufTokens \in Nat
      /\ bufPage \in DOMAIN Blocks \cup {0}
  BY TypesAre
<1>2. Outline(i) \in Seq(DOMAIN Blocks)
  BY <1>1, OutlineTyped
<1>3. Len(cs) \in Nat
  BY <1>1, ChunksTyped
<1>4. p \in DOMAIN Blocks \cup {0}
  <2>1. DOMAIN Blocks = 1..Len(Blocks) /\ Len(Blocks) \in Nat
    BY <1>1, BlockFacts
  <2> QED BY <2>1
<1>5. ChunkingTypeOK'
  <2>1. base' \in 0..Len(chunks') /\ chunks' \in Chunks
    BY <1>3
  <2>2. phase' \in {"qa", "row", "structure", "done"}
    OBVIOUS
  <2> QED BY <1>1, <1>2, <1>4, <2>1, <2>2, TypesStay
<1>6. Asking(i, cs)'
  <2>1. NothingGathered'
    BY DEF NothingGathered
  <2>2. PICK l : l = Len(Blocks)
    OBVIOUS
  <2>3. Len(Blocks') = l
    BY <2>2, Stays
  <2>4. i \in 0..Len(Blocks') /\ Len(todo') = Len(Blocks') - i
    BY <2>2, <2>3
  <2>5. sections' = Outline(i)' /\ cs \in Chunks'
    BY Stays
  <2>6. Pairs(cs, Len(cs), i)' /\ Waits(p, i)'
    BY StaysToo
  <2> QED BY <2>1, <2>4, <2>5, <2>6 DEF Asking
<1>7. ReadInv'
  <2>1. \E j1, cs1 : Asking(j1, cs1)'
    BY <1>6
  <2>2. ChooseStrategy(doc') = "qa"
    OBVIOUS
  <2> QED BY <2>1, <2>2 DEF ReadInv
<1> QED BY <1>5, <1>7 DEF ChunkInv

Asks(j, cs) ==
  /\ ChunkingTypeOK /\ Written /\ ChooseStrategy(doc) = "qa" /\ Asking(j, cs)
  /\ todo \in Seq(DOMAIN Blocks)

LEMMA AskingNow ==
  ASSUME ChunkInv, phase = "qa"
  PROVE  \E j, cs : Asks(j, cs)
<1>1. ChunkingTypeOK /\ ReadInv
  BY DEF ChunkInv
<1>2. Written /\ todo \in Seq(DOMAIN Blocks)
  BY <1>1, TypesAre
<1>3. ChooseStrategy(doc) = "qa" /\ \E j, cs : Asking(j, cs)
  BY <1>1 DEF ReadInv
<1> QED BY <1>1, <1>2, <1>3 DEF Asks

\* A block that makes no chunk.
LEMMA NoChunkStep ==
  ASSUME NEW j, NEW cs, Asks(j, cs), phase = "qa", todo # <<>>, doc' = doc, phase' = phase, base' = base,
         buf' = buf, bufTokens' = bufTokens, bufPath' = bufPath, bufPage' = bufPage,
         todo' = Tail(todo), chunks' = chunks,
         Kind(This) = "answer" => pending = 0,
         NEW s, s = (IF Kind(This) = "heading" THEN Push(sections, This) ELSE sections), sections' = s,
         NEW p, p = (IF Kind(This) = "question" THEN This ELSE pending), pending' = p
  PROVE  ChunkInv'
<1>1. /\ ChunkingTypeOK /\ Written /\ ChooseStrategy(doc) = "qa" /\ Asking(j, cs)
      /\ todo \in Seq(DOMAIN Blocks)
  BY DEF Asks
<1>2. /\ chunks = cs /\ cs \in Chunks /\ base = 0 /\ NothingGathered
      /\ \A k \in 1..Len(cs) : cs[k].strategy = "qa"
      /\ sections = Outline(j) /\ Pairs(cs, Len(cs), j) /\ Waits(pending, j) /\ pending \in 0..j
  BY <1>1 DEF Asking
<1>3. /\ j \in Nat /\ j + 1 \in 0..Len(Blocks) /\ j + 1 \in DOMAIN Blocks /\ This = j + 1
      /\ todo' \in Seq(DOMAIN Blocks) /\ Len(todo') = Len(Blocks) - (j + 1)
      /\ \A k \in 1..Len(todo') : todo'[k] = (j + 1) + k
  BY <1>1, AskOn
<1>4. PICK i : i = j + 1
  OBVIOUS
<1>5. s = Outline(i)
  BY <1>1, <1>2, <1>3, <1>4, OutlineOfNext
<1>6. Kind(i) = "answer" => \A q : q \notin Answered(i)
  BY <1>2, <1>3, <1>4, AnsweredNext
<1>7. Pairs(cs, Len(cs), i)
  BY <1>1, <1>2, <1>3, <1>4, <1>6, PairsOn
<1>8. p \in 0..i
  BY <1>2, <1>3, <1>4
<1>9. Waits(p, i)
  <2>1. /\ Kind(i) = "question" => Waits(i, i)
        /\ Kind(i) = "answer" => Waits(0, i)
        /\ Kind(i) \notin {"question", "answer"} => Waits(pending, i)
    BY <1>2, <1>3, <1>4, WaitsOn
  <2>2. Kind(i) = "question" => p = i
    BY <1>3, <1>4
  <2>3. Kind(i) = "answer" => p = 0
    BY <1>3, <1>4
  <2>4. Kind(i) \notin {"question", "answer"} => p = pending
    BY <1>3, <1>4
  <2> QED BY <2>1, <2>2, <2>3, <2>4
<1>10. /\ i \in DOMAIN Blocks /\ i \in 0..Len(Blocks) /\ Len(todo') = Len(Blocks) - i
       /\ \A k \in 1..Len(todo') : todo'[k] = i + k
  BY <1>3, <1>4
<1> QED BY <1>1, <1>2, <1>3, <1>5, <1>7, <1>8, <1>9, <1>10, AsksOn

LEMMA QaHeadingStep ==
  ASSUME ChunkInv, QaHeading
  PROVE  ChunkInv'
<1>1. /\ phase = "qa" /\ todo # <<>> /\ Kind(This) = "heading" /\ sections' = Push(sections, This)
      /\ todo' = Tail(todo) /\ doc' = doc /\ phase' = phase /\ chunks' = chunks /\ base' = base
      /\ buf' = buf /\ bufTokens' = bufTokens /\ bufPath' = bufPath /\ bufPage' = bufPage /\ pending' = pending
  BY DEF QaHeading, Reading, Read
<1>2. PICK j, cs : Asks(j, cs)
  BY <1>1, AskingNow
<1>3. /\ sections' = (IF Kind(This) = "heading" THEN Push(sections, This) ELSE sections)
      /\ pending' = (IF Kind(This) = "question" THEN This ELSE pending)
      /\ Kind(This) = "answer" => pending = 0
  BY <1>1
<1> QED BY <1>1, <1>2, <1>3, NoChunkStep

LEMMA QuestionStep ==
  ASSUME ChunkInv, Question
  PROVE  ChunkInv'
<1>1. /\ phase = "qa" /\ todo # <<>> /\ Kind(This) = "question" /\ pending' = This
      /\ todo' = Tail(todo) /\ doc' = doc /\ phase' = phase /\ chunks' = chunks /\ base' = base
      /\ buf' = buf /\ bufTokens' = bufTokens /\ bufPath' = bufPath /\ bufPage' = bufPage /\ sections' = sections
  BY DEF Question, Reading, Read
<1>2. PICK j, cs : Asks(j, cs)
  BY <1>1, AskingNow
<1>3. /\ sections' = (IF Kind(This) = "heading" THEN Push(sections, This) ELSE sections)
      /\ pending' = (IF Kind(This) = "question" THEN This ELSE pending)
      /\ Kind(This) = "answer" => pending = 0
  BY <1>1
<1> QED BY <1>1, <1>2, <1>3, NoChunkStep

LEMMA PassOverStep ==
  ASSUME ChunkInv, PassOver
  PROVE  ChunkInv'
<1>1. /\ phase = "qa" /\ todo # <<>> /\ Kind(This) \in {"para", "row", "answer"} /\ pending' = pending
      /\ Kind(This) = "answer" => pending = 0
      /\ todo' = Tail(todo) /\ doc' = doc /\ phase' = phase /\ chunks' = chunks /\ base' = base
      /\ buf' = buf /\ bufTokens' = bufTokens /\ bufPath' = bufPath /\ bufPage' = bufPage /\ sections' = sections
  BY DEF PassOver, Reading, Read
<1>2. PICK j, cs : Asks(j, cs)
  BY <1>1, AskingNow
<1>3. /\ sections' = (IF Kind(This) = "heading" THEN Push(sections, This) ELSE sections)
      /\ pending' = (IF Kind(This) = "question" THEN This ELSE pending)
  BY <1>1
<1> QED BY <1>1, <1>2, <1>3, NoChunkStep

\* The answer and the question that waits for it become a chunk.
LEMMA PairsGrow ==
  ASSUME Written, NEW j \in Nat, NEW i \in DOMAIN Blocks, i = j + 1, Kind(i) = "answer",
         NEW cs, NEW m \in Nat, Pairs(cs, m, j),
         NEW p \in DOMAIN Blocks, \A q : q \in Answered(i) <=> q = p,
         NEW F, \A k \in 1..m : F[k] = cs[k], NEW c, c = F[m + 1],
         c.lines = <<p, i>>, c.path = Outline(i)
  PROVE  Pairs(F, m + 1, i)
<1>1. \A x \in DOMAIN Blocks : x \in Nat /\ (x <= j => x <= i /\ x < i) /\ (x <= i => x <= j \/ x = i)
  BY BlockFacts
<1>2. \A k \in 1..(m + 1) : k \in 1..m \/ k = m + 1
  OBVIOUS
<1>3. \A k \in 1..m : Pair(F[k], j) /\ Pair(F[k], i)
  <2>1. \A k \in 1..m : Pair(F[k], j)
    BY DEF Pairs
  <2> QED BY <1>1, <2>1 DEF Pair
<1>4. Pair(c, i)
  <2>1. i <= i
    BY <1>1
  <2>2. p \in Answered(i)
    OBVIOUS
  <2> QED BY <2>1, <2>2 DEF Pair
<1>5. \A k \in 1..(m + 1) : Pair(F[k], i)
  BY <1>2, <1>3, <1>4
<1>6. \A k \in 1..m : F[k].lines[2] < c.lines[2]
  <2>1. c.lines[2] = i
    OBVIOUS
  <2> TAKE k \in 1..m
  <2>2. PICK q, a \in DOMAIN Blocks : F[k].lines = <<q, a>> /\ a <= j
    BY <1>3 DEF Pair
  <2>3. F[k].lines[2] = a
    BY <2>2
  <2> QED BY <1>1, <2>1, <2>2, <2>3
<1>7. \A k, l \in 1..(m + 1) : k < l => F[k].lines[2] < F[l].lines[2]
  <2>1. \A k, l \in 1..m : k < l => F[k].lines[2] < F[l].lines[2]
    BY DEF Pairs
  <2>2. \A k, l \in 1..(m + 1) : k < l => k \in 1..m /\ (l \in 1..m \/ l = m + 1)
    OBVIOUS
  <2> QED BY <1>6, <2>1, <2>2
<1>8. Paired(F, m + 1, i)
  <2>1. ASSUME NEW a \in DOMAIN Blocks, Kind(a) = "answer", a <= i, NEW q \in Answered(a)
        PROVE  \E k \in 1..(m + 1) : F[k].lines = <<q, a>>
    <3>1. CASE a <= j
      <4>1. PICK k \in 1..m : cs[k].lines = <<q, a>>
        BY <2>1, <3>1 DEF Pairs, Paired
      <4>2. k \in 1..(m + 1)
        OBVIOUS
      <4> QED BY <4>1, <4>2
    <3>2. CASE a = i
      <4>1. q = p /\ m + 1 \in 1..(m + 1)
        BY <2>1, <3>2
      <4> QED BY <3>2, <4>1
    <3> QED BY <1>1, <2>1, <3>1, <3>2
  <2> QED BY <2>1 DEF Paired
<1> QED BY <1>5, <1>7, <1>8 DEF Pairs

LEMMA AnswerStep ==
  ASSUME ChunkInv, Answer
  PROVE  ChunkInv'
<1>1. /\ phase = "qa" /\ todo # <<>> /\ Kind(This) = "answer" /\ pending # 0
      /\ chunks' = Append(chunks, Chunk(<<pending, This>>, sections, pending, "qa")) /\ pending' = 0
      /\ todo' = Tail(todo) /\ doc' = doc /\ phase' = phase /\ base' = base
      /\ buf' = buf /\ bufTokens' = bufTokens /\ bufPath' = bufPath /\ bufPage' = bufPage /\ sections' = sections
  BY DEF Answer, Reading, Read
<1>2. PICK j, cs : Asks(j, cs)
  BY <1>1, AskingNow
<1>3. /\ ChunkingTypeOK /\ Written /\ ChooseStrategy(doc) = "qa" /\ Asking(j, cs)
      /\ todo \in Seq(DOMAIN Blocks)
  BY <1>2 DEF Asks
<1>4. /\ chunks = cs /\ cs \in Chunks /\ base = 0 /\ NothingGathered
      /\ \A k \in 1..Len(cs) : cs[k].strategy = "qa"
      /\ sections = Outline(j) /\ Pairs(cs, Len(cs), j) /\ Waits(pending, j) /\ pending \in 0..j
  BY <1>3 DEF Asking
<1>5. /\ j \in Nat /\ j + 1 \in 0..Len(Blocks) /\ j + 1 \in DOMAIN Blocks /\ This = j + 1
      /\ todo' \in Seq(DOMAIN Blocks) /\ Len(todo') = Len(Blocks) - (j + 1)
      /\ \A k \in 1..Len(todo') : todo'[k] = (j + 1) + k
  BY <1>1, <1>3, AskOn
<1>6. PICK i : i = j + 1
  OBVIOUS
<1>7. PICK p : p = pending
  OBVIOUS
<1>8. p # 0 /\ p \in 0..j /\ p \in DOMAIN Blocks
  <2>1. pending \in DOMAIN Blocks \cup {0}
    BY <1>3, TypesAre
  <2> QED BY <1>1, <1>4, <1>7, <2>1
<1>9. \A q : q \in Answered(i) <=> q = p
  <2>1. Waits(p, j)
    BY <1>4, <1>7
  <2> QED BY <1>5, <1>6, <1>8, <2>1, AnsweredNext
<1>10. Outline(j) = Outline(i) /\ Kind(i) = "answer" /\ i \in DOMAIN Blocks
  <2>1. Kind(i) = "answer" /\ i \in DOMAIN Blocks
    BY <1>1, <1>5, <1>6
  <2> QED BY <1>3, <1>5, <1>6, <2>1, OutlineOfNext
<1>11. PICK c : c = Chunk(<<p, i>>, Outline(i), p, "qa")
  OBVIOUS
<1>12. c.lines = <<p, i>> /\ c.path = Outline(i) /\ c.first = p /\ c.strategy = "qa"
  BY <1>11 DEF Chunk
<1>13. PICK F : F = Append(cs, c)
  OBVIOUS
<1>14. F \in Chunks /\ Len(F) = Len(cs) + 1 /\ F[Len(cs) + 1] = c /\ Len(cs) \in Nat
       /\ \A k \in 1..Len(cs) : F[k] = cs[k]
  <2>1. Outline(i) \in Seq(DOMAIN Blocks) /\ <<p, i>> \in Seq(DOMAIN Blocks)
    BY <1>3, <1>8, <1>10, OutlineTyped
  <2>2. c \in [lines : Seq(DOMAIN Blocks), path : Seq(DOMAIN Blocks), first : DOMAIN Blocks,
               strategy : {"structure", "row", "qa"}]
    BY <1>8, <1>11, <2>1 DEF Chunk
  <2>3. Append(cs, c) \in Chunks /\ Len(Append(cs, c)) = Len(cs) + 1 /\ Append(cs, c)[Len(cs) + 1] = c
        /\ \A k \in 1..Len(cs) : Append(cs, c)[k] = cs[k]
    BY <1>4, <2>2, AppendProperties DEF Chunks
  <2>4. Len(cs) \in Nat
    BY <1>3, <1>4, ChunksTyped
  <2> QED BY <1>13, <2>3, <2>4
<1>15. Pairs(F, Len(cs) + 1, i)
  <2>1. PICK m : m = Len(cs)
    OBVIOUS
  <2>2. m \in Nat /\ Pairs(cs, m, j) /\ (\A k \in 1..m : F[k] = cs[k]) /\ c = F[m + 1]
    BY <1>4, <1>14, <2>1
  <2>3. /\ Written /\ j \in Nat /\ i \in DOMAIN Blocks /\ i = j + 1 /\ Kind(i) = "answer"
        /\ m \in Nat /\ Pairs(cs, m, j) /\ p \in DOMAIN Blocks /\ (\A q : q \in Answered(i) <=> q = p)
        /\ (\A k \in 1..m : F[k] = cs[k]) /\ c = F[m + 1] /\ c.lines = <<p, i>> /\ c.path = Outline(i)
    BY <1>3, <1>5, <1>6, <1>8, <1>9, <1>10, <1>12, <2>2
  <2>4. Pairs(F, m + 1, i)
    BY <2>3, PairsGrow
  <2> QED BY <2>1, <2>4
<1>16. \A k \in 1..Len(F) : F[k].strategy = "qa"
  <2>1. \A k \in 1..(Len(cs) + 1) : k \in 1..Len(cs) \/ k = Len(cs) + 1
    BY <1>14
  <2> QED BY <1>4, <1>12, <1>14, <2>1
<1>17. chunks' = F /\ sections' = Outline(i)
  BY <1>1, <1>4, <1>5, <1>6, <1>7, <1>10, <1>11, <1>13
<1>18. Waits(0, i) /\ 0 \in 0..i
  <2>1. Kind(j + 1) = "answer"
    BY <1>6, <1>10
  <2>2. Waits(0, j + 1)
    BY <1>4, <1>5, <2>1, WaitsOn
  <2> QED BY <1>5, <1>6, <2>2
<1>19. /\ i \in DOMAIN Blocks /\ i \in 0..Len(Blocks) /\ Len(todo') = Len(Blocks) - i
       /\ \A k \in 1..Len(todo') : todo'[k] = i + k
  BY <1>5, <1>6
<1>20. Pairs(F, Len(F), i)
  BY <1>14, <1>15
<1> QED BY <1>1, <1>3, <1>4, <1>5, <1>14, <1>16, <1>17, <1>18, <1>19, <1>20, AsksOn

LEMMA EndOfQaStep ==
  ASSUME ChunkInv, EndOfQa
  PROVE  ChunkInv'
<1>1. /\ phase = "qa" /\ todo = <<>> /\ todo' = Of(Prose)
      /\ phase' = IF Of(Prose) = <<>> THEN "done" ELSE "structure"
      /\ base' = Len(chunks) /\ sections' = <<>> /\ pending' = 0 /\ doc' = doc /\ chunks' = chunks
      /\ buf' = buf /\ bufTokens' = bufTokens /\ bufPath' = bufPath /\ bufPage' = bufPage
  BY DEF EndOfQa, AllRead
<1>2. PICK j, cs : Asks(j, cs)
  BY <1>1, AskingNow
<1>3. /\ ChunkingTypeOK /\ Written /\ ChooseStrategy(doc) = "qa" /\ Asking(j, cs)
  BY <1>2 DEF Asks
<1>4. /\ chunks = cs /\ cs \in Chunks /\ NothingGathered
      /\ \A k \in 1..Len(cs) : cs[k].strategy = "qa"
      /\ Pairs(cs, Len(cs), j)
  BY <1>3 DEF Asking
<1>5. buf = <<>> /\ bufTokens = 0 /\ bufPath = <<>> /\ bufPage = 0
  BY <1>4 DEF NothingGathered
<1>6. PICK m : m = Len(cs)
  OBVIOUS
<1>7. PICK l : l = Len(Blocks)
  OBVIOUS
<1>8. m \in Nat /\ l \in Nat /\ j = l /\ Pairs(cs, m, l)
  <2>1. Len(todo) = 0
    BY <1>1
  <2>2. j \in 0..l /\ Len(todo) = l - j
    BY <1>3, <1>7 DEF Asking
  <2>3. l \in Nat
    BY <1>3, <1>7, BlockFacts
  <2>4. j = l
    BY <2>1, <2>2, <2>3
  <2>5. m \in Nat
    BY <1>3, <1>4, <1>6, ChunksTyped
  <2> QED BY <1>4, <1>6, <2>3, <2>4, <2>5
<1>9. Layered(cs, m)
  <2>1. \A k \in 1..Len(cs) : k <= m
    BY <1>6, <1>8
  <2> QED BY <1>4, <2>1 DEF Layered
<1>10. Cites(cs, m) /\ m \in 0..Len(cs)
  <2>1. (m + 1)..Len(cs) = {} /\ m \in 0..Len(cs)
    BY <1>6, <1>8
  <2> QED BY <2>1 DEF Cites
<1>11. Text = Of(Prose) /\ Text \in Seq(DOMAIN Blocks) /\ Len(Text) \in Nat
  BY <1>3, TextFacts DEF Text
<1>12. Outline(0) = <<>>
  BY <1>3, NoneOpen
<1>13. /\ cs \in Chunks' /\ Layered(cs, m) /\ Cites(cs, m)' /\ Pairs(cs, m, l)' /\ l = Len(Blocks')
       /\ chunks' = cs /\ base' = m /\ ChooseStrategy(doc') = "qa" /\ Text' = Text
       /\ Wanted' = Wanted
  BY <1>1, <1>3, <1>4, <1>6, <1>7, <1>8, <1>9, <1>10, Stays, StaysToo
<1>14. ChunkingTypeOK'
  <2>1. base' \in 0..Len(chunks') /\ chunks' \in Chunks
    BY <1>4, <1>10, <1>13
  <2>2. phase' \in {"qa", "row", "structure", "done"}
    BY <1>1
  <2>3. /\ bufPath \in Seq(DOMAIN Blocks) /\ buf \in Seq(DOMAIN Blocks) /\ bufTokens \in Nat
        /\ bufPage \in DOMAIN Blocks \cup {0}
    BY <1>3, TypesAre
  <2>4. sections' \in Seq(DOMAIN Blocks) /\ todo' \in Seq(DOMAIN Blocks) /\ pending' \in DOMAIN Blocks \cup {0}
    BY <1>1, <1>11, EmptySeq
  <2> QED BY <1>1, <1>3, <2>1, <2>2, <2>3, <2>4, TypesStay
<1>15. CASE Of(Prose) = <<>>
  <2>1. Wanted = {}
    <3>1. Len(Text) = 0 /\ 1..Len(Text) = {}
      BY <1>11, <1>15
    <3> QED BY <1>3, <3>1, TextFacts
  <2>2. Wanted' \subseteq LinesBefore(cs, m, Len(cs) + 1)
    BY <1>13, <2>1
  <2>3. Ended(cs, m)'
    BY <1>10, <1>13, <2>2 DEF Ended
  <2>4. phase' = "done"
    BY <1>1, <1>15
  <2>5. ReadInv'
    BY <2>3, <2>4 DEF ReadInv
  <2> QED BY <1>14, <2>5 DEF ChunkInv
<1>16. CASE Of(Prose) # <<>>
  <2>1. Gathering(0, 0, <<>>, 0, cs, m)'
    <3>1. 0 \in 0..Len(Text') /\ 0 = LineAt(0)'
      BY <1>11, <1>13 DEF LineAt
    <3>2. Len(todo') = Len(Text') - 0
      BY <1>1, <1>11, <1>13
    <3>3. \A k \in 1..Len(todo') : todo'[k] = Text'[0 + k]
      <4>1. \A k \in 1..Len(todo') : 0 + k = k
        OBVIOUS
      <4> QED BY <1>1, <1>11, <1>13, <4>1
    <3>4. sections' = Outline(0)' /\ bufPath' = Outline(0)'
      BY <1>1, <1>5, <1>12, Stays
    <3>5. buf' = <<>> /\ bufTokens' = 0 /\ bufPage' = 0 /\ Len(cs) = m /\ ~(0 > 0)
      BY <1>1, <1>5, <1>6
    <3> QED BY <1>10, <1>13, <3>1, <3>2, <3>3, <3>4, <3>5 DEF Gathering
  <2>2. phase' = "structure"
    BY <1>1, <1>16
  <2>3. \E r1, u1, b1, n1, cs1, m1 : Gathering(r1, u1, b1, n1, cs1, m1)'
    BY <2>1
  <2>4. ReadInv'
    BY <1>13, <2>2, <2>3 DEF ReadInv
  <2> QED BY <1>14, <2>4 DEF ChunkInv
<1> QED BY <1>15, <1>16

LEMMA NothingRead ==
  ASSUME chunkingVars' = chunkingVars, ChunkInv
  PROVE  ChunkInv'
<1>1. /\ doc' = doc /\ phase' = phase /\ todo' = todo /\ chunks' = chunks /\ base' = base
      /\ sections' = sections /\ buf' = buf /\ bufTokens' = bufTokens /\ bufPath' = bufPath
      /\ bufPage' = bufPage /\ pending' = pending
  BY DEF chunkingVars
<1>2. ChunkingTypeOK /\ ReadInv
  BY DEF ChunkInv
<1>3. ChunkingTypeOK'
  BY <1>1, <1>2 DEF ChunkingTypeOK, Blocks
<1>4. PICK l : l = Len(Blocks)
  OBVIOUS
<1>5. l = Len(Blocks') /\ (DOMAIN Blocks)' = DOMAIN Blocks
  BY <1>1, <1>4, Stays
<1>6. \A j, cs : Asking(j, cs) => Asking(j, cs)'
  <2> TAKE j, cs
  <2>1. HAVE Asking(j, cs)
  <2>2. PICK s, p : s = sections /\ p = pending
    OBVIOUS
  <2>3. NothingGathered'
    BY <1>1, <2>1 DEF Asking, NothingGathered
  <2>4. s = Outline(j)' /\ cs \in Chunks'
    BY <1>1, <2>1, <2>2, Stays DEF Asking
  <2>5. Pairs(cs, Len(cs), j)' /\ Waits(p, j)'
    BY <1>1, <2>1, <2>2, StaysToo DEF Asking
  <2>6. j \in 0..Len(Blocks') /\ Len(todo') = Len(Blocks') - j
    BY <1>1, <1>4, <1>5, <2>1 DEF Asking
  <2> QED BY <1>1, <2>1, <2>2, <2>3, <2>4, <2>5, <2>6 DEF Asking
<1>7. \A r, u, b, n, cs, m : Gathering(r, u, b, n, cs, m) => Gathering(r, u, b, n, cs, m)'
  <2> TAKE r, u, b, n, cs, m
  <2>1. HAVE Gathering(r, u, b, n, cs, m)
  <2>2. PICK t : t = bufTokens
    OBVIOUS
  <2>3. r \in 0..Len(Text') /\ u = LineAt(r)' /\ Len(todo') = Len(Text') - r /\ \A k \in 1..Len(todo') : todo'[k] = Text'[r + k]
    BY <1>1, <2>1, Stays DEF Gathering
  <2>4. sections' = Outline(u)' /\ bufPath' = Outline(u)'
    BY <1>1, <2>1, Stays DEF Gathering
  <2>5. cs \in Chunks' /\ Cites(cs, m)'
    BY <1>1, <2>1, Stays, StaysToo DEF Gathering
  <2>6. r > 0 => /\ Gathered(r, b, n)' /\ Measured(b, n, t)' /\ bufPage = b[n + 1]
                 /\ LinesBefore(cs, m, Len(cs) + 1) = TextUpTo(r - Len(b) + n)'
    BY <1>1, <2>1, <2>2, Stays, StaysToo DEF Gathering
  <2>7. IF ChooseStrategy(doc') = "qa" THEN Pairs(cs, m, Len(Blocks))' ELSE m = 0
    <3>1. Pairs(cs, m, l)' = Pairs(cs, m, l)
      BY <1>1, StaysToo
    <3>2. IF ChooseStrategy(doc) = "qa" THEN Pairs(cs, m, l) ELSE m = 0
      BY <1>4, <2>1 DEF Gathering
    <3> QED BY <1>1, <1>5, <3>1, <3>2
  <2> QED BY <1>1, <2>1, <2>2, <2>3, <2>4, <2>5, <2>6, <2>7 DEF Gathering
<1>8. \A cs, m : Ended(cs, m) => Ended(cs, m)'
  <2> TAKE cs, m
  <2>1. HAVE Ended(cs, m)
  <2>2. cs \in Chunks' /\ Cites(cs, m)' = Cites(cs, m) /\ Wanted' = Wanted /\ \A i : Kind(i)' = Kind(i)
    BY <1>1, <2>1, Stays, StaysToo DEF Ended
  <2>3. IF ChooseStrategy(doc') = "qa" THEN Pairs(cs, m, Len(Blocks))' ELSE m = 0
    <3>1. Pairs(cs, m, l)' = Pairs(cs, m, l)
      BY <1>1, StaysToo
    <3>2. IF ChooseStrategy(doc) = "qa" THEN Pairs(cs, m, l) ELSE m = 0
      BY <1>4, <2>1 DEF Ended
    <3> QED BY <1>1, <1>5, <3>1, <3>2
  <2> QED BY <1>1, <1>5, <2>1, <2>2, <2>3 DEF Ended
<1>9. ReadInv'
  <2>1. phase' = "qa" => ChooseStrategy(doc') = "qa" /\ \E j, cs : Asking(j, cs)'
    BY <1>1, <1>2, <1>6 DEF ReadInv
  <2>2. phase' = "row" => ChooseStrategy(doc') = "row" /\ chunks' = <<>> /\ base' = 0
    BY <1>1, <1>2 DEF ReadInv
  <2>3. phase' = "structure" =>
          ChooseStrategy(doc') # "row" /\ \E r, u, b, n, cs, m : Gathering(r, u, b, n, cs, m)'
    BY <1>1, <1>2, <1>7 DEF ReadInv
  <2>4. phase' = "done" => \E cs, m : Ended(cs, m)'
    BY <1>1, <1>2, <1>8 DEF ReadInv
  <2> QED BY <2>1, <2>2, <2>3, <2>4 DEF ReadInv
<1> QED BY <1>3, <1>9 DEF ChunkInv

LEMMA ChunkInitial ==
  ASSUME ChunkingInit
  PROVE  ChunkInv
<1>1. /\ doc \in [xlsx : BOOLEAN, blocks : Seq(Block)] /\ phase = ChooseStrategy(doc)
      /\ todo = [i \in DOMAIN Blocks |-> i] /\ chunks = <<>> /\ base = 0 /\ sections = <<>>
      /\ buf = <<>> /\ bufTokens = 0 /\ bufPath = <<>> /\ bufPage = 0 /\ pending = 0
  BY ChunkingAssumption DEF ChunkingInit, Blocks
<1>2. Written /\ Len(Blocks) \in Nat /\ DOMAIN Blocks = 1..Len(Blocks)
  BY <1>1, BlockFacts DEF Written
<1>3. ChooseStrategy(doc) \in {"qa", "row", "structure"}
  BY DEF ChooseStrategy
<1>4. todo \in Seq(DOMAIN Blocks) /\ Len(todo) = Len(Blocks) /\ \A k \in 1..Len(Blocks) : todo[k] = k
  <2>1. PICK D : D = DOMAIN Blocks
    OBVIOUS
  <2>2. todo \in [1..Len(Blocks) -> D] /\ \A k \in 1..Len(Blocks) : todo[k] = k
    BY <1>1, <1>2, <2>1
  <2> QED BY <1>2, <2>1, <2>2
<1>5. PICK cs : cs = chunks
  OBVIOUS
<1>6. cs \in Chunks /\ cs = <<>> /\ Len(cs) = 0 /\ 0 \in 0..Len(cs) /\ 1..Len(cs) = {}
  <2>1. cs = <<>> /\ Len(cs) = 0
    BY <1>1, <1>5
  <2>2. cs \in Chunks
    BY <2>1, EmptySeq DEF Chunks
  <2>3. 0 \in 0..0 /\ 1..0 = {}
    OBVIOUS
  <2> QED BY <2>1, <2>2, <2>3
<1>7. ChunkingTypeOK
  <2>1. phase \in {"qa", "row", "structure", "done"}
    BY <1>1, <1>3
  <2>2. base \in 0..Len(chunks)
    BY <1>1, <1>5, <1>6
  <2>3. <<>> \in Seq(DOMAIN Blocks)
    BY EmptySeq
  <2> QED BY <1>1, <1>4, <1>5, <1>6, <2>1, <2>2, <2>3 DEF ChunkingTypeOK, Chunks
<1>8. Outline(0) = <<>>
  BY <1>2, NoneOpen
<1>9. Pairs(cs, 0, 0)
  <2>1. 1..0 = {} /\ \A i \in DOMAIN Blocks : ~(i <= 0)
    BY <1>2
  <2>2. Paired(cs, 0, 0)
    BY <2>1 DEF Paired
  <2> QED BY <2>1, <2>2 DEF Pairs
<1>10. Asking(0, cs)
  <2>1. Waits(pending, 0) /\ pending \in 0..0
    <3>1. 1..0 = {} /\ 0 \in 0..0
      OBVIOUS
    <3> QED BY <1>1, <3>1 DEF Waits
  <2>2. Len(todo) = Len(Blocks) - 0 /\ \A k \in 1..Len(todo) : todo[k] = 0 + k
    BY <1>2, <1>4
  <2>3. 0 \in 0..Len(Blocks)
    BY <1>2
  <2>4. NothingGathered
    BY <1>1 DEF NothingGathered
  <2> QED BY <1>1, <1>5, <1>6, <1>8, <1>9, <2>1, <2>2, <2>3, <2>4 DEF Asking
<1>11. ChooseStrategy(doc) = "structure" => Gathering(0, 0, <<>>, 0, cs, 0)
  <2>1. HAVE ChooseStrategy(doc) = "structure"
  <2>2. Text = todo
    BY <1>1, <1>2, <2>1, AllIsText
  <2>3. 0 \in 0..Len(Text) /\ 0 = LineAt(0)
    BY <1>2, <1>4, <2>2 DEF LineAt
  <2>4. Len(todo) = Len(Text) - 0 /\ \A k \in 1..Len(todo) : todo[k] = Text[0 + k]
    BY <1>2, <1>4, <2>2
  <2>5. Layered(cs, 0)
    BY <1>6 DEF Layered
  <2>6. Cites(cs, 0)
    <3>1. (0 + 1)..Len(cs) = {}
      BY <1>6
    <3> QED BY <3>1 DEF Cites
  <2>7. ~(0 > 0) /\ ChooseStrategy(doc) # "qa"
    BY <2>1
  <2> QED BY <1>1, <1>5, <1>6, <1>8, <2>3, <2>4, <2>5, <2>6, <2>7 DEF Gathering
<1>12. ReadInv
  <2>1. phase # "done"
    BY <1>1, <1>3
  <2>2. \E j1, cs1 : Asking(j1, cs1)
    BY <1>10
  <2>3. phase = "structure" => \E r1, u1, b1, n1, cs1, m1 : Gathering(r1, u1, b1, n1, cs1, m1)
    BY <1>1, <1>11
  <2> QED BY <1>1, <2>1, <2>2, <2>3 DEF ReadInv
<1> QED BY <1>7, <1>12 DEF ChunkInv

LEMMA ChunkStep == ChunkInv /\ [ChunkingNext]_chunkingVars => ChunkInv'
<1> SUFFICES ASSUME ChunkInv, [ChunkingNext]_chunkingVars
             PROVE  ChunkInv'
  OBVIOUS
<1>1. CASE Heading
  BY <1>1, HeadingStep
<1>2. CASE TextFits
  BY <1>2, TextFitsStep
<1>3. CASE TextOverflows
  BY <1>3, TextOverflowsStep
<1>4. CASE EndOfStructure
  BY <1>4, EndOfStructureStep
<1>5. CASE Rows
  BY <1>5, RowsStep
<1>6. CASE QaHeading
  BY <1>6, QaHeadingStep
<1>7. CASE Question
  BY <1>7, QuestionStep
<1>8. CASE Answer
  BY <1>8, AnswerStep
<1>9. CASE PassOver
  BY <1>9, PassOverStep
<1>10. CASE EndOfQa
  BY <1>10, EndOfQaStep
<1>11. CASE Done
  BY <1>11, NothingRead DEF Done
<1>12. CASE UNCHANGED chunkingVars
  BY <1>12, NothingRead
<1> QED BY <1>1, <1>2, <1>3, <1>4, <1>5, <1>6, <1>7, <1>8, <1>9, <1>10, <1>11, <1>12 DEF ChunkingNext

\* The chunks of text cite what is new in them.
LEMMA CitesAreRight ==
  ASSUME Written, NEW cs \in Chunks, chunks = cs, NEW m \in 0..Len(cs), Layered(cs, m), Cites(cs, m)
  PROVE  \A k \in Structured :
           LET c == chunks[k]
               earlier == UNION {ToSet(chunks[n].lines) : n \in 1..(k - 1) \cap Structured}
               new == ToSet(c.lines) \ earlier
           IN /\ c.first \in new /\ \A l \in new : c.first <= l
              /\ c.path = Outline(c.first)
<1>1. Len(cs) \in Nat /\ DOMAIN cs = 1..Len(cs) /\ m \in Nat
  BY ChunksTyped
<1>2. Structured = (m + 1)..Len(cs)
  <2>1. \A k \in 1..Len(cs) : cs[k].strategy = "structure" <=> ~(k <= m)
    BY DEF Layered
  <2>2. \A k : k \in (m + 1)..Len(cs) <=> k \in 1..Len(cs) /\ ~(k <= m)
    BY <1>1
  <2> QED BY <1>1, <2>1, <2>2 DEF Structured
<1>3. SUFFICES ASSUME NEW k \in (m + 1)..Len(cs)
               PROVE  LET c == cs[k]
                          earlier == UNION {ToSet(cs[n].lines) : n \in 1..(k - 1) \cap Structured}
                          new == ToSet(c.lines) \ earlier
                      IN /\ c.first \in new /\ \A l \in new : c.first <= l
                         /\ c.path = Outline(c.first)
  BY <1>2
<1>4. 1..(k - 1) \cap Structured = (m + 1)..(k - 1)
  BY <1>1, <1>2
<1>5. UNION {ToSet(cs[n].lines) : n \in 1..(k - 1) \cap Structured} = LinesBefore(cs, m, k)
  BY <1>4, Zenon DEF LinesBefore
<1>6. PICK f \in DOMAIN Blocks :
        /\ f = cs[k].first /\ cs[k].path = Outline(f)
        /\ f \in ToSet(cs[k].lines) \ LinesBefore(cs, m, k)
        /\ \A l \in ToSet(cs[k].lines) \ LinesBefore(cs, m, k) : f <= l
  BY DEF Cites
<1> QED BY <1>5, <1>6

LEMMA PathsHold ==
  ASSUME ChunkInv
  PROVE  PathsFollowOutline
<1>1. ChunkingTypeOK /\ ReadInv
  BY DEF ChunkInv
<1>2. Written /\ phase \in {"qa", "row", "structure", "done"}
  BY <1>1, TypesAre DEF ChunkingTypeOK
<1>3. ASSUME NEW cs \in Chunks, chunks = cs, base = 0,
             \A k \in 1..Len(cs) : cs[k].strategy \in {"qa", "row"}
      PROVE  PathsFollowOutline
  <2>1. Structured = {}
    BY <1>2, <1>3, ChunksTyped DEF Structured
  <2>2. 1..base = {}
    BY <1>3
  <2> QED BY <2>1, <2>2 DEF PathsFollowOutline
<1>4. ASSUME NEW cs \in Chunks, chunks = cs, NEW m \in 0..Len(cs), base = m, Layered(cs, m), Cites(cs, m),
             IF ChooseStrategy(doc) = "qa" THEN Pairs(cs, m, Len(Blocks)) ELSE m = 0
      PROVE  PathsFollowOutline
  <2>1. \A k \in 1..base : chunks[k].path = Outline(chunks[k].lines[2])
    <3>1. ASSUME NEW k \in 1..m PROVE cs[k].path = Outline(cs[k].lines[2])
      <4>1. Len(cs) \in Nat
        BY <1>2, ChunksTyped
      <4>2. m # 0
        BY <4>1
      <4>3. Pair(cs[k], Len(Blocks))
        BY <1>4, <4>2 DEF Pairs
      <4>4. PICK q, i \in DOMAIN Blocks : cs[k].lines = <<q, i>> /\ cs[k].path = Outline(i)
        BY <4>3 DEF Pair
      <4>5. cs[k].lines[2] = i
        BY <4>4
      <4> QED BY <4>4, <4>5
    <3> QED BY <1>4, <3>1
  <2> QED BY <1>2, <1>4, <2>1, CitesAreRight DEF PathsFollowOutline
<1>5. CASE phase = "qa"
  <2>1. PICK j, cs : Asking(j, cs)
    BY <1>1, <1>5 DEF ReadInv
  <2>2. chunks = cs /\ cs \in Chunks /\ base = 0 /\ \A k \in 1..Len(cs) : cs[k].strategy = "qa"
    BY <2>1 DEF Asking
  <2> QED BY <1>3, <2>2
<1>6. CASE phase = "row"
  <2>1. chunks = <<>> /\ base = 0
    BY <1>1, <1>6 DEF ReadInv
  <2>2. chunks \in Chunks /\ 1..Len(chunks) = {}
    BY <1>1, <2>1, TypesAre
  <2> QED BY <1>3, <2>1, <2>2
<1>7. CASE phase = "structure"
  <2>1. PICK r, u, b, n, cs, m : Gathering(r, u, b, n, cs, m)
    BY <1>1, <1>7 DEF ReadInv
  <2>2. /\ cs \in Chunks /\ chunks = cs /\ m \in 0..Len(cs) /\ base = m /\ Layered(cs, m) /\ Cites(cs, m)
        /\ IF ChooseStrategy(doc) = "qa" THEN Pairs(cs, m, Len(Blocks)) ELSE m = 0
    BY <2>1 DEF Gathering
  <2> QED BY <1>4, <2>2
<1>8. CASE phase = "done"
  <2>1. PICK cs, m : Ended(cs, m)
    BY <1>1, <1>8 DEF ReadInv
  <2>2. /\ cs \in Chunks /\ chunks = cs /\ m \in 0..Len(cs) /\ base = m
        /\ IF ChooseStrategy(doc) = "qa" THEN Pairs(cs, m, Len(Blocks)) ELSE m = 0
    BY <2>1 DEF Ended
  <2>3. CASE ChooseStrategy(doc) = "row"
    <3>1. m = 0 /\ \A k \in 1..Len(cs) : cs[k].strategy = "row"
      BY <2>1, <2>3 DEF Ended
    <3> QED BY <1>3, <2>2, <3>1
  <2>4. CASE ChooseStrategy(doc) # "row"
    <3>1. Layered(cs, m) /\ Cites(cs, m)
      BY <2>1, <2>4 DEF Ended
    <3> QED BY <1>4, <2>2, <3>1
  <2> QED BY <2>3, <2>4
<1> QED BY <1>2, <1>5, <1>6, <1>7, <1>8

LEMMA BoundsHold ==
  ASSUME ChunkInv
  PROVE  BufferKeepsBounds
<1> SUFFICES ASSUME phase = "structure", buf # <<>>
             PROVE  LET read == Len(Text) - Len(todo)
                        n == Cardinality({k \in DOMAIN buf : buf[k] < bufPage})
                        overlap == SubSeq(buf, 1, n)
                    IN /\ Len(buf) <= read
                       /\ buf = SubSeq(Text, read - Len(buf) + 1, read)
                       /\ \A k \in 2..Len(buf) : Kind(buf[k]) # "heading"
                       /\ bufPath = Outline(buf[Len(buf)])
                       /\ n > 1 => ContentTokens(Tail(overlap)) < Budget
                       /\ n + 1 < Len(buf) =>
                            (IF n = 0 THEN 0 ELSE ContentTokens(overlap))
                              + SumFunction([k \in (n + 1)..(Len(buf) - 1) |-> LineTokens(buf[k])]) <= Target
  BY Zenon DEF BufferKeepsBounds, Text
<1>1. ChunkingTypeOK /\ ReadInv
  BY DEF ChunkInv
<1>2. Written
  BY <1>1, TypesAre
<1>3. PICK r, u, b, n, cs, m : Gathering(r, u, b, n, cs, m)
  BY <1>1 DEF ReadInv
<1>4. /\ Len(Text) \in Nat /\ Text \in Seq(DOMAIN Blocks)
      /\ r \in 0..Len(Text) /\ Len(todo) = Len(Text) - r /\ buf = b /\ u = LineAt(r) /\ bufPath = Outline(u)
  BY <1>2, <1>3, TextFacts DEF Gathering
<1>5. r > 0
  <2>1. r # 0
    BY <1>3, <1>4 DEF Gathering
  <2> QED BY <1>4, <2>1
<1>6. Gathered(r, b, n) /\ Measured(b, n, bufTokens) /\ bufPage = b[n + 1]
  BY <1>3, <1>5 DEF Gathering
<1>7. /\ b \in Seq(DOMAIN Blocks) /\ Len(b) \in Nat /\ Len(b) >= 1 /\ Len(b) <= r /\ n \in Nat /\ n + 1 <= Len(b)
      /\ r \in Nat /\ r \in 1..Len(Text) /\ DOMAIN b = 1..Len(b)
      /\ \A k \in 1..Len(b) : b[k] = Text[r - Len(b) + k]
  BY <1>4, <1>5, <1>6, SeqFacts DEF Gathered
<1>8. PICK lo : lo = r - Len(b) + 1
  OBVIOUS
<1>9. lo \in Nat /\ lo >= 1 /\ lo <= r /\ r - lo + 1 = Len(b) /\ \A k \in 1..Len(b) : lo + k - 1 = r - Len(b) + k
  BY <1>7, <1>8
<1>10. b = SubSeq(Text, lo, r)
  <2>1. \A k \in lo..r : Text[k] \in DOMAIN Blocks
    <3>1. \A k \in lo..r : k \in 1..Len(Text)
      BY <1>4, <1>9
    <3> QED BY <1>2, <3>1, TextFacts
  <2>2. PICK s : s = SubSeq(Text, lo, r)
    OBVIOUS
  <2>3. /\ SubSeq(Text, lo, r) \in Seq(DOMAIN Blocks)
        /\ Len(SubSeq(Text, lo, r)) = (IF lo <= r THEN r - lo + 1 ELSE 0)
        /\ \A k \in 1..(r - lo + 1) : SubSeq(Text, lo, r)[k] = Text[lo + k - 1]
    <3>1. lo \in Int /\ r \in Int
      BY <1>7, <1>9
    <3> QED BY <1>4, <2>1, <3>1, SubSeqProperties
  <2>4. s \in Seq(DOMAIN Blocks) /\ Len(s) = Len(b) /\ \A k \in 1..Len(b) : s[k] = Text[r - Len(b) + k]
    BY <1>9, <2>2, <2>3
  <2>5. \A k \in 1..Len(b) : s[k] = b[k]
    BY <1>7, <2>4
  <2>6. s = b
    BY <1>7, <2>4, <2>5, SeqEqual
  <2> QED BY <2>2, <2>6
<1>11. Cardinality({k \in DOMAIN buf : buf[k] < bufPage}) = n
  <2>1. \A k, l \in 1..Len(b) : k < l => b[k] < b[l]
    <3> TAKE k, l \in 1..Len(b)
    <3>1. HAVE k < l
    <3>2. /\ r - Len(b) + k \in 1..Len(Text) /\ r - Len(b) + l \in 1..Len(Text)
          /\ r - Len(b) + k < r - Len(b) + l
      BY <1>4, <1>7, <3>1
    <3>3. Text[r - Len(b) + k] < Text[r - Len(b) + l]
      BY <1>2, <3>2, TextFacts
    <3> QED BY <1>7, <3>3
  <2>2. \A k \in 1..Len(b) : b[k] \in Nat
    BY <1>2, <1>7, SeqFacts, BlockFacts
  <2>3. n + 1 \in 1..Len(b) /\ \A k \in 1..Len(b) : (k <= n => k < n + 1) /\ (~(k <= n) => k = n + 1 \/ n + 1 < k)
    BY <1>7
  <2>4. \A k \in 1..Len(b) : b[k] < b[n + 1] <=> k <= n
    BY <2>1, <2>2, <2>3
  <2>5. \A k : k \in 1..n <=> k \in 1..Len(b) /\ k <= n
    BY <1>7
  <2>6. {k \in DOMAIN buf : buf[k] < bufPage} = 1..n
    BY <1>4, <1>6, <1>7, <2>4, <2>5
  <2>7. Cardinality(1..n) = n
    <3>1. 1 \in Int /\ n \in Int /\ (IF 1 > n THEN 0 ELSE n - 1 + 1) = n
      BY <1>7
    <3> QED BY <3>1, FS_Interval
  <2> QED BY <2>6, <2>7
<1>12. PICK read : read = Len(Text) - Len(todo)
  OBVIOUS
<1>13. read = r
  BY <1>4, <1>7, <1>12
<1>14. bufPath = Outline(b[Len(b)])
  <2>1. r - Len(b) + Len(b) = r /\ Len(b) \in 1..Len(b)
    BY <1>7
  <2>2. b[Len(b)] = Text[r]
    BY <1>7, <2>1
  <2> QED BY <1>4, <1>5, <2>2 DEF LineAt
<1>15. \A k \in 2..Len(b) : Kind(b[k]) # "heading"
  BY <1>6 DEF Gathered
<1>16. n > 1 => ContentTokens(Tail(SubSeq(b, 1, n))) < Budget
  BY <1>6 DEF Measured
<1>17. n + 1 < Len(b) =>
         (IF n = 0 THEN 0 ELSE ContentTokens(SubSeq(b, 1, n)))
           + SumFunction([k \in (n + 1)..(Len(b) - 1) |-> LineTokens(b[k])]) <= Target
  BY <1>6, Zenon DEF Measured, Start, Counts
<1>18. Len(b) <= r /\ b = SubSeq(Text, r - Len(b) + 1, r)
  BY <1>7, <1>8, <1>10
<1> HIDE DEF Text
<1> QED BY <1>4, <1>11, <1>12, <1>13, <1>14, <1>15, <1>16, <1>17, <1>18, Zenon

LEMMA NothingIsLost ==
  ASSUME ChunkInv
  PROVE  NothingLost
<1> DEFINE Has(i) == \E k \in DOMAIN chunks : i \in ToSet(chunks[k].lines)
<1> SUFFICES ASSUME phase = "done"
             PROVE  /\ ChooseStrategy(doc) = "structure" => \A i \in DOMAIN Blocks : Has(i)
                    /\ ChooseStrategy(doc) = "row" => \A i \in DOMAIN Blocks : Kind(i) = "row" => Has(i)
                    /\ ChooseStrategy(doc) = "qa" =>
                         /\ \A i \in DOMAIN Blocks : Kind(i) \in Prose => Has(i)
                         /\ \A k \in 1..base : chunks[k].lines[1] \in Answered(chunks[k].lines[2])
                         /\ \A i \in DOMAIN Blocks : Kind(i) = "answer" =>
                              \A q \in Answered(i) :
                                Cardinality({k \in 1..base : chunks[k].lines = <<q, i>>}) = 1
  BY DEF NothingLost
<1>1. ChunkingTypeOK /\ ReadInv
  BY DEF ChunkInv
<1>2. Written
  BY <1>1, TypesAre
<1>3. PICK cs, m : Ended(cs, m)
  BY <1>1 DEF ReadInv
<1>4. /\ chunks = cs /\ base = m /\ cs \in Chunks /\ m \in 0..Len(cs)
  BY <1>3 DEF Ended
<1>5. /\ Len(cs) \in Nat /\ DOMAIN cs = 1..Len(cs) /\ m \in Nat /\ m <= Len(cs)
      /\ Len(Blocks) \in Nat /\ DOMAIN Blocks = 1..Len(Blocks)
  BY <1>2, <1>4, ChunksTyped, BlockFacts
<1>6. ASSUME ChooseStrategy(doc) # "row", NEW i \in Wanted PROVE Has(i)
  <2>1. i \in LinesBefore(cs, m, Len(cs) + 1)
    BY <1>3, <1>6 DEF Ended
  <2>2. PICK k \in (m + 1)..(Len(cs) + 1 - 1) : i \in ToSet(cs[k].lines)
    BY <2>1 DEF LinesBefore
  <2>3. k \in DOMAIN cs
    BY <1>5, <2>2
  <2> QED BY <1>4, <2>2, <2>3
<1>7. ChooseStrategy(doc) = "structure" => \A i \in DOMAIN Blocks : Has(i)
  <2>1. HAVE ChooseStrategy(doc) = "structure"
  <2>2. \A i \in DOMAIN Blocks : i \in Wanted
    BY <2>1 DEF Wanted
  <2> QED BY <1>6, <2>1, <2>2
<1>8. ChooseStrategy(doc) = "row" => \A i \in DOMAIN Blocks : Kind(i) = "row" => Has(i)
  BY <1>3, <1>4, <1>5 DEF Ended
<1>9. ASSUME ChooseStrategy(doc) = "qa", NEW i \in DOMAIN Blocks, Kind(i) \in Prose PROVE Has(i)
  <2>1. i \in Wanted
    BY <1>9 DEF Wanted
  <2> QED BY <1>6, <1>9, <2>1
<1>10. ASSUME ChooseStrategy(doc) = "qa"
       PROVE  /\ \A k \in 1..m : Pair(cs[k], Len(Blocks))
              /\ \A k, l \in 1..m : k < l => cs[k].lines[2] < cs[l].lines[2]
              /\ Paired(cs, m, Len(Blocks))
  BY <1>3, <1>10 DEF Ended, Pairs
<1>11. ASSUME ChooseStrategy(doc) = "qa", NEW k \in 1..m PROVE cs[k].lines[1] \in Answered(cs[k].lines[2])
  <2>1. PICK q, i \in DOMAIN Blocks : cs[k].lines = <<q, i>> /\ q \in Answered(i)
    BY <1>10, <1>11 DEF Pair
  <2>2. cs[k].lines[1] = q /\ cs[k].lines[2] = i
    BY <2>1
  <2> QED BY <2>1, <2>2
<1>12. ASSUME ChooseStrategy(doc) = "qa", NEW i \in DOMAIN Blocks, Kind(i) = "answer", NEW q \in Answered(i)
       PROVE  Cardinality({k \in 1..m : cs[k].lines = <<q, i>>}) = 1
  <2>1. i <= Len(Blocks) /\ i \in Nat
    BY <1>5
  <2>2. PICK k \in 1..m : cs[k].lines = <<q, i>>
    BY <1>10, <1>12, <2>1 DEF Paired
  <2>3. ASSUME NEW l \in 1..m, cs[l].lines = <<q, i>> PROVE l = k
    <3>1. cs[k].lines[2] = i /\ cs[l].lines[2] = i
      BY <2>2, <2>3
    <3>2. ~(i < i)
      BY <2>1
    <3>3. ~(k < l) /\ ~(l < k)
      BY <1>10, <1>12, <3>1, <3>2
    <3> QED BY <1>5, <3>3
  <2>4. {l \in 1..m : cs[l].lines = <<q, i>>} = {k}
    BY <2>2, <2>3
  <2> QED BY <2>4, FS_Singleton
<1> QED BY <1>4, <1>7, <1>8, <1>9, <1>11, <1>12

LEMMA ChunkInvariant == ChunkingSpec => []ChunkInv
<1>1. ChunkingInit => ChunkInv
  BY ChunkInitial
<1>2. ChunkInv /\ [ChunkingNext]_chunkingVars => ChunkInv'
  BY ChunkStep
<1> QED BY <1>1, <1>2, PTL DEF ChunkingSpec

\* chunk_document: types.
THEOREM ChunksTypeCorrect == ChunkingSpec => []ChunkingTypeOK
<1>1. ChunkInv => ChunkingTypeOK
  BY DEF ChunkInv
<1> QED BY <1>1, ChunkInvariant, PTL

\* Whatever the document, the section and the page that a chunk cites are those of the first
\* line that it brings, and an answer's those of the answer.
THEOREM SectionsAreTrue == ChunkingSpec => []PathsFollowOutline
<1>1. ChunkInv => PathsFollowOutline
  BY PathsHold
<1> QED BY <1>1, ChunkInvariant, PTL

\* Whatever the document, the lines of the chunk under way are a run of its text in one
\* section, and overlap and size keep to their bounds but for one line each.
THEOREM OverlapIsBounded == ChunkingSpec => []BufferKeepsBounds
<1>1. ChunkInv => BufferKeepsBounds
  BY BoundsHold
<1> QED BY <1>1, ChunkInvariant, PTL

\* Whatever the document, what its strategy is for ends up in a chunk, and each answer in
\* exactly one, with its question.
THEOREM AllIsChunked == ChunkingSpec => []NothingLost
<1>1. ChunkInv => NothingLost
  BY NothingIsLost
<1> QED BY <1>1, ChunkInvariant, PTL
=============================================================================
