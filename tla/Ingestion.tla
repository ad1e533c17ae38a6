------------------------------ MODULE Ingestion ------------------------------
(***************************************************************************)
(* How documents come and go (app/ingestion/pipeline.py ingest_file,       *)
(* app/api/documents.py, scripts/ingest_corpus.py): uploads, loads of the  *)
(* corpus with and without --replace, deletions, and readers, each in a    *)
(* transaction of its own.  The check for an existing document and the     *)
(* INSERT are separate statements without a lock; what keeps the table     *)
(* right are its two unique indexes, on which an INSERT waits for others'  *)
(* uncommitted work.  Statements on rows nobody else sees yet are joined.  *)
(***************************************************************************)
EXTENDS Integers, FiniteSets

CONSTANTS
  DocIds,       \* business identifiers of documents
  Contents,     \* files, as their checksums
  Blank,        \* the files without text
  Roles,        \* rows of the roles table
  Jobs,         \* HTTP requests and transactions of the loader; each runs once
  Works,        \* what each job may be asked to do
  Corpus,       \* who loaded what is there at first
  Catalogues,   \* the documents there may be at first, as loads leave them
  MaxRows       \* bound: documents ever inserted

RowIds == 1..MaxRows
Row == [doc : DocIds, content : Contents, acl : SUBSET Roles, whole : BOOLEAN,
        by : Jobs \cup {Corpus}]
IsTable(t) == DOMAIN t \subseteq RowIds /\ t \in [DOMAIN t -> Row]

\* Rows that the unique indexes on doc_id and checksum keep apart.
SameKey(a, b) == a.doc = b.doc \/ a.content = b.content

\* roles: allowed_roles of a document, or the roles of a reader.
Work == [kind : {"upload", "load", "replace", "delete", "read"}, doc : DocIds,
         content : Contents, roles : SUBSET (Roles \cup {"unknown"})]

ASSUME IngestionAssumption ==
  /\ Blank \subseteq Contents
  /\ "unknown" \notin Roles
  /\ Corpus \notin Jobs
  /\ Works \in [Jobs -> SUBSET Work]
  /\ \A j \in Jobs : \A w \in Works[j] : w.kind = "upload" => w.roles # {}
  /\ MaxRows \in Nat
  /\ \A t \in Catalogues :
       /\ IsTable(t)
       /\ \E n \in 0..MaxRows : DOMAIN t = 1..n
       /\ \A i \in DOMAIN t : t[i].whole /\ t[i].acl # {} /\ t[i].by = Corpus
       /\ \A i, k \in DOMAIN t : SameKey(t[i], t[k]) => i = k

VARIABLES
  rows,       \* documents with their document_acl and chunks: committed rows by id
  nextId,     \* the sequence behind documents.id
  files,      \* settings.upload_dir
  auditLog,   \* audit_log: committed uploads and deletions
  pc,         \* where each job is
  work,       \* what it was asked to do
  target,     \* the row that it found and is to delete
  tx,         \* its uncommitted deletion and insertion
  sight,      \* a reader's allowed_doc_ids, read at the start of the request
  served,     \* the row whose chunks a reader was given
  reply       \* how the job ended

vars == <<rows, nextId, files, auditLog, pc, work, target, tx, sight, served, reply>>

NoRow == [doc |-> "none", content |-> "none", acl |-> {}, whole |-> FALSE, by |-> Corpus]
NoWork == [kind |-> "none", doc |-> "none", content |-> "none", roles |-> {}]
EmptyTx == [deletes |-> {}, id |-> 0, row |-> NoRow]
Open == {"begun", "deleting", "ready", "inserted", "resolved", "returned", "raised"}
Replies == {"none", "loaded", "skipped", "deleted", "not_found", "invalid", "error", "served"}

Init ==
  /\ rows \in Catalogues
  /\ nextId = Cardinality(DOMAIN rows) + 1
  /\ files = {} /\ auditLog = {}
  /\ pc = [j \in Jobs |-> "idle"]
  /\ work = [j \in Jobs |-> NoWork]
  /\ target = [j \in Jobs |-> 0]
  /\ tx = [j \in Jobs |-> EmptyTx]
  /\ sight = [j \in Jobs |-> {}]
  /\ served = [j \in Jobs |-> NoRow]
  /\ reply = [j \in Jobs |-> "none"]

\* Mutant of FileOf: the file is stored under the document's name.
FileByDocument(j, w) == w.doc

\* upload_document stores each file under a fresh uuid.
FileOf(j, w) == j

Move(j, to) == pc' = [pc EXCEPT ![j] = to]
Return(j, what) == Move(j, "returned") /\ reply' = [reply EXCEPT ![j] = what]
Raise(j, what) == Move(j, "raised") /\ reply' = [reply EXCEPT ![j] = what]

\* The uncommitted changes of a job.
Write(j, deletes, id, row) ==
  tx' = [tx EXCEPT ![j] = [deletes |-> deletes, id |-> id, row |-> row]]

\* What a job knew goes with it.
End(j) ==
  /\ Move(j, "done")
  /\ target' = [target EXCEPT ![j] = 0]
  /\ sight' = [sight EXCEPT ![j] = {}]

\* An upload has written its file before ingest_file begins.
Begin(j, w) ==
  /\ pc[j] = "idle"
  /\ Move(j, "begun")
  /\ work' = [work EXCEPT ![j] = w]
  /\ files' = IF w.kind = "upload" THEN files \cup {FileOf(j, w)} ELSE files
  /\ UNCHANGED <<rows, nextId, auditLog, target, tx, sight, served, reply>>

-----------------------------------------------------------------------------
(* ingest_file                                                             *)

At(j, where, kinds) == pc[j] = where /\ work[j].kind \in kinds
Loads == {"upload", "load", "replace"}

\* Rows with the job's checksum or doc_id.
Matches(j) == {i \in DOMAIN rows : SameKey(rows[i], work[j])}

FindNothing(j) ==
  /\ At(j, "begun", Loads) /\ Matches(j) = {}
  /\ Move(j, "ready")
  /\ UNCHANGED <<rows, nextId, files, auditLog, work, target, tx, sight, served, reply>>

SkipExisting(j) ==
  /\ At(j, "begun", {"upload", "load"}) /\ Matches(j) # {}
  /\ Return(j, "skipped")
  /\ UNCHANGED <<rows, nextId, files, auditLog, work, target, tx, sight, served>>

\* first() of the matching rows, in no particular order.
FindExisting(j) ==
  /\ At(j, "begun", {"replace"})
  /\ \E i \in Matches(j) : target' = [target EXCEPT ![j] = i]
  /\ Move(j, "deleting")
  /\ UNCHANGED <<rows, nextId, files, auditLog, work, tx, sight, served, reply>>

\* The jobs whose uncommitted deletion j waits for.
Deleters(j) == {k \in Jobs \ {j} : target[j] \in tx[k].deletes}

\* DELETE by id: nothing is left to delete when another job has deleted the row meanwhile.
DeleteExisting(j) ==
  /\ At(j, "deleting", {"replace"}) /\ Deleters(j) = {}
  /\ Write(j, {target[j]} \cap DOMAIN rows, tx[j].id, tx[j].row)
  /\ Move(j, "ready")
  /\ UNCHANGED <<rows, nextId, files, auditLog, work, target, sight, served, reply>>

\* No chunks: the job returns, and what it has deleted is committed.
NoText(j) ==
  /\ pc[j] = "ready" /\ work[j].content \in Blank
  /\ Return(j, "skipped")
  /\ UNCHANGED <<rows, nextId, files, auditLog, work, target, tx, sight, served>>

\* A ValueError: upload_document removes the file it has written.
Refuse(j) ==
  /\ Raise(j, "invalid")
  /\ files' = IF work[j].kind = "upload" THEN files \ {FileOf(j, work[j])} ELSE files

\* A file that the parsers refuse, or a date that is none.
RefuseInput(j) ==
  /\ pc[j] = "ready"
  /\ Refuse(j)
  /\ UNCHANGED <<rows, nextId, auditLog, work, target, tx, sight, served>>

\* The unique indexes: an INSERT waits for whoever has inserted the same key, or deleted a
\* row with it, and has not committed; it fails on a committed row that nobody deletes.
Blockers(j) ==
  {k \in Jobs \ {j} : \/ tx[k].id # 0 /\ SameKey(tx[k].row, work[j])
                      \/ \E i \in tx[k].deletes : SameKey(rows[i], work[j])}
Rivals(j) == {i \in DOMAIN rows : SameKey(rows[i], work[j]) /\ \A k \in Jobs : i \notin tx[k].deletes}

NewRow(j, acl, whole) ==
  [doc |-> work[j].doc, content |-> work[j].content, acl |-> acl, whole |-> whole, by |-> j]

\* Mutant of Insert: a replacement takes over the id of the row it replaces.
InsertInPlace(j) ==
  /\ pc[j] = "ready" /\ work[j].content \notin Blank
  /\ Blockers(j) = {} /\ Rivals(j) = {}
  /\ nextId <= MaxRows
  /\ Write(j, tx[j].deletes, IF target[j] # 0 THEN target[j] ELSE nextId, NewRow(j, {}, FALSE))
  /\ nextId' = nextId + 1
  /\ Move(j, "inserted")
  /\ UNCHANGED <<rows, files, auditLog, work, target, sight, served, reply>>

\* Mutant of Insert: without the unique indexes, on the strength of the check before.
InsertChecked(j) ==
  /\ pc[j] = "ready" /\ work[j].content \notin Blank
  /\ nextId <= MaxRows
  /\ Write(j, tx[j].deletes, nextId, NewRow(j, {}, FALSE))
  /\ nextId' = nextId + 1
  /\ Move(j, "inserted")
  /\ UNCHANGED <<rows, files, auditLog, work, target, sight, served, reply>>

Insert(j) ==
  /\ pc[j] = "ready" /\ work[j].content \notin Blank
  /\ Blockers(j) = {} /\ Rivals(j) = {}
  /\ nextId <= MaxRows
  /\ Write(j, tx[j].deletes, nextId, NewRow(j, {}, FALSE))
  /\ nextId' = nextId + 1
  /\ Move(j, "inserted")
  /\ UNCHANGED <<rows, files, auditLog, work, target, sight, served, reply>>

\* IntegrityError is no ValueError: the file of an upload stays. The sequence keeps the value
\* that the failed INSERT took.
InsertConflicts(j) ==
  /\ pc[j] = "ready" /\ work[j].content \notin Blank
  /\ Rivals(j) # {}
  /\ nextId <= MaxRows
  /\ nextId' = nextId + 1
  /\ Raise(j, "error")
  /\ UNCHANGED <<rows, files, auditLog, work, target, tx, sight, served>>

\* The ACL, which must name roles that exist, then embeddings and chunks.
Fill(j) ==
  /\ pc[j] = "inserted"
  /\ work[j].roles # {} /\ work[j].roles \subseteq Roles
  /\ Write(j, tx[j].deletes, tx[j].id, NewRow(j, work[j].roles, TRUE))
  /\ Return(j, "loaded")
  /\ UNCHANGED <<rows, nextId, files, auditLog, work, target, sight, served>>

\* Mutant of RefuseRoles: the handler answers 400 without raising.
AnswerInvalid(j) ==
  /\ pc[j] = "inserted"
  /\ ~(work[j].roles # {} /\ work[j].roles \subseteq Roles)
  /\ Write(j, tx[j].deletes, tx[j].id, NewRow(j, work[j].roles \cap Roles, FALSE))
  /\ Return(j, "invalid")
  /\ files' = IF work[j].kind = "upload" THEN files \ {FileOf(j, work[j])} ELSE files
  /\ UNCHANGED <<rows, nextId, auditLog, work, target, sight, served>>

RefuseRoles(j) ==
  /\ pc[j] = "inserted"
  /\ ~(work[j].roles # {} /\ work[j].roles \subseteq Roles)
  /\ Write(j, tx[j].deletes, tx[j].id, NewRow(j, work[j].roles \cap Roles, FALSE))
  /\ Refuse(j)
  /\ UNCHANGED <<rows, nextId, auditLog, work, target, sight, served>>

-----------------------------------------------------------------------------
(* delete_document                                                         *)

Named(d) == {i \in DOMAIN rows : rows[i].doc = d}

FindDeleted(j) ==
  /\ At(j, "begun", {"delete"})
  /\ \E i \in Named(work[j].doc) : target' = [target EXCEPT ![j] = i]
  /\ Move(j, "deleting")
  /\ UNCHANGED <<rows, nextId, files, auditLog, work, tx, sight, served, reply>>

NothingToDelete(j) ==
  /\ \/ At(j, "begun", {"delete"}) /\ Named(work[j].doc) = {}
     \/ At(j, "deleting", {"delete"}) /\ Deleters(j) = {} /\ target[j] \notin DOMAIN rows
  /\ Raise(j, "not_found")
  /\ UNCHANGED <<rows, nextId, files, auditLog, work, target, tx, sight, served>>

Delete(j) ==
  /\ At(j, "deleting", {"delete"}) /\ Deleters(j) = {} /\ target[j] \in DOMAIN rows
  /\ Write(j, {target[j]}, tx[j].id, tx[j].row)
  /\ Return(j, "deleted")
  /\ UNCHANGED <<rows, nextId, files, auditLog, work, target, sight, served>>

-----------------------------------------------------------------------------
(* document_chunks                                                         *)

\* resolve_allowed_doc_ids, in get_current_user.
ResolveAllowed(j) ==
  /\ At(j, "begun", {"read"})
  /\ sight' = [sight EXCEPT ![j] = {i \in DOMAIN rows : rows[i].acl \cap work[j].roles # {}}]
  /\ Move(j, "resolved")
  /\ UNCHANGED <<rows, nextId, files, auditLog, work, target, tx, served, reply>>

Readable(j) == Named(work[j].doc) \cap sight[j]

Serve(j) ==
  /\ pc[j] = "resolved"
  /\ \E i \in Readable(j) : served' = [served EXCEPT ![j] = rows[i]]
  /\ Return(j, "served")
  /\ UNCHANGED <<rows, nextId, files, auditLog, work, target, tx, sight>>

\* Absent and forbidden look the same.
ServeNothing(j) ==
  /\ pc[j] = "resolved" /\ Readable(j) = {}
  /\ Raise(j, "not_found")
  /\ UNCHANGED <<rows, nextId, files, auditLog, work, target, tx, sight, served>>

-----------------------------------------------------------------------------
(* The end of the transaction                                              *)

Noted(j) == [by |-> j, kind |-> work[j].kind, doc |-> work[j].doc]
Kept(j) == DOMAIN rows \ tx[j].deletes

Commit(j) ==
  /\ pc[j] = "returned"
  /\ End(j)
  /\ rows' = [i \in Kept(j) \cup ({tx[j].id} \ {0}) |->
                IF i = tx[j].id THEN tx[j].row ELSE rows[i]]
  /\ auditLog' = IF work[j].kind \in {"upload", "delete"} THEN auditLog \cup {Noted(j)} ELSE auditLog
  /\ tx' = [tx EXCEPT ![j] = EmptyTx]
  /\ UNCHANGED <<nextId, files, work, served, reply>>

\* Mutant of Rollback: the connection goes back to the pool with its transaction open.
LeaveOpen(j) ==
  /\ pc[j] = "raised"
  /\ End(j)
  /\ UNCHANGED <<rows, nextId, files, auditLog, work, tx, served, reply>>

Rollback(j) ==
  /\ pc[j] = "raised"
  /\ End(j)
  /\ tx' = [tx EXCEPT ![j] = EmptyTx]
  /\ UNCHANGED <<rows, nextId, files, auditLog, work, served, reply>>

\* Mutant of Undo: the DELETE was committed on its own.
UndoInsert(j) ==
  /\ End(j)
  /\ reply' = [reply EXCEPT ![j] = "error"]
  /\ rows' = [i \in Kept(j) |-> rows[i]]
  /\ tx' = [tx EXCEPT ![j] = EmptyTx]
  /\ UNCHANGED <<nextId, files, auditLog, work, served>>

Undo(j) ==
  /\ End(j)
  /\ reply' = [reply EXCEPT ![j] = "error"]
  /\ tx' = [tx EXCEPT ![j] = EmptyTx]
  /\ UNCHANGED <<rows, nextId, files, auditLog, work, served>>

\* Any other exception, a refused COMMIT, a crash: the file of an upload stays.
Abort(j) == pc[j] \in Open /\ Undo(j)

\* Postgres ends one of the jobs that wait for each other in a circle.
WaitsFor(j) ==
  {k \in Jobs : \/ pc[j] = "deleting" /\ k \in Deleters(j)
                \/ pc[j] = "ready" /\ work[j].content \notin Blank /\ k \in Blockers(j)}
DeadlockDetected(j) ==
  /\ \E S \in SUBSET Jobs : j \in S /\ \A k \in S : WaitsFor(k) \cap S # {}
  /\ Undo(j)

Advance(j) ==
  \/ FindNothing(j) \/ SkipExisting(j) \/ FindExisting(j) \/ DeleteExisting(j)
  \/ NoText(j) \/ RefuseInput(j) \/ Insert(j) \/ InsertConflicts(j) \/ Fill(j) \/ RefuseRoles(j)
  \/ FindDeleted(j) \/ NothingToDelete(j) \/ Delete(j)
  \/ ResolveAllowed(j) \/ Serve(j) \/ ServeNothing(j)
  \/ Commit(j) \/ Rollback(j)
  \/ DeadlockDetected(j)

Finished == (\A j \in Jobs : pc[j] = "done") /\ UNCHANGED vars

Next ==
  \/ \E j \in Jobs : (\E w \in Works[j] : Begin(j, w)) \/ Advance(j) \/ Abort(j)
  \/ Finished

Spec == Init /\ [][Next]_vars

\* Every statement is answered: Postgres wakes who waits for a transaction that has ended.
FairSpec == Spec /\ \A j \in Jobs : WF_vars(Advance(j))

-----------------------------------------------------------------------------
(* Properties                                                              *)

TypeOK ==
  /\ IsTable(rows)
  /\ nextId \in 1..(MaxRows + 1)
  /\ files \subseteq Jobs
  /\ auditLog \subseteq [by : Jobs, kind : {"upload", "delete"}, doc : DocIds]
  /\ pc \in [Jobs -> Open \cup {"idle", "done"}]
  /\ work \in [Jobs -> Work \cup {NoWork}]
  /\ target \in [Jobs -> 0..MaxRows]
  /\ tx \in [Jobs -> [deletes : SUBSET RowIds, id : 0..MaxRows, row : Row \cup {NoRow}]]
  /\ sight \in [Jobs -> SUBSET RowIds]
  /\ served \in [Jobs -> Row \cup {NoRow}]
  /\ reply \in [Jobs -> Replies]

\* A document is in the table with all its chunks and exactly the access rights it was
\* loaded with, or not at all, whichever step of ingest_file fails.
WholeDocuments ==
  \A i \in DOMAIN rows :
    /\ rows[i].whole /\ rows[i].acl # {}
    /\ rows[i].by # Corpus => rows[i].acl = work[rows[i].by].roles

\* One row per doc_id and per checksum, though two jobs may both have found none.
OneRowPerDocument ==
  \A i, k \in DOMAIN rows :
    SameKey(rows[i], rows[k]) => i = k

\* The source_path of a document that was uploaded is a file: no failing upload takes the
\* file of another.
UploadsHaveFiles ==
  \A i \in DOMAIN rows :
    LET j == rows[i].by IN
      j # Corpus /\ work[j].kind = "upload" => FileOf(j, work[j]) \in files

\* Whoever is served a document may read the version that is served, although the rights
\* were resolved in an earlier statement and the document may be replaced in between.
ServedIsAllowed ==
  \A j \in Jobs : reply[j] = "served" =>
    served[j].whole /\ served[j].acl \cap work[j].roles # {}

\* The job whose transaction commits in this step.
Commits(j) == pc[j] = "returned" /\ pc'[j] = "done" /\ reply'[j] = reply[j]

\* A committed document never changes, and disappears only by a deletion that audit_log
\* tells of or by a replacement that found it.
LossIsExplained ==
  [][/\ \A i \in DOMAIN rows \cap DOMAIN rows' : rows'[i] = rows[i]
     /\ \A i \in DOMAIN rows \ DOMAIN rows' : \E j \in Jobs :
          /\ Commits(j) /\ target[j] = i
          /\ \/ work[j].kind = "delete" /\ Noted(j) \in auditLog'
             \/ work[j].kind = "replace"]_vars

\* Every job ends, though they wait for each other's keys and rows.
EveryJobEnds == \A j \in Jobs : pc[j] # "idle" ~> pc[j] = "done"

\* Seen by the transactions of others, uploads, loads, replacements, deletions, failures and
\* crashes are the abstract life of a catalogue: documents come whole, a version takes the
\* place of another in one step, ids are not given out again.
Published == [i \in DOMAIN rows |-> [doc |-> rows[i].doc, content |-> rows[i].content, acl |-> rows[i].acl]]
Spent == {i \in 1..(nextId - 1) : \A j \in Jobs : tx[j].id # i}
AsCatalogue == INSTANCE Catalogue WITH Ids <- RowIds, docs <- Published, used <- Spent
ImplementsCatalogue == AsCatalogue!Spec

-----------------------------------------------------------------------------
\* ingest_corpus.py, on --replace: "reloads documents that already exist"; a file that is
\* skipped leaves them as they were.
LoadsLoseNothing ==
  [][\A d \in DocIds : Named(d) # {} /\ Named(d)' = {} =>
       \E j \in Jobs : Commits(j) /\ work[j].kind = "delete"]_vars
=============================================================================
