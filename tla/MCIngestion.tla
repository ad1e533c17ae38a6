----------------------------- MODULE MCIngestion -----------------------------
(* Instances of Ingestion: two documents, three files, one of them blank, and *)
(* jobs that meet at a doc_id, at a checksum, or at both.                     *)
EXTENDS Ingestion

CONSTANTS j1, j2, j3

Do(kind, doc, content, roles) ==
  [kind |-> kind, doc |-> doc, content |-> content, roles |-> roles]

MCWorks == [j \in Jobs |->
  CASE j = j1 -> {Do("upload", "A", "c1", {"hr"}), Do("replace", "A", "c2", {"hr"}),
                  Do("load", "B", "c2", {"staff"}), Do("load", "A", "c1", {})}
    [] j = j2 -> {Do("upload", "B", "c1", {"unknown", "hr"}), Do("replace", "B", "c1", {"staff"}),
                  Do("replace", "A", "blank", {"staff"}), Do("upload", "A", "c1", {"staff"})}
    [] j = j3 -> {Do("delete", "A", "c1", {}), Do("read", "A", "c1", {"staff"}),
                  Do("read", "B", "c1", {"hr"}), Do("upload", "B", "c1", {"hr"}),
                  Do("upload", "A", "blank", {"hr"})}]

Loaded(doc, content) ==
  [doc |-> doc, content |-> content, acl |-> {"staff"}, whole |-> TRUE, by |-> Corpus]

MCCatalogues == {<<>>, <<Loaded("A", "c1")>>, <<Loaded("A", "c1"), Loaded("B", "c2")>>}
=============================================================================
