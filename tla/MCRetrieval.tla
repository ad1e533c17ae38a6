----------------------------- MODULE MCRetrieval -----------------------------
(* Instances of Retrieval: two documents, and a third file, superseded, that  *)
(* may take the place of either; chunks that begin alike, and one that is     *)
(* larger than the budget by itself.                                          *)
EXTENDS Retrieval

P(tokens, start) == [tokens |-> tokens, start |-> start]

MCPieces == [c \in Contents |->
  CASE c = "old" -> <<P(1, 1), P(2, 2)>>
    [] c = "new" -> <<P(2, 1), P(1, 3)>>
    [] c = "other" -> <<P(4, 3)>>]

MCAbout == [c \in Contents |->
  [domain |-> IF c = "other" THEN "hr" ELSE "finance", active |-> c # "new"]]

Stored(doc, content, acl) == [doc |-> doc, content |-> content, acl |-> acl]

MCCatalogues ==
  {<<Stored("A", "old", {"staff"}), Stored("B", "other", {"staff", "hr"})>>}

How(queries, hybrid, rerank, domain, superseded) ==
  [queries |-> queries, hybrid |-> hybrid, rerank |-> rerank, domain |-> domain,
   superseded |-> superseded, topK |-> 3]

MCAsks ==
  {How(1, TRUE, TRUE, "any", FALSE), How(1, TRUE, FALSE, "any", TRUE),
   How(1, TRUE, TRUE, "finance", FALSE), How(2, FALSE, TRUE, "any", TRUE)}
=============================================================================
