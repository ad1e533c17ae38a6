------------------------------ MODULE Catalogue ------------------------------
(***************************************************************************)
(* What the ingestion promises its readers: a document appears whole, with *)
(* its access rights, in one step; it never changes; a newer version takes *)
(* the place of the older in one step; and an id that was once given to a  *)
(* document, or to an attempt that failed, is never given to another.      *)
(* Ingestion implements this specification, Retrieval reads under it.      *)
(***************************************************************************)

CONSTANTS Ids, DocIds, Contents, Roles

VARIABLES
  docs,    \* the documents that are there, by id
  used     \* the ids that no document will be given any more

Document == [doc : DocIds, content : Contents, acl : (SUBSET Roles) \ {{}}]

\* Two documents that cannot be there at once.
Clash(a, b) == a.doc = b.doc \/ a.content = b.content

Init ==
  /\ \E S \in SUBSET Ids : docs \in [S -> Document] /\ used = S
  /\ \A i, k \in DOMAIN docs : Clash(docs[i], docs[k]) => i = k

Become(S, i, d) == docs' = [k \in S |-> IF k = i THEN d ELSE docs[k]]

\* A document comes, alone or in the place of one that it clashes with.
Put(i, d, old) ==
  /\ i \notin used /\ used' = used \cup {i}
  /\ \A k \in DOMAIN docs : k \in old => Clash(docs[k], d)
  /\ \A k \in DOMAIN docs \ old : ~Clash(docs[k], d)
  /\ Become((DOMAIN docs \ old) \cup {i}, i, d)

Remove(i) ==
  /\ i \in DOMAIN docs
  /\ Become(DOMAIN docs \ {i}, i, docs[i])
  /\ UNCHANGED used

\* An attempt failed.
Waste(i) ==
  /\ i \notin used /\ used' = used \cup {i}
  /\ UNCHANGED docs

Next ==
  \E i \in Ids :
    \/ \E d \in Document : Put(i, d, {}) \/ \E k \in DOMAIN docs : Put(i, d, {k})
    \/ Remove(i)
    \/ Waste(i)

Spec == Init /\ [][Next]_<<docs, used>>
=============================================================================
