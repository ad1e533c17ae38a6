------------------------------ MODULE Retrieval ------------------------------
(***************************************************************************)
(* One retrieval (app/retrieval/pipeline.py retrieve): a series of SQL     *)
(* statements, then fusion, rerank and the choice of the context.  Every   *)
(* statement carries the `allowed` CTE and sees the tables as they are     *)
(* then, so documents come and go (Catalogue) and the user's roles change  *)
(* between two statements of one retrieval.  How alike a chunk and a query *)
(* are is Postgres' and the models' to say: every ranking is possible.     *)
(***************************************************************************)
EXTENDS Integers, Sequences, FiniteSets, FiniteSetsExt

CONSTANTS
  Ids, DocIds, Contents, Roles,   \* of Catalogue
  Pieces,       \* the chunks of each file: their tokens, and their first 120 characters
  About,        \* domain and status in the metadata of each file
  Catalogues,   \* the documents there may be at first
  Asks,         \* how retrieve may be called
  Limit,        \* settings.retrieval_candidates
  RrfK,         \* settings.rrf_k
  Budget,       \* settings.max_context_tokens
  MaxEdits      \* bound: changes of documents and roles meanwhile

Piece == [tokens : Nat, start : Nat]
AnyDomain == "any"
Ask == [queries : Nat \ {0}, hybrid : BOOLEAN, rerank : BOOLEAN, domain : STRING,
        superseded : BOOLEAN, topK : Nat \ {0}]

VARIABLES
  docs, used,   \* documents, document_acl and chunks, as Catalogue has them
  held,         \* user_roles of the user
  edits,        \* how often these have changed
  ask,          \* the arguments
  pc,           \* the statement or stage that comes next
  query,        \* which of u.queries is searched for
  lists,        \* ranked_lists
  fused,        \* result.all_candidates
  candidates,   \* result.candidates
  seen          \* every chunk that the user might read at some moment of this retrieval

tables == <<docs, used, held, edits>>
vars == <<tables, ask, pc, query, lists, fused, candidates, seen>>

World == INSTANCE Catalogue

ASSUME RetrievalAssumption ==
  /\ Pieces \in [Contents -> Seq(Piece)]
  /\ About \in [Contents -> [domain : STRING, active : BOOLEAN]]
  /\ \A c \in Catalogues : DOMAIN c \subseteq Ids /\ c \in [DOMAIN c -> World!Document]
  /\ Asks \subseteq Ask
  /\ Limit \in Nat \ {0} /\ RrfK \in Nat /\ Budget \in Nat /\ MaxEdits \in Nat

-----------------------------------------------------------------------------
(* What a statement sees                                                   *)

\* A chunk that was read stays what it was, though its document may go.
Chunk == [row : Ids, content : Contents, index : Nat]
Size(i) == Len(Pieces[docs[i].content])
ChunksOf(i) == {[row |-> i, content |-> docs[i].content, index |-> n] : n \in 0..(Size(i) - 1)}

\* The `allowed` CTE.
Allowed == {i \in DOMAIN docs : docs[i].acl \cap held # {}}

\* Mutant of Current: the status is not looked at.
WhateverStatus(i) == TRUE

Current(i) == ask.superseded \/ About[docs[i].content].active
InDomain(i) == ask.domain \in {AnyDomain, About[docs[i].content].domain}

Readable == UNION {ChunksOf(i) : i \in Allowed}

\* Mutant of Visible: without the CTE.
VisibleToAll == UNION {ChunksOf(i) : i \in {k \in DOMAIN docs : Current(k)}}

Visible == UNION {ChunksOf(i) : i \in {k \in Allowed : Current(k)}}
Searched == UNION {ChunksOf(i) : i \in {k \in Allowed : Current(k) /\ InDomain(k)}}

Elements(s) == {s[p] : p \in DOMAIN s}
Injective(s) == \A p, q \in DOMAIN s : s[p] = s[q] => p = q

\* The rankings of members of S, with a LIMIT.
Rankings(S) == {s \in UNION {[1..n -> S] : n \in 0..Limit} : Injective(s)}

Init ==
  /\ docs \in Catalogues /\ used = DOMAIN docs
  /\ held \in SUBSET Roles
  /\ edits = 0
  /\ ask \in Asks
  /\ pc = "vector" /\ query = 1
  /\ lists = <<>> /\ fused = <<>> /\ candidates = <<>>
  /\ seen = Readable

-----------------------------------------------------------------------------
(* The searches                                                            *)

\* One more ranked list; where the loop over u.queries goes next.
Found(list, next) ==
  /\ lists' = Append(lists, list)
  /\ IF next = "query"
     THEN /\ query' = query + 1
          /\ pc' = IF query < ask.queries THEN "vector" ELSE "fusion"
     ELSE pc' = next /\ query' = query
  /\ UNCHANGED <<tables, ask, fused, candidates, seen>>

\* vector_search: with the HNSW index (scripts/build_vector_index.sql) the filter comes after
\* the scan, so that there may be fewer than the limit.
VectorSearch ==
  /\ pc = "vector"
  /\ \E list \in Rankings(Searched) : Found(list, IF ask.hybrid THEN "lexical" ELSE "query")

\* lexical_search: some chunks hold the words of the query ...
LexicalSearch ==
  /\ pc = "lexical"
  /\ \E list \in Rankings(Searched) \ {<<>>} : Found(list, "query")

\* ... or none does, and similar spellings are looked for, in every domain.
NoWordMatches ==
  /\ pc = "lexical"
  /\ pc' = "trigram"
  /\ UNCHANGED <<tables, ask, query, lists, fused, candidates, seen>>

TrigramSearch ==
  /\ pc = "trigram"
  /\ \E list \in Rankings(Visible) : Found(list, "query")

-----------------------------------------------------------------------------
(* reciprocal_rank_fusion                                                  *)

Rank(c, list) == CHOOSE p \in DOMAIN list : list[p] = c
Listed(c) == {n \in DOMAIN lists : c \in Elements(lists[n])}

\* A common multiple of the denominators, so that the shares are integers.
Scale == LET product[r \in 0..Limit] == IF r = 0 THEN 1 ELSE (RrfK + r) * product[r - 1]
         IN  product[Limit]

Share(r) == Scale \div (RrfK + r)

\* Mutant of RrfScore: a later list overwrites what an earlier one has given.
LastShare(c) == Share(Rank(c, lists[CHOOSE n \in Listed(c) : \A m \in Listed(c) : m <= n]))

RrfScore(c) == MapThenSumSet(LAMBDA n : Share(Rank(c, lists[n])), Listed(c))

\* Sorted by score; chunks of one score may come in either order, as their floating-point
\* sums may differ in the last bit.
Fuse ==
  /\ pc = "fusion"
  /\ LET all == UNION {Elements(lists[n]) : n \in DOMAIN lists} IN
       \E f \in Rankings(all) :
         /\ \A p, q \in DOMAIN f : p < q => RrfScore(f[p]) >= RrfScore(f[q])
         /\ \A c \in all \ Elements(f) :
              Len(f) = Limit /\ \A p \in DOMAIN f : RrfScore(f[p]) >= RrfScore(c)
         /\ fused' = f
  /\ pc' = IF fused' = <<>> THEN "done" ELSE "neighbours"
  /\ UNCHANGED <<tables, ask, query, lists, candidates, seen>>

-----------------------------------------------------------------------------
(* expand_with_neighbours, rerank                                          *)

\* The chunk before or after one, if its document is still there and allowed.
Beside(c, step, known) ==
  LET d == [c EXCEPT !.index = @ + step]
  IN  IF d \in Readable \ known THEN <<d>> ELSE <<>>

Least(m, n) == IF m < n THEN m ELSE n
First(s, n) == SubSeq(s, 1, Least(n, Len(s)))

\* What rerank may return: the scores are the model's, so any order, cut to top_k.
Reranked(s) ==
  IF ask.rerank THEN {r \in [1..Least(ask.topK, Len(s)) -> Elements(s)] : Injective(r)}
  ELSE {First(s, ask.topK)}

\* The neighbours of c are read, all but those known; then, with no other await, everything
\* is reranked and cut.
Expand(c, known) ==
  /\ pc = "neighbours"
  /\ fused' = fused \o Beside(c, -1, known) \o Beside(c, 1, known)
  /\ candidates' \in Reranked(fused')
  /\ pc' = "done" /\ lists' = <<>>
  /\ UNCHANGED <<tables, ask, query, seen>>

ExpandAndRerank == Expand(fused[1], Elements(fused))

-----------------------------------------------------------------------------
(* build_context                                                           *)

Tokens(c) == Pieces[c.content][c.index + 1].tokens
Start(c) == Pieces[c.content][c.index + 1].start

\* Mutant of Take: a chunk that does not fit is passed over, a later one may.
TakeWhatFits(a, c) ==
  IF Start(c) \in a.starts \/ (a.tokens + Tokens(c) > Budget /\ a.chosen # <<>>) THEN a
  ELSE [chosen |-> Append(a.chosen, c), tokens |-> a.tokens + Tokens(c),
        starts |-> a.starts \cup {Start(c)}, full |-> FALSE]

\* One turn of the loop: a duplicate is passed over, the first that does not fit ends it.
Take(a, c) ==
  IF a.full \/ Start(c) \in a.starts THEN a
  ELSE IF a.tokens + Tokens(c) > Budget /\ a.chosen # <<>> THEN [a EXCEPT !.full = TRUE]
  ELSE [chosen |-> Append(a.chosen, c), tokens |-> a.tokens + Tokens(c),
        starts |-> a.starts \cup {Start(c)}, full |-> FALSE]

BuildContext(s) ==
  LET nothing == [chosen |-> <<>>, tokens |-> 0, starts |-> {}, full |-> FALSE]
      turn[n \in 0..Len(s)] == IF n = 0 THEN nothing ELSE Take(turn[n - 1], s[n])
  IN  turn[Len(s)].chosen

\* generate_answer's contexts: the first, and the one of a retry.
FirstContext == BuildContext(candidates)
BroadContext == BuildContext(First(fused, 2 * ask.topK))

-----------------------------------------------------------------------------
(* The surroundings: others change documents and roles between statements  *)

Statements == {"vector", "lexical", "trigram", "neighbours"}

Edit ==
  /\ pc \in Statements /\ edits < MaxEdits
  /\ \/ World!Next /\ docs' # docs /\ held' = held
     \/ held' \in SUBSET Roles /\ held' # held /\ UNCHANGED <<docs, used>>
  /\ edits' = edits + 1
  /\ seen' = seen \cup Readable'
  /\ UNCHANGED <<ask, pc, query, lists, fused, candidates>>

Next ==
  \/ VectorSearch \/ LexicalSearch \/ NoWordMatches \/ TrigramSearch
  \/ Fuse \/ ExpandAndRerank
  \/ Edit
  \/ pc = "done" /\ UNCHANGED vars

Spec == Init /\ [][Next]_vars

-----------------------------------------------------------------------------
(* Properties                                                              *)

IsList(s) == s \in Seq(Chunk) /\ Injective(s)

\* Types, and no chunk twice in a list: rerank's `before` goes by the id of the chunk.
TypeOK ==
  /\ DOMAIN docs \subseteq Ids /\ docs \in [DOMAIN docs -> World!Document]
  /\ used \subseteq Ids
  /\ held \subseteq Roles
  /\ edits \in 0..MaxEdits
  /\ ask \in Asks
  /\ pc \in Statements \cup {"fusion", "done"}
  /\ query \in 1..(ask.queries + 1)
  /\ lists \in Seq(Seq(Chunk)) /\ Len(lists) <= 2 * ask.queries
  /\ \A n \in DOMAIN lists : IsList(lists[n])
  /\ IsList(fused) /\ IsList(candidates)
  /\ seen \subseteq Chunk

\* Whatever is found, put into a context or handed to the reranker was, at some moment of this
\* very retrieval, the user's to read, though every statement decides on rights of its own.
OnlyWhatWasReadable ==
  /\ \A n \in DOMAIN lists : Elements(lists[n]) \subseteq seen
  /\ Elements(fused) \cup Elements(candidates) \subseteq seen

\* Superseded documents appear only if asked for, the neighbours of what was found included,
\* for which nobody looks at the status; another domain than the one asked for only by way of
\* a lexical list, when no word of the query was found.
OnlyWhatWasAskedFor ==
  LET elsewhere(c) == ask.domain \notin {AnyDomain, About[c.content].domain} IN
    /\ \A c \in Elements(fused) \cup Elements(candidates) :
         /\ About[c.content].active \/ ask.superseded
         /\ elsewhere(c) => ask.hybrid
    /\ \A n \in DOMAIN lists : \A c \in Elements(lists[n]) :
         elsewhere(c) => ask.hybrid /\ n % 2 = 0

\* ADR 0003: what both lists of a query hold goes before what only one of them holds, at
\* whatever rank; and what is ranked no lower in every list, and higher in one, goes first.
\* The fusion leaves out only the last.
AgreementComesFirst ==
  pc = "neighbours" =>
    LET place(c, n) == IF n \in Listed(c) THEN Rank(c, lists[n]) ELSE Limit + 1
        all == UNION {Elements(lists[n]) : n \in DOMAIN lists}
        better(c, d) ==
          \/ /\ \A n \in DOMAIN lists : place(c, n) <= place(d, n)
             /\ \E n \in DOMAIN lists : place(c, n) < place(d, n)
          \/ Len(lists) = 2 /\ Cardinality(Listed(c)) = 2 /\ Cardinality(Listed(d)) = 1
    IN  \A c, d \in all : better(c, d) /\ d \in Elements(fused) =>
          c \in Elements(fused) /\ Rank(c, fused) < Rank(d, fused)

TokensOf(s) == MapThenSumSet(LAMBDA p : Tokens(s[p]), DOMAIN s)

\* The first n of the candidates, without those whose text repeats that of an earlier one.
Unrepeated(s, n) ==
  {s[p] : p \in {q \in 1..n : \A r \in 1..(q - 1) : Start(s[r]) # Start(s[q])}}

\* A context keeps the budget, or is one chunk; repeats no text; and is what is strongest: all
\* the candidates down to the first that is no repetition and would exceed the budget, but for
\* repetitions, and nothing from there on, not even what would still fit.
ContextKeepsTheStrongest ==
  pc = "done" =>
    LET context == FirstContext
    IN  /\ TokensOf(context) <= Budget \/ Len(context) = 1
        /\ candidates # <<>> => context # <<>> /\ context[1] = candidates[1]
        /\ \A p, q \in DOMAIN context : Start(context[p]) = Start(context[q]) => p = q
        /\ \E n \in 0..Len(candidates) :
             /\ Elements(context) = Unrepeated(candidates, n)
             /\ n < Len(candidates) =>
                  /\ TokensOf(context) + Tokens(candidates[n + 1]) > Budget
                  /\ \A c \in Elements(context) : Start(c) # Start(candidates[n + 1])

-----------------------------------------------------------------------------
(* What a comment says and the code does not do                            *)

\* answer.py, on the second attempt: "Retry once with broader context".
RetryIsBroader == pc = "done" => Elements(FirstContext) \subseteq Elements(BroadContext)
=============================================================================
