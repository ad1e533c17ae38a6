-------------------------- MODULE Retrieval_proofs --------------------------
(***************************************************************************)
(* Proofs about Retrieval: types; that whatever is found was the user's to *)
(* read at some moment, and was asked for; that what the lists agree on    *)
(* comes first; and that a context keeps the strongest.  For any           *)
(* documents, rankings and changes meanwhile.                              *)
(***************************************************************************)
EXTENDS Retrieval, SequenceTheorems, Sums, TLAPS

DocsOK == DOMAIN docs \subseteq Ids /\ docs \in [DOMAIN docs -> World!Document]

\* How many lists there are, by the place in the loop over the queries.
Placed ==
  /\ pc = "vector" =>
       /\ query <= ask.queries
       /\ Len(lists) = IF ask.hybrid THEN 2 * (query - 1) ELSE query - 1
  /\ pc \in {"lexical", "trigram"} =>
       query <= ask.queries /\ ask.hybrid /\ Len(lists) = 2 * (query - 1) + 1
  /\ pc = "neighbours" => fused # <<>>

Proper(c) == About[c.content].active \/ ask.superseded
Elsewhere(c) == ask.domain \notin {AnyDomain, About[c.content].domain}

\* What the lists and the results hold was asked for; what the tables hold has been seen.
Filtered ==
  /\ \A n \in DOMAIN lists : \A c \in Elements(lists[n]) :
       Proper(c) /\ (Elsewhere(c) => ask.hybrid /\ n % 2 = 0)
  /\ \A c \in Elements(fused) \cup Elements(candidates) :
       Proper(c) /\ (Elsewhere(c) => ask.hybrid)

\* A chunk of a file, not only of its name.
Real == {c \in Chunk : c.index + 1 \in DOMAIN Pieces[c.content]}

Known == Readable \subseteq seen /\ seen \subseteq Real /\ OnlyWhatWasReadable

\* No list is longer than the limit of the statement that found it.
Cut == \A n \in DOMAIN lists : Len(lists[n]) <= Limit

\* What was fused is in the order of the scores, and nothing better was left out.
Everything == UNION {Elements(lists[n]) : n \in DOMAIN lists}
ByScore ==
  pc = "neighbours" =>
    /\ \A p, q \in DOMAIN fused : p < q => RrfScore(fused[p]) >= RrfScore(fused[q])
    /\ \A c \in Everything \ Elements(fused) :
         \A p \in DOMAIN fused : RrfScore(fused[p]) >= RrfScore(c)

Inv == TypeOK /\ Placed /\ Filtered /\ Known /\ Cut /\ ByScore

-----------------------------------------------------------------------------
(* Statements and lists                                                    *)

LEMMA AskTypes ==
  ASSUME ask \in Asks
  PROVE  /\ ask.queries \in Nat \ {0} /\ ask.hybrid \in BOOLEAN /\ ask.rerank \in BOOLEAN
         /\ ask.superseded \in BOOLEAN /\ ask.topK \in Nat \ {0}
BY RetrievalAssumption DEF Ask

\* What a statement may return are chunks, and among those that the user may read.
LEMMA StatementSees ==
  ASSUME DocsOK
  PROVE  /\ Readable \subseteq Chunk /\ Readable \subseteq Real
         /\ Searched \subseteq Visible /\ Visible \subseteq Readable
<1>1. ASSUME NEW i \in DOMAIN docs, NEW c \in ChunksOf(i) PROVE c \in Chunk /\ c \in Real
  <2>1. docs[i].content \in Contents /\ i \in Ids
    BY DEF DocsOK, World!Document
  <2>2. Len(Pieces[docs[i].content]) \in Nat
    BY <2>1, RetrievalAssumption, LenProperties
  <2>3. PICK n \in 0..(Size(i) - 1) :
          c = [row |-> i, content |-> docs[i].content, index |-> n]
    BY DEF ChunksOf
  <2>4. n \in Nat /\ n + 1 \in 1..Len(Pieces[docs[i].content])
    BY <2>2, <2>3 DEF Size
  <2>5. n + 1 \in DOMAIN Pieces[docs[i].content]
    BY <2>1, <2>4, RetrievalAssumption, LenProperties
  <2> QED BY <2>1, <2>3, <2>4, <2>5 DEF Chunk, Real
<1>2. Readable \subseteq Chunk /\ Readable \subseteq Real
  BY <1>1 DEF Readable, Allowed
<1>3. Searched \subseteq Visible /\ Visible \subseteq Readable
  BY DEF Searched, Visible, Readable
<1> QED BY <1>2, <1>3

LEMMA ReadableAreChunks == DocsOK => Readable \subseteq Chunk /\ Readable \subseteq Real
BY StatementSees

\* Chunks that were searched for are proper, and in the domain asked for.
LEMMA StatementFilters ==
  /\ \A c \in Visible : Proper(c)
  /\ \A c \in Searched : Proper(c) /\ ~Elsewhere(c)
BY DEF Visible, Searched, ChunksOf, Current, InDomain, Proper, Elsewhere

LEMMA RankingIsList ==
  ASSUME NEW S, NEW s \in Rankings(S)
  PROVE  s \in Seq(S) /\ Injective(s) /\ Elements(s) \subseteq S /\ Len(s) <= Limit
<1>1. PICK n \in 0..Limit : s \in [1..n -> S]
  BY DEF Rankings
<1>2. n \in Nat
  BY <1>1, RetrievalAssumption
<1>3. s \in Seq(S)
  BY <1>1, <1>2, SeqDef
<1>4. Elements(s) \subseteq S
  BY <1>1 DEF Elements
<1>5. Len(s) <= Limit
  <2>1. DOMAIN s = 1..n /\ DOMAIN s = 1..Len(s) /\ Len(s) \in Nat
    BY <1>1, <1>3, LenProperties
  <2>2. Len(s) = n
    BY <1>2, <2>1
  <2> QED BY <1>1, <2>2, RetrievalAssumption
<1> QED BY <1>3, <1>4, <1>5 DEF Rankings

LEMMA RankingOfChunks ==
  ASSUME NEW S, S \subseteq Chunk, NEW s \in Rankings(S)
  PROVE  IsList(s) /\ Elements(s) \subseteq S /\ Len(s) <= Limit
BY RankingIsList, SeqMonotonic DEF IsList

\* A list and a few chunks that it does not hold.
LEMMA Extended ==
  ASSUME NEW s, IsList(s), NEW t, IsList(t), Elements(s) \cap Elements(t) = {}
  PROVE  IsList(s \o t) /\ Elements(s \o t) = Elements(s) \cup Elements(t)
<1>1. s \in Seq(Chunk) /\ t \in Seq(Chunk)
  BY DEF IsList
<1>2. /\ DOMAIN s = 1..Len(s) /\ DOMAIN t = 1..Len(t)
      /\ Len(s) \in Nat /\ Len(t) \in Nat
  BY <1>1, LenProperties
<1>3. /\ s \o t \in Seq(Chunk) /\ DOMAIN (s \o t) = 1..(Len(s) + Len(t))
      /\ \A i \in 1..(Len(s) + Len(t)) :
           (s \o t)[i] = IF i <= Len(s) THEN s[i] ELSE t[i - Len(s)]
  BY <1>1, ConcatProperties, LenProperties
<1>4. Elements(s \o t) \subseteq Elements(s) \cup Elements(t)
  BY <1>2, <1>3 DEF Elements
<1>5. Elements(s) \subseteq Elements(s \o t)
  <2> SUFFICES ASSUME NEW p \in DOMAIN s PROVE s[p] \in Elements(s \o t)
    BY DEF Elements
  <2>1. p \in DOMAIN (s \o t) /\ (s \o t)[p] = s[p]
    BY <1>2, <1>3
  <2> QED BY <2>1 DEF Elements
<1>6. Elements(t) \subseteq Elements(s \o t)
  <2> SUFFICES ASSUME NEW p \in DOMAIN t PROVE t[p] \in Elements(s \o t)
    BY DEF Elements
  <2>1. p + Len(s) \in DOMAIN (s \o t) /\ (s \o t)[p + Len(s)] = t[p]
    BY <1>2, <1>3
  <2> QED BY <2>1 DEF Elements
<1>7. Injective(s \o t)
  <2> SUFFICES ASSUME NEW p \in DOMAIN (s \o t), NEW q \in DOMAIN (s \o t),
                      (s \o t)[p] = (s \o t)[q]
               PROVE  p = q
    BY DEF Injective
  <2>1. CASE p <= Len(s) /\ q <= Len(s)
    <3>1. p \in DOMAIN s /\ q \in DOMAIN s /\ s[p] = s[q]
      BY <1>2, <1>3, <2>1
    <3> QED BY <3>1 DEF IsList, Injective
  <2>2. CASE p > Len(s) /\ q > Len(s)
    <3>1. /\ p - Len(s) \in DOMAIN t /\ q - Len(s) \in DOMAIN t
          /\ t[p - Len(s)] = t[q - Len(s)]
      BY <1>2, <1>3, <2>2
    <3>2. p - Len(s) = q - Len(s)
      BY <3>1 DEF IsList, Injective
    <3> QED BY <3>2, <1>2, <1>3
  <2>3. CASE p <= Len(s) /\ q > Len(s)
    <3>1. p \in DOMAIN s /\ q - Len(s) \in DOMAIN t /\ s[p] = t[q - Len(s)]
      BY <1>2, <1>3, <2>3
    <3> QED BY <3>1 DEF Elements
  <2>4. CASE p > Len(s) /\ q <= Len(s)
    <3>1. q \in DOMAIN s /\ p - Len(s) \in DOMAIN t /\ s[q] = t[p - Len(s)]
      BY <1>2, <1>3, <2>4
    <3> QED BY <3>1 DEF Elements
  <2> QED BY <2>1, <2>2, <2>3, <2>4, <1>2, <1>3
<1> QED BY <1>3, <1>4, <1>5, <1>6, <1>7 DEF IsList

LEMMA FirstIsList ==
  ASSUME NEW s, IsList(s), NEW n \in Nat
  PROVE  IsList(First(s, n)) /\ Elements(First(s, n)) \subseteq Elements(s)
<1> DEFINE k == Least(n, Len(s))
<1>1. s \in Seq(Chunk) /\ Len(s) \in Nat /\ DOMAIN s = 1..Len(s)
  BY LenProperties DEF IsList
<1>2. k \in 0..Len(s)
  BY <1>1 DEF Least
<1>3. \A i \in 1..k : s[i] \in Chunk
  BY <1>1, <1>2, ElementOfSeq
<1>4. /\ First(s, n) \in Seq(Chunk) /\ DOMAIN First(s, n) = 1..k
      /\ \A i \in 1..k : First(s, n)[i] = s[i]
  <2> HIDE DEF k
  <2>1. /\ SubSeq(s, 1, k) \in Seq(Chunk) /\ Len(SubSeq(s, 1, k)) = k
        /\ \A i \in 1..k : SubSeq(s, 1, k)[i] = s[i]
    BY <1>2, <1>1, <1>3, SubSeqProperties
  <2> QED BY <2>1, <1>2, LenProperties DEF First, k
<1>5. \A i \in 1..k : i \in DOMAIN s
  BY <1>1, <1>2
<1> HIDE DEF k
<1>6. Elements(First(s, n)) \subseteq Elements(s)
  BY <1>4, <1>5 DEF Elements
<1>7. Injective(First(s, n))
  BY <1>4, <1>5 DEF Injective, IsList
<1> QED BY <1>4, <1>6, <1>7 DEF IsList

\* What is reranked and cut was there before.
LEMMA RerankedIsList ==
  ASSUME ask \in Asks, NEW s, IsList(s), NEW r \in Reranked(s)
  PROVE  IsList(r) /\ Elements(r) \subseteq Elements(s)
<1>1. ask.topK \in Nat
  BY AskTypes
<1>2. CASE ask.rerank
  <2> DEFINE k == Least(ask.topK, Len(s))
  <2>1. r \in [1..k -> Elements(s)] /\ Injective(r)
    BY <1>2 DEF Reranked
  <2>2. s \in Seq(Chunk) /\ Len(s) \in Nat /\ DOMAIN s = 1..Len(s)
    BY LenProperties DEF IsList
  <2>3. k \in Nat
    BY <1>1, <2>2 DEF Least
  <2>4. Elements(s) \subseteq Chunk
    BY <2>2, ElementOfSeq DEF Elements
  <2> HIDE DEF k
  <2>5. r \in [1..k -> Chunk]
    BY <2>1, <2>4
  <2>6. r \in Seq(Chunk)
    BY <2>3, <2>5, SeqDef
  <2> QED BY <2>1, <2>6 DEF IsList, Elements
<1>3. CASE ~ask.rerank
  BY <1>1, <1>3, FirstIsList DEF Reranked
<1> QED BY <1>2, <1>3

\* A neighbour is a readable chunk of the same document that was not known.
LEMMA BesideIsList ==
  ASSUME Readable \subseteq Chunk, NEW c \in Chunk, NEW step \in {-1, 1}, NEW known
  PROVE  /\ IsList(Beside(c, step, known))
         /\ \A d \in Elements(Beside(c, step, known)) :
              /\ d \in Readable \ known
              /\ d.content = c.content /\ d.index = c.index + step
<1> DEFINE d == [c EXCEPT !.index = @ + step]
<1>1. d.content = c.content /\ d.index = c.index + step
  BY DEF Chunk
<1>2. CASE d \in Readable \ known
  <2>1. Beside(c, step, known) = <<d>>
    BY <1>2 DEF Beside
  <2>2. d \in Chunk
    BY <1>2
  <2> HIDE DEF d
  <2>3. <<d>> \in Seq(Chunk) /\ Injective(<<d>>) /\ Elements(<<d>>) = {d}
    BY <2>2 DEF Injective, Elements
  <2> QED BY <1>1, <1>2, <2>1, <2>3 DEF IsList
<1>3. CASE d \notin Readable \ known
  <2>1. Beside(c, step, known) = <<>>
    BY <1>3 DEF Beside
  <2>2. <<>> \in Seq(Chunk) /\ Injective(<<>>) /\ Elements(<<>>) = {}
    BY EmptySeq DEF Injective, Elements
  <2> QED BY <2>1, <2>2 DEF IsList
<1> QED BY <1>2, <1>3

-----------------------------------------------------------------------------
(* The scores                                                              *)

LEMMA Divides == ASSUME NEW a \in Nat \ {0}, NEW m \in Nat PROVE (a * m) \div a = m
<1>1. PICK q \in Int : q = (a * m) \div a
  OBVIOUS
<1>2. a * q <= a * m /\ a * m < a * q + a
  BY <1>1
<1>3. ~(q < m)
  <2> SUFFICES ASSUME q < m PROVE FALSE
    OBVIOUS
  <2>1. a * (q + 1) <= a * m
    OBVIOUS
  <2>2. a * (q + 1) = a * q + a
    OBVIOUS
  <2> QED BY <1>2, <2>1, <2>2
<1>4. ~(q > m)
  <2> SUFFICES ASSUME q > m PROVE FALSE
    OBVIOUS
  <2>1. a * (m + 1) <= a * q
    OBVIOUS
  <2>2. a * (m + 1) = a * m + a
    OBVIOUS
  <2> QED BY <1>2, <2>1, <2>2
<1> QED BY <1>1, <1>3, <1>4

Products(f, n) == f = [r \in 0..n |-> IF r = 0 THEN 1 ELSE (RrfK + r) * f[r - 1]]

LEMMA ScaleIsProduct == Scale = (CHOOSE f : Products(f, Limit))[Limit]
BY Zenon DEF Scale, Products

LEMMA ProductsExist ==
  ASSUME NEW n \in Nat
  PROVE  \E f : Products(f, n)
<1> DEFINE B == {m \in Nat : ~\E f : Products(f, m)}
<1>1. SUFFICES ASSUME B # {} PROVE FALSE
  OBVIOUS
<1>2. PICK m \in B : \A k \in B : m <= k
  <2>1. B \in SUBSET Nat
    OBVIOUS
  <2> HIDE DEF B
  <2> QED BY <1>1, <2>1, LeastNumber
<1>3. CASE m = 0
  <2> DEFINE f == [k \in 0..0 |-> 1]
  <2>1. f = [k \in 0..0 |-> IF k = 0 THEN 1 ELSE (RrfK + k) * f[k - 1]]
    OBVIOUS
  <2>2. Products(f, 0)
    BY <2>1 DEF Products
  <2> QED BY <1>3, <2>2
<1>4. CASE m # 0
  <2>1. m \in Nat /\ m - 1 \in Nat /\ ~(m <= m - 1)
    BY <1>4
  <2>2. PICK g : Products(g, m - 1)
    BY <1>2, <2>1
  <2> DEFINE f == [k \in 0..m |-> IF k = 0 THEN 1 ELSE (RrfK + k) * g[k - 1]]
  <2>3. \A k \in 0..(m - 1) : g[k] = IF k = 0 THEN 1 ELSE (RrfK + k) * g[k - 1]
    BY <2>2 DEF Products
  <2>4. \A k \in 0..(m - 1) : f[k] = g[k]
    <3> TAKE k \in 0..(m - 1)
    <3>1. k \in 0..m
      BY <2>1
    <3> QED BY <2>3, <3>1, Zenon
  <2>5. \A k \in 0..m : f[k] = IF k = 0 THEN 1 ELSE (RrfK + k) * f[k - 1]
    <3> TAKE k \in 0..m
    <3>1. k # 0 => k - 1 \in 0..(m - 1)
      BY <2>1
    <3>2. f[k] = IF k = 0 THEN 1 ELSE (RrfK + k) * g[k - 1]
      OBVIOUS
    <3> HIDE DEF f
    <3> QED BY <2>4, <3>1, <3>2, Zenon
  <2>6. f = [k \in 0..m |-> f[k]]
    OBVIOUS
  <2>7. Products(f, m)
    <3> HIDE DEF f
    <3>1. [k \in 0..m |-> f[k]] =
            [k \in 0..m |-> IF k = 0 THEN 1 ELSE (RrfK + k) * f[k - 1]]
      BY <2>5, Zenon
    <3> QED BY <2>6, <3>1 DEF Products
  <2> QED BY <2>7
<1> QED BY <1>3, <1>4

\* Every denominator divides the product.
LEMMA ProductsDivided ==
  ASSUME NEW n \in Nat, NEW f, Products(f, n)
  PROVE  \A r \in 0..n :
           /\ f[r] \in Nat \ {0}
           /\ \A i \in 1..r : \E m \in Nat \ {0} : f[r] = (RrfK + i) * m
<1> DEFINE Divided(r) == /\ f[r] \in Nat \ {0}
                         /\ \A i \in 1..r : \E m \in Nat \ {0} : f[r] = (RrfK + i) * m
           B == {r \in 0..n : ~Divided(r)}
<1>1. SUFFICES ASSUME B # {} PROVE FALSE
  OBVIOUS
<1>2. PICK r \in B : \A k \in B : r <= k
  <2>1. B \in SUBSET Nat
    OBVIOUS
  <2> HIDE DEF B
  <2> QED BY <1>1, <2>1, LeastNumber
<1>3. \A k \in 0..n : f[k] = IF k = 0 THEN 1 ELSE (RrfK + k) * f[k - 1]
  BY DEF Products
<1>4. r # 0
  BY <1>3
<1>5. r - 1 \in 0..n /\ ~(r <= r - 1)
  BY <1>4
<1>6. Divided(r - 1)
  BY <1>2, <1>5
<1>7. PICK m \in Nat \ {0} : f[r - 1] = m
  BY <1>6
<1>8. PICK a \in Nat \ {0} : a = RrfK + r
  BY <1>4, RetrievalAssumption
<1>9. f[r] = a * m
  BY <1>3, <1>4, <1>7, <1>8
<1>10. f[r] \in Nat \ {0}
  BY <1>9
<1>11. ASSUME NEW i \in 1..r PROVE \E k \in Nat \ {0} : f[r] = (RrfK + i) * k
  <2>1. CASE i = r
    BY <1>8, <1>9, <2>1
  <2>2. CASE i # r
    <3>1. i \in 1..(r - 1)
      BY <2>2
    <3>2. PICK k \in Nat \ {0} : f[r - 1] = (RrfK + i) * k
      BY <1>6, <3>1
    <3>3. PICK b \in Nat : b = RrfK + i
      BY RetrievalAssumption
    <3>4. a * (b * k) = b * (a * k) /\ a * k \in Nat \ {0}
      OBVIOUS
    <3>5. m = b * k
      BY <1>7, <3>2, <3>3, Zenon
    <3>6. f[r] = b * (a * k)
      BY <1>9, <3>4, <3>5, Zenon
    <3> QED BY <3>3, <3>4, <3>6
  <2> QED BY <2>1, <2>2
<1>12. Divided(r)
  BY <1>10, <1>11
<1> QED BY <1>12

LEMMA ShareTimes ==
  ASSUME NEW r \in 1..Limit
  PROVE  /\ Share(r) \in Nat \ {0} /\ RrfK + r \in Nat \ {0} /\ Scale \in Nat
         /\ (RrfK + r) * Share(r) = Scale
<1>1. Limit \in Nat /\ RrfK \in Nat
  BY RetrievalAssumption
<1>2. PICK f : f = CHOOSE g : Products(g, Limit)
  OBVIOUS
<1>3. Products(f, Limit)
  <2>1. \E g : Products(g, Limit)
    BY <1>1, ProductsExist
  <2> QED BY <1>2, <2>1, Zenon
<1>4. f[Limit] = Scale
  BY <1>2, ScaleIsProduct
<1>5. PICK m \in Nat \ {0} : Scale = (RrfK + r) * m
  <2>1. Limit \in 0..Limit
    BY <1>1
  <2>2. \A i \in 1..Limit : \E m \in Nat \ {0} : f[Limit] = (RrfK + i) * m
    <3>1. \A q \in 0..Limit :
            /\ f[q] \in Nat \ {0}
            /\ \A i \in 1..q : \E m \in Nat \ {0} : f[q] = (RrfK + i) * m
      BY <1>1, <1>3, ProductsDivided
    <3> QED BY <2>1, <3>1, Zenon
  <2> QED BY <1>4, <2>2, Zenon
<1>6. PICK a \in Nat \ {0} : a = RrfK + r
  BY <1>1
<1>7. Scale = a * m /\ (a * m) \div a = m /\ a * m \in Nat
  BY <1>5, <1>6, Divides
<1>8. Share(r) = m
  BY <1>6, <1>7, Zenon DEF Share
<1> QED BY <1>5, <1>6, <1>7, <1>8

\* A better rank gives a larger share.
LEMMA ShareFalls ==
  ASSUME NEW i \in 1..Limit, NEW j \in 1..Limit, i < j
  PROVE  Share(i) > Share(j)
<1>1. Limit \in Nat /\ RrfK \in Nat
  BY RetrievalAssumption
<1>2. PICK m \in Nat \ {0} : m = Share(i)
  BY ShareTimes
<1>3. PICK k \in Nat \ {0} : k = Share(j)
  BY ShareTimes
<1>4. PICK a \in Nat \ {0} : a = RrfK + i
  BY <1>1
<1>5. PICK b \in Nat \ {0} : b = RrfK + j
  BY <1>1
<1>6. a * m = b * k /\ a < b
  BY <1>1, <1>2, <1>3, <1>4, <1>5, ShareTimes
<1>7. ASSUME m <= k PROVE FALSE
  <2>1. a * m <= a * k
    BY <1>7
  <2>2. a * k < b * k
    BY <1>6
  <2> QED BY <1>6, <2>1, <2>2
<1> QED BY <1>2, <1>3, <1>7

\* Two shares of any rank are more than one, if the cut is not far below rrf_k.
LEMMA TwoSharesWin ==
  ASSUME Limit <= RrfK + 1, NEW i \in 1..Limit, NEW j \in 1..Limit, NEW r \in 1..Limit
  PROVE  Share(i) + Share(j) > Share(r)
<1>1. Limit \in Nat \ {0} /\ RrfK \in Nat
  BY RetrievalAssumption
<1>2. 1 \in 1..Limit /\ Limit \in 1..Limit
  BY <1>1
<1>3. PICK m \in Nat \ {0} : m = Share(Limit)
  BY <1>2, ShareTimes
<1>4. PICK k \in Nat \ {0} : k = Share(1)
  BY <1>2, ShareTimes
<1>5. PICK a \in Nat \ {0} : a = RrfK + 1
  BY <1>1
<1>6. PICK b \in Nat \ {0} : b = RrfK + Limit
  BY <1>1
<1>7. a * k = b * m /\ b < 2 * a
  BY <1>1, <1>2, <1>3, <1>4, <1>5, <1>6, ShareTimes
<1>8. ASSUME 2 * m <= k PROVE FALSE
  <2>1. a * (2 * m) <= a * k
    BY <1>8
  <2>2. b * m < (2 * a) * m
    BY <1>7
  <2>3. (2 * a) * m = a * (2 * m)
    OBVIOUS
  <2> QED BY <1>7, <2>1, <2>2, <2>3
<1>9. /\ Share(i) \in Nat /\ Share(j) \in Nat /\ Share(r) \in Nat
      /\ Share(i) >= m /\ Share(j) >= m /\ Share(r) <= k
  BY <1>1, <1>2, <1>3, <1>4, ShareTimes, ShareFalls
<1> QED BY <1>8, <1>9

\* The parts that the score of c is the sum of.
Parts(c) == [n \in Listed(c) |-> Share(Rank(c, lists[n]))]

LEMMA ScoreIsTotal ==
  ASSUME NEW c, IsFiniteSet(Listed(c))
  PROVE  RrfScore(c) = Total(Parts(c), Listed(c))
<1> DEFINE D == Listed(c)
           w == Parts(c)
           R(it) == it = [t \in SUBSET D |->
                      IF t = {} THEN 0
                      ELSE Share(Rank(c, lists[CHOOSE x \in t : TRUE]))
                             + it[t \ {CHOOSE x \in t : TRUE}]]
<1>1. RrfScore(c) = (CHOOSE it : R(it))[D]
  BY Zenon DEF RrfScore, MapThenSumSet, MapThenFoldSet
<1>2. ASSUME NEW it PROVE R(it) <=> Adds(it, w, D)
  <2>1. \A t \in SUBSET D : t # {} => w[Some(t)] = Share(Rank(c, lists[Some(t)]))
    BY SomeIsIn DEF Parts
  <2>2. [t \in SUBSET D |-> IF t = {} THEN 0
                             ELSE Share(Rank(c, lists[Some(t)])) + it[t \ {Some(t)}]]
          = [t \in SUBSET D |-> IF t = {} THEN 0 ELSE w[Some(t)] + it[t \ {Some(t)}]]
    <3> HIDE DEF w, D
    <3> QED BY <2>1
  <2> HIDE DEF w, D
  <2> QED BY <2>2 DEF Adds, Some
<1> HIDE DEF w, R
<1>3. PICK jt : Adds(jt, w, D) /\ Total(w, D) = jt[D]
  BY TotalAdds
<1>4. R(CHOOSE it : R(it))
  <2>1. R(jt)
    BY <1>2, <1>3
  <2> QED BY <2>1, Zenon
<1>5. PICK it : it = CHOOSE i : R(i)
  OBVIOUS
<1>6. Adds(it, w, D) /\ RrfScore(c) = it[D]
  BY <1>1, <1>2, <1>4, <1>5
<1>7. D \subseteq D /\ Alike(w, w, D)
  BY DEF Alike
<1>8. \A t \in SUBSET D : it[t] = jt[t]
  BY <1>3, <1>6, <1>7, AddsAgree
<1> QED BY <1>3, <1>6, <1>8 DEF w

RankedLists ==
  /\ lists \in Seq(Seq(Chunk)) /\ Cut
  /\ \A n \in DOMAIN lists : IsList(lists[n])

LEMMA PlaceInList ==
  ASSUME RankedLists, NEW c, NEW n \in Listed(c)
  PROVE  Rank(c, lists[n]) \in 1..Limit
<1>1. n \in DOMAIN lists /\ c \in Elements(lists[n])
  BY DEF Listed
<1>2. PICK p \in DOMAIN lists[n] : lists[n][p] = c
  BY <1>1 DEF Elements
<1>3. Rank(c, lists[n]) \in DOMAIN lists[n]
  BY <1>2, Zenon DEF Rank
<1>4. DOMAIN lists[n] = 1..Len(lists[n]) /\ Len(lists[n]) \in Nat /\ Len(lists[n]) <= Limit
  BY <1>1, LenProperties DEF RankedLists, IsList, Cut
<1> QED BY <1>3, <1>4, RetrievalAssumption

LEMMA PartsTyped ==
  ASSUME RankedLists, NEW c
  PROVE  /\ IsFiniteSet(Listed(c)) /\ Listed(c) \subseteq 1..Len(lists)
         /\ \A n \in Listed(c) : Parts(c)[n] \in Nat \ {0}
<1>1. DOMAIN lists = 1..Len(lists) /\ Len(lists) \in Nat
  BY LenProperties DEF RankedLists
<1>2. Listed(c) \subseteq 1..Len(lists)
  BY <1>1 DEF Listed
<1>3. IsFiniteSet(1..Len(lists))
  BY <1>1, FS_Interval
<1>4. IsFiniteSet(Listed(c))
  BY <1>2, <1>3, FS_Subset
<1>5. \A n \in Listed(c) : Parts(c)[n] = Share(Rank(c, lists[n]))
  BY DEF Parts
<1> QED BY <1>2, <1>4, <1>5, PlaceInList, ShareTimes

Place(c, n) == IF n \in Listed(c) THEN Rank(c, lists[n]) ELSE Limit + 1

\* What is no lower in any list and higher in one has the higher score.
LEMMA BetterScores ==
  ASSUME RankedLists, NEW c, NEW d,
         \A n \in DOMAIN lists : Place(c, n) <= Place(d, n),
         NEW m \in DOMAIN lists, Place(c, m) < Place(d, m)
  PROVE  RrfScore(c) > RrfScore(d)
<1> DEFINE wc == Parts(c)
           wd == Parts(d)
           Lc == Listed(c)
           Ld == Listed(d)
<1>1. Limit \in Nat /\ Lc \subseteq DOMAIN lists /\ Ld \subseteq DOMAIN lists
  BY RetrievalAssumption DEF Listed
<1>2. /\ IsFiniteSet(Lc) /\ IsFiniteSet(Ld)
      /\ \A n \in Lc : wc[n] \in Nat \ {0}
      /\ \A n \in Ld : wd[n] \in Nat \ {0}
  BY PartsTyped
<1>3. /\ \A n \in Lc : Rank(c, lists[n]) \in 1..Limit
      /\ \A n \in Ld : Rank(d, lists[n]) \in 1..Limit
  BY PlaceInList
<1>4. \A n \in DOMAIN lists :
        /\ Place(c, n) = IF n \in Lc THEN Rank(c, lists[n]) ELSE Limit + 1
        /\ Place(d, n) = IF n \in Ld THEN Rank(d, lists[n]) ELSE Limit + 1
  BY DEF Place
<1>5. Ld \subseteq Lc /\ m \in Lc
  BY <1>1, <1>3, <1>4
<1>6. \A n \in Ld : Rank(c, lists[n]) <= Rank(d, lists[n])
  BY <1>1, <1>4, <1>5
<1>7. /\ \A n \in Lc : wc[n] = Share(Rank(c, lists[n]))
      /\ \A n \in Ld : wd[n] = Share(Rank(d, lists[n]))
  BY DEF Parts
<1>8. \A n \in Ld : wd[n] <= wc[n]
  <2> TAKE n \in Ld
  <2>1. PICK i \in 1..Limit : i = Rank(c, lists[n])
    BY <1>3, <1>5
  <2>2. PICK j \in 1..Limit : j = Rank(d, lists[n])
    BY <1>3
  <2>3. i <= j
    BY <1>6, <2>1, <2>2
  <2>4. wc[n] = Share(i) /\ wd[n] = Share(j)
    BY <1>5, <1>7, <2>1, <2>2
  <2>5. Share(i) \in Nat /\ Share(j) \in Nat /\ (i < j => Share(i) > Share(j))
    BY ShareTimes, ShareFalls
  <2> QED BY <2>3, <2>4, <2>5, <1>1
<1>9. RrfScore(c) = Total(wc, Lc) /\ RrfScore(d) = Total(wd, Ld)
  BY <1>2, ScoreIsTotal
<1> HIDE DEF wc, wd, Lc, Ld
<1>10. PICK U : U = Lc \ {m}
  OBVIOUS
<1>11. IsFiniteSet(U) /\ U \subseteq Lc
  BY <1>2, <1>10, FS_Subset
<1>12. Total(wc, Lc) = wc[m] + Total(wc, U)
  BY <1>2, <1>5, <1>10, TotalOneMore
<1>13. ASSUME NEW T, T \subseteq U, T \subseteq Ld
       PROVE  Total(wd, T) <= Total(wc, U) /\ Total(wd, T) \in Nat /\ Total(wc, U) \in Nat
  <2>1. IsFiniteSet(T)
    BY <1>11, <1>13, FS_Subset
  <2>2. \A n \in T : wd[n] \in Nat /\ wc[n] \in Nat /\ wd[n] <= wc[n]
    BY <1>2, <1>5, <1>8, <1>13
  <2>3. Total(wd, T) <= Total(wc, T)
    BY <2>1, <2>2, TotalMonotone
  <2>4. \A n \in U : wc[n] \in Nat
    BY <1>2, <1>11
  <2>5. Total(wc, T) <= Total(wc, U)
    BY <1>11, <1>13, <2>4, TotalOfPart
  <2>6. Total(wd, T) \in Nat /\ Total(wc, T) \in Nat /\ Total(wc, U) \in Nat
    BY <1>11, <2>1, <2>2, <2>4, TotalNat
  <2> QED BY <2>3, <2>5, <2>6
<1>14. CASE m \in Ld
  <2>1. PICK T : T = Ld \ {m}
    OBVIOUS
  <2>2. Total(wd, Ld) = wd[m] + Total(wd, T)
    BY <1>2, <1>14, <2>1, TotalOneMore
  <2>3. Total(wd, T) <= Total(wc, U) /\ Total(wd, T) \in Nat /\ Total(wc, U) \in Nat
    <3>1. T \subseteq U /\ T \subseteq Ld
      BY <1>5, <1>10, <2>1
    <3> QED BY <3>1, <1>13
  <2>4. wc[m] > wd[m]
    <3>1. PICK i \in 1..Limit : i = Rank(c, lists[m])
      BY <1>3, <1>5
    <3>2. PICK j \in 1..Limit : j = Rank(d, lists[m])
      BY <1>3, <1>14
    <3>3. i < j
      BY <1>1, <1>4, <1>5, <1>14, <3>1, <3>2
    <3>4. wc[m] = Share(i) /\ wd[m] = Share(j)
      BY <1>5, <1>7, <1>14, <3>1, <3>2
    <3> QED BY <3>3, <3>4, ShareFalls
  <2>5. wc[m] \in Nat /\ wd[m] \in Nat
    BY <1>2, <1>5, <1>14
  <2> QED BY <1>9, <1>12, <2>2, <2>3, <2>4, <2>5
<1>15. CASE m \notin Ld
  <2>1. Ld \subseteq U
    BY <1>5, <1>10, <1>15
  <2>2. Total(wd, Ld) <= Total(wc, U) /\ Total(wd, Ld) \in Nat /\ Total(wc, U) \in Nat
    BY <1>13, <2>1
  <2>3. wc[m] \in Nat \ {0}
    BY <1>2, <1>5
  <2> QED BY <1>9, <1>12, <2>2, <2>3
<1> QED BY <1>14, <1>15

\* What two lists hold has a higher score than what one of them holds.
LEMMA BothBeatOne ==
  ASSUME RankedLists, Limit <= RrfK + 1, Len(lists) = 2,
         NEW c, Cardinality(Listed(c)) = 2, NEW d, Cardinality(Listed(d)) = 1
  PROVE  RrfScore(c) > RrfScore(d)
<1>1. /\ IsFiniteSet(Listed(c)) /\ Listed(c) \subseteq 1..2
      /\ IsFiniteSet(Listed(d)) /\ Listed(d) \subseteq 1..2
      /\ \A n \in Listed(c) : Parts(c)[n] \in Nat
      /\ \A n \in Listed(d) : Parts(d)[n] \in Nat
  BY PartsTyped
<1>2. IsFiniteSet(1..2) /\ Cardinality(1..2) = 2
  <2>1. PICK a \in Int, b \in Int : a = 1 /\ b = 2
    OBVIOUS
  <2>2. IsFiniteSet(a..b) /\ Cardinality(a..b) = IF a > b THEN 0 ELSE b - a + 1
    BY FS_Interval
  <2>3. (IF a > b THEN 0 ELSE b - a + 1) = 2
    BY <2>1
  <2> QED BY <2>1, <2>2, <2>3, Zenon
<1>3. Listed(c) = 1..2
  BY <1>1, <1>2, FS_Subset
<1>4. PICK n : Listed(d) = {n}
  BY <1>1, FS_Singleton
<1>5. PICK i \in 1..Limit : i = Rank(c, lists[1])
  BY <1>3, PlaceInList
<1>6. PICK j \in 1..Limit : j = Rank(c, lists[2])
  BY <1>3, PlaceInList
<1>7. PICK r \in 1..Limit : r = Rank(d, lists[n])
  BY <1>4, PlaceInList
<1>8. /\ Parts(c)[1] = Share(i) /\ Parts(c)[2] = Share(j)
      /\ Parts(d)[n] = Share(r)
  BY <1>3, <1>4, <1>5, <1>6, <1>7 DEF Parts
<1>9. RrfScore(d) = Share(r)
  <2>1. RrfScore(d) = Parts(d)[n] + Total(Parts(d), {n} \ {n})
    BY <1>1, <1>4, ScoreIsTotal, TotalOneMore
  <2>2. {n} \ {n} = {}
    OBVIOUS
  <2>3. Total(Parts(d), {}) = 0
    BY TotalNone
  <2>4. Share(r) \in Nat
    BY ShareTimes
  <2> QED BY <1>8, <2>1, <2>2, <2>3, <2>4
<1>10. RrfScore(c) = Share(i) + Share(j)
  <2>1. RrfScore(c) = Parts(c)[1] + Total(Parts(c), {2})
    <3>1. (1..2) \ {1} = {2}
      OBVIOUS
    <3>2. RrfScore(c) = Total(Parts(c), Listed(c))
      BY <1>1, ScoreIsTotal
    <3>3. Total(Parts(c), Listed(c)) = Parts(c)[1] + Total(Parts(c), Listed(c) \ {1})
      BY <1>1, <1>3, TotalOneMore
    <3> QED BY <1>3, <3>1, <3>2, <3>3, Zenon
  <2>2. PICK S : S = {2}
    OBVIOUS
  <2>3. Total(Parts(c), S) = Parts(c)[2] + Total(Parts(c), S \ {2})
    <3>1. IsFiniteSet(S) /\ 2 \in S /\ \A x \in S : Parts(c)[x] \in Nat
      <4>1. IsFiniteSet(S)
        BY <2>2, FS_Singleton
      <4>2. 2 \in Listed(c)
        BY <1>3
      <4> QED BY <1>1, <2>2, <4>1, <4>2
    <3> QED BY <3>1, TotalOneMore
  <2>4. S \ {2} = {}
    BY <2>2
  <2>5. Total(Parts(c), S \ {2}) = 0
    BY <2>4, TotalNone
  <2>6. PICK x, y : x = Share(i) /\ y = Share(j) /\ x \in Nat /\ y \in Nat
    BY ShareTimes
  <2>7. RrfScore(c) = x + (y + 0)
    BY <1>8, <2>1, <2>2, <2>3, <2>5, <2>6, Zenon
  <2> QED BY <2>6, <2>7
<1> QED BY <1>9, <1>10, TwoSharesWin

ScoresAreTotals ==
  \A c : IsFiniteSet(Listed(c)) => RrfScore(c) = Total(Parts(c), Listed(c))

LEMMA Scores == ScoresAreTotals
BY ScoreIsTotal DEF ScoresAreTotals

LEMMA ScoresStay ==
  ASSUME RankedLists, UNCHANGED lists
  PROVE  \A c : RrfScore(c)' = RrfScore(c)
<1>1. ScoresAreTotals'
  BY Scores, PTL
<1> TAKE c
<1>2. Listed(c)' = Listed(c)
  BY DEF Listed, Elements
<1>3. Parts(c)' = Parts(c)
  BY <1>2 DEF Parts, Rank
<1>4. IsFiniteSet(Listed(c))
  BY PartsTyped
<1>5. RrfScore(c) = Total(Parts(c), Listed(c))
  BY <1>4, ScoreIsTotal
<1>6. RrfScore(c)' = Total(Parts(c)', Listed(c)')
  BY <1>1, <1>2, <1>4 DEF ScoresAreTotals
<1> QED BY <1>2, <1>3, <1>5, <1>6

LEMMA ByScoreStays ==
  ASSUME RankedLists, UNCHANGED <<lists, fused, pc>>, ByScore
  PROVE  ByScore'
<1>1. \A c : RrfScore(c)' = RrfScore(c)
  BY ScoresStay
<1>2. Everything' = Everything
  BY DEF Everything
<1> QED BY <1>1, <1>2 DEF ByScore

-----------------------------------------------------------------------------
(* The steps                                                               *)

LEMMA InitInv == Init => Inv
<1> SUFFICES ASSUME Init PROVE Inv
  OBVIOUS
<1> USE DEF Init
<1>1. DocsOK
  BY RetrievalAssumption DEF DocsOK
<1>2. Readable \subseteq Chunk /\ Readable \subseteq Real
  BY <1>1, StatementSees
<1>3. IsList(<<>>) /\ Elements(<<>>) = {} /\ Len(<<>>) = 0 /\ DOMAIN <<>> = {}
  BY EmptySeq DEF IsList, Injective, Elements
<1>4. ask.queries \in Nat \ {0} /\ ask.hybrid \in BOOLEAN
  BY AskTypes
<1>5. TypeOK
  BY <1>1, <1>2, <1>3, <1>4, RetrievalAssumption DEF TypeOK, DocsOK, Statements
<1>6. Placed
  BY <1>3, <1>4 DEF Placed
<1>7. Filtered /\ Known
  BY <1>2, <1>3 DEF Filtered, Known, OnlyWhatWasReadable
<1>8. Cut /\ ByScore
  BY <1>3 DEF Cut, ByScore
<1> QED BY <1>5, <1>6, <1>7, <1>8 DEF Inv

\* One more list of what a statement saw.
LEMMA FoundKeepsInv ==
  ASSUME Inv, NEW list, NEW next \in {"lexical", "query"}, Found(list, next),
         pc \in {"vector", "lexical", "trigram"},
         pc = "vector" => next = IF ask.hybrid THEN "lexical" ELSE "query",
         pc # "vector" => next = "query",
         IsList(list), Len(list) <= Limit, Elements(list) \subseteq Visible,
         pc = "vector" => Elements(list) \subseteq Searched
  PROVE  Inv'
<1> USE DEF Found
<1>1. /\ ask.queries \in Nat \ {0} /\ ask.hybrid \in BOOLEAN /\ query \in Nat \ {0}
      /\ query <= ask.queries
  BY SMTT(60), AskTypes DEF Inv, TypeOK, Placed
<1>2. /\ lists \in Seq(Seq(Chunk)) /\ list \in Seq(Chunk)
      /\ Len(lists) \in Nat /\ DOMAIN lists = 1..Len(lists)
  BY LenProperties DEF Inv, TypeOK, IsList
<1>3. Len(lists) = IF pc = "vector" THEN IF ask.hybrid THEN 2 * (query - 1) ELSE query - 1
                   ELSE 2 * (query - 1) + 1
  BY DEF Inv, Placed
<1>4. pc # "vector" => ask.hybrid
  BY DEF Inv, Placed
<1>5. /\ lists' \in Seq(Seq(Chunk)) /\ Len(lists') = Len(lists) + 1
      /\ DOMAIN lists' = 1..(Len(lists) + 1)
      /\ \A n \in 1..Len(lists) : lists'[n] = lists[n]
      /\ lists'[Len(lists) + 1] = list
  BY <1>2, AppendProperties, LenProperties
<1>6. \A n \in DOMAIN lists' : lists'[n] = IF n \in DOMAIN lists THEN lists[n] ELSE list
  BY <1>2, <1>5
<1>7. pc' \in {"vector", "lexical", "fusion"} /\ query' \in {query, query + 1}
  OBVIOUS
<1>8. Placed'
  <2>1. CASE next = "lexical"
    <3>1. pc = "vector" /\ ask.hybrid /\ pc' = "lexical" /\ query' = query /\ ask' = ask
      BY <2>1
    <3> QED BY <3>1, <1>1, <1>3, <1>5 DEF Placed
  <2>2. CASE next = "query"
    <3>1. /\ query' = query + 1 /\ ask' = ask
          /\ pc' = IF query < ask.queries THEN "vector" ELSE "fusion"
      BY <2>2
    <3>2. Len(lists') = IF ask.hybrid THEN 2 * query ELSE query
      BY <2>2, <1>1, <1>3, <1>4, <1>5
    <3> QED BY <3>1, <3>2, <1>1 DEF Placed
  <2> QED BY <2>1, <2>2
<1>9. Len(lists') <= 2 * ask.queries
  <2>1. query \in Nat \ {0} /\ ask.queries \in Nat /\ query <= ask.queries
    BY <1>1
  <2>2. Len(lists) <= 2 * query - 1
    BY <1>3, <2>1
  <2> QED BY <1>2, <1>5, <2>1, <2>2
<1>10. TypeOK'
  <2>1. \A n \in DOMAIN lists' : IsList(lists'[n])
    BY <1>6 DEF Inv, TypeOK
  <2>2. query' \in 1..(ask.queries + 1)
    BY <1>1, <1>7
  <2>3. pc' \in Statements \cup {"fusion", "done"}
    BY <1>7 DEF Statements
  <2> QED BY <1>5, <1>9, <2>1, <2>2, <2>3 DEF Inv, TypeOK, tables
<1>11. Filtered'
  <2>1. ASSUME NEW n \in DOMAIN lists', NEW c \in Elements(lists'[n])
        PROVE  Proper(c) /\ (Elsewhere(c) => ask.hybrid /\ n % 2 = 0)
    <3>1. CASE n \in DOMAIN lists
      BY <1>6, <2>1, <3>1 DEF Inv, Filtered
    <3>2. CASE n = Len(lists) + 1 /\ pc = "vector"
      BY <1>5, <2>1, <3>2, StatementFilters
    <3>3. CASE n = Len(lists) + 1 /\ pc # "vector"
      <4>1. n = 2 * query /\ query \in Nat
        BY <1>1, <1>3, <3>3
      <4>2. n % 2 = 0
        BY <4>1
      <4>3. c \in Visible
        BY <1>5, <2>1, <3>3
      <4> QED BY <1>4, <3>3, <4>2, <4>3, StatementFilters
    <3> QED BY <1>2, <1>5, <3>1, <3>2, <3>3
  <2> QED BY <2>1 DEF Inv, Filtered, Proper, Elsewhere
<1>12. Known'
  <2>1. Visible \subseteq Readable
    BY StatementSees DEF Inv, TypeOK, DocsOK
  <2>2. \A n \in DOMAIN lists' : Elements(lists'[n]) \subseteq seen
    BY <1>6, <2>1 DEF Inv, Known, OnlyWhatWasReadable
  <2> QED BY <2>2 DEF Inv, Known, OnlyWhatWasReadable, Readable, Allowed, ChunksOf, Size, tables
<1>13. Cut' /\ ByScore'
  BY <1>6, <1>7 DEF Inv, Cut, ByScore
<1> QED BY <1>8, <1>10, <1>11, <1>12, <1>13 DEF Inv

LEMMA SearchKeepsInv ==
  ASSUME Inv, VectorSearch \/ LexicalSearch \/ NoWordMatches \/ TrigramSearch
  PROVE  Inv'
<1>1. /\ Visible \subseteq Chunk /\ Searched \subseteq Chunk
      /\ Searched \subseteq Visible
  BY StatementSees DEF Inv, TypeOK, DocsOK
<1>2. ask.hybrid \in BOOLEAN
  BY AskTypes DEF Inv, TypeOK
<1>3. CASE VectorSearch
  <2>1. PICK list \in Rankings(Searched) : Found(list, IF ask.hybrid THEN "lexical" ELSE "query")
    BY <1>3 DEF VectorSearch
  <2>2. IsList(list) /\ Elements(list) \subseteq Searched /\ Len(list) <= Limit
    BY <1>1, RankingOfChunks
  <2>3. pc = "vector"
    BY <1>3 DEF VectorSearch
  <2>4. (IF ask.hybrid THEN "lexical" ELSE "query") \in {"lexical", "query"}
    OBVIOUS
  <2> QED BY <2>1, <2>2, <2>3, <2>4, <1>1, FoundKeepsInv
<1>4. CASE LexicalSearch
  <2>1. PICK list \in Rankings(Searched) : Found(list, "query")
    BY <1>4 DEF LexicalSearch
  <2>2. IsList(list) /\ Elements(list) \subseteq Visible /\ Len(list) <= Limit
    BY <1>1, RankingOfChunks
  <2>3. pc = "lexical"
    BY <1>4 DEF LexicalSearch
  <2> QED BY <2>1, <2>2, <2>3, FoundKeepsInv
<1>5. CASE TrigramSearch
  <2>1. PICK list \in Rankings(Visible) : Found(list, "query")
    BY <1>5 DEF TrigramSearch
  <2>2. IsList(list) /\ Elements(list) \subseteq Visible /\ Len(list) <= Limit
    BY <1>1, RankingOfChunks
  <2>3. pc = "trigram"
    BY <1>5 DEF TrigramSearch
  <2> QED BY <2>1, <2>2, <2>3, FoundKeepsInv
<1>6. CASE NoWordMatches
  BY <1>6 DEF NoWordMatches, Inv, TypeOK, Placed, Filtered, Known, OnlyWhatWasReadable, Readable,
     Allowed, ChunksOf, Size, Proper, Elsewhere, tables, Statements, Cut, ByScore
<1> QED BY <1>3, <1>4, <1>5, <1>6

\* The fusion takes chunks from the lists.
LEMMA FuseKeepsInv == Inv /\ Fuse => Inv'
<1> SUFFICES ASSUME Inv, Fuse PROVE Inv'
  OBVIOUS
<1> DEFINE all == UNION {Elements(lists[n]) : n \in DOMAIN lists}
<1>1. fused' \in Rankings(all)
  BY DEF Fuse
<1>2. all \subseteq Chunk
  <2>1. \A n \in DOMAIN lists : lists[n] \in Seq(Chunk)
    BY DEF Inv, TypeOK, IsList
  <2> QED BY <2>1, LenProperties, ElementOfSeq DEF Elements
<1>3. IsList(fused') /\ Elements(fused') \subseteq all
  BY <1>1, <1>2, RankingOfChunks
<1>4. UNCHANGED <<tables, ask, query, lists, candidates, seen>>
      /\ pc' = IF fused' = <<>> THEN "done" ELSE "neighbours"
  BY DEF Fuse
<1>5. TypeOK'
  BY <1>3, <1>4 DEF Inv, TypeOK, tables, Statements
<1>6. Placed'
  BY <1>4 DEF Placed
<1>7. Filtered'
  <2>1. ASSUME NEW c \in Elements(fused')
        PROVE  Proper(c) /\ (Elsewhere(c) => ask.hybrid)
    <3>1. PICK n \in DOMAIN lists : c \in Elements(lists[n])
      BY <1>3
    <3> QED BY <3>1 DEF Inv, Filtered
  <2> QED BY <1>4, <2>1 DEF Inv, Filtered, Proper, Elsewhere
<1>8. Known'
  <2>1. all \subseteq seen
    BY DEF Inv, Known, OnlyWhatWasReadable
  <2> QED BY <1>3, <1>4, <2>1 DEF Inv, Known, OnlyWhatWasReadable, Readable, Allowed, ChunksOf, Size, tables
<1>9. ByScore'
  <2>1. \A c : RrfScore(c)' = RrfScore(c)
    BY <1>4, ScoresStay DEF Inv, TypeOK, RankedLists
  <2>2. /\ \A p, q \in DOMAIN fused' : p < q => RrfScore(fused'[p]) >= RrfScore(fused'[q])
        /\ \A c \in all \ Elements(fused') :
             \A p \in DOMAIN fused' : RrfScore(fused'[p]) >= RrfScore(c)
    BY Zenon DEF Fuse
  <2>3. Everything' = all
    BY <1>4 DEF Everything
  <2> HIDE DEF all
  <2> QED BY <2>1, <2>2, <2>3, Zenon DEF ByScore
<1>10. Cut'
  BY <1>4 DEF Inv, Cut
<1> QED BY <1>5, <1>6, <1>7, <1>8, <1>9, <1>10 DEF Inv

\* The neighbours have the file of the chunk that they stand beside.
LEMMA ExpandKeepsInv == Inv /\ ExpandAndRerank => Inv'
<1> SUFFICES ASSUME Inv, ExpandAndRerank PROVE Inv'
  OBVIOUS
<1> DEFINE before == Beside(fused[1], -1, Elements(fused))
           after == Beside(fused[1], 1, Elements(fused))
<1>1. /\ fused' = fused \o before \o after /\ candidates' \in Reranked(fused')
      /\ pc = "neighbours" /\ pc' = "done" /\ lists' = <<>>
      /\ UNCHANGED <<tables, ask, query, seen>>
  BY DEF ExpandAndRerank, Expand
<1>2. IsList(fused) /\ fused # <<>> /\ ask \in Asks
  BY <1>1 DEF Inv, TypeOK, Placed
<1>3. fused[1] \in Elements(fused) /\ fused[1] \in Chunk
  <2>1. fused \in Seq(Chunk) /\ Len(fused) \in Nat \ {0} /\ DOMAIN fused = 1..Len(fused)
    BY <1>2, EmptySeq, LenProperties DEF IsList
  <2>2. 1 \in DOMAIN fused
    BY <2>1
  <2> QED BY <2>1, <2>2, ElementOfSeq DEF Elements
<1>4. Readable \subseteq Chunk
  BY StatementSees DEF Inv, TypeOK, DocsOK
<1>5. /\ IsList(before)
      /\ \A d \in Elements(before) :
           /\ d \in Readable \ Elements(fused)
           /\ d.content = fused[1].content /\ d.index = fused[1].index - 1
  <2> HIDE DEF before
  <2>1. /\ IsList(before)
        /\ \A d \in Elements(before) :
             /\ d \in Readable \ Elements(fused)
             /\ d.content = fused[1].content /\ d.index = fused[1].index + (-1)
    BY <1>3, <1>4, BesideIsList DEF before
  <2>2. fused[1].index \in Nat
    BY <1>3 DEF Chunk
  <2> QED BY <2>1, <2>2
<1>6. /\ IsList(after)
      /\ \A d \in Elements(after) :
           /\ d \in Readable \ Elements(fused)
           /\ d.content = fused[1].content /\ d.index = fused[1].index + 1
  BY <1>3, <1>4, BesideIsList
<1> HIDE DEF before, after
<1>7. /\ IsList(fused \o before)
      /\ Elements(fused \o before) = Elements(fused) \cup Elements(before)
  BY <1>2, <1>5, Extended
<1>8. Elements(fused \o before) \cap Elements(after) = {}
  <2>1. fused[1].index \in Nat
    BY <1>3 DEF Chunk
  <2>2. ASSUME NEW d \in Elements(before), d \in Elements(after) PROVE FALSE
    BY <1>5, <1>6, <2>1, <2>2
  <2> QED BY <1>6, <1>7, <2>2
<1>9. /\ IsList(fused')
      /\ Elements(fused') = Elements(fused) \cup Elements(before) \cup Elements(after)
  BY <1>1, <1>6, <1>7, <1>8, Extended
<1>10. IsList(candidates') /\ Elements(candidates') \subseteq Elements(fused')
  BY <1>1, <1>2, <1>9, RerankedIsList
<1>11. lists' \in Seq(Seq(Chunk)) /\ Len(lists') = 0 /\ DOMAIN lists' = {}
  BY <1>1, EmptySeq
<1>12. TypeOK'
  <2>1. 0 <= 2 * ask.queries
    BY <1>2, AskTypes
  <2> QED BY <1>1, <1>9, <1>10, <1>11, <2>1 DEF Inv, TypeOK, tables
<1>13. Placed'
  BY <1>1 DEF Placed
<1>14. Filtered'
  <2>1. ASSUME NEW c \in Elements(fused')
        PROVE  Proper(c) /\ (Elsewhere(c) => ask.hybrid)
    <3>1. PICK d \in Elements(fused) : c.content = d.content
      BY <1>3, <1>5, <1>6, <1>9
    <3>2. Proper(d) /\ (Elsewhere(d) => ask.hybrid)
      BY DEF Inv, Filtered
    <3> QED BY <3>1, <3>2 DEF Proper, Elsewhere
  <2> QED BY <1>1, <1>10, <1>11, <2>1 DEF Filtered, Proper, Elsewhere
<1>15. Known'
  <2>1. Elements(fused') \subseteq seen
    BY <1>5, <1>6, <1>9 DEF Inv, Known, OnlyWhatWasReadable
  <2>2. Readable' \subseteq seen'
    BY <1>1 DEF Inv, Known, Readable, Allowed, ChunksOf, Size, tables
  <2>3. seen' \subseteq Real
    BY <1>1 DEF Inv, Known
  <2> QED BY <1>1, <1>10, <1>11, <2>1, <2>2, <2>3 DEF Known, OnlyWhatWasReadable
<1>16. Cut' /\ ByScore'
  BY <1>1, <1>11 DEF Cut, ByScore
<1> QED BY <1>12, <1>13, <1>14, <1>15, <1>16 DEF Inv

\* Documents keep their type, whatever becomes of them.
LEMMA WorldKeepsDocs ==
  ASSUME DocsOK, used \subseteq Ids, World!Next
  PROVE  DocsOK' /\ used' \subseteq Ids
<1>1. PICK i \in Ids :
        \/ \E d \in World!Document :
             World!Put(i, d, {}) \/ \E k \in DOMAIN docs : World!Put(i, d, {k})
        \/ World!Remove(i)
        \/ World!Waste(i)
  BY DEF World!Next
<1>2. ASSUME NEW d \in World!Document, NEW old, World!Put(i, d, old)
      PROVE  DocsOK' /\ used' \subseteq Ids
  BY <1>2 DEF World!Put, World!Become, DocsOK
<1>3. CASE World!Remove(i)
  BY <1>3 DEF World!Remove, World!Become, DocsOK
<1>4. CASE World!Waste(i)
  BY <1>4 DEF World!Waste, DocsOK
<1> QED BY <1>1, <1>2, <1>3, <1>4

LEMMA EditKeepsInv == Inv /\ Edit => Inv'
<1> SUFFICES ASSUME Inv, Edit PROVE Inv'
  OBVIOUS
<1>1. /\ UNCHANGED <<ask, pc, query, lists, fused, candidates>>
      /\ edits \in Nat /\ edits < MaxEdits /\ edits' = edits + 1 /\ seen' = seen \cup Readable'
  BY DEF Edit, Inv, TypeOK
<1>2. DocsOK' /\ used' \subseteq Ids /\ held' \subseteq Roles
  <2>1. CASE World!Next /\ held' = held
    BY <2>1, WorldKeepsDocs DEF Inv, TypeOK, DocsOK
  <2>2. CASE held' \in SUBSET Roles /\ UNCHANGED <<docs, used>>
    BY <2>2 DEF Inv, TypeOK, DocsOK
  <2> QED BY <2>1, <2>2 DEF Edit
<1>3. Readable' \subseteq Chunk /\ Readable' \subseteq Real
  <2>1. (DocsOK => Readable \subseteq Chunk /\ Readable \subseteq Real)'
    BY ReadableAreChunks, PTL
  <2> QED BY <1>2, <2>1
<1>4. edits' \in 0..MaxEdits
  BY <1>1, RetrievalAssumption
<1>5. TypeOK'
  BY <1>1, <1>2, <1>3, <1>4 DEF Inv, TypeOK, DocsOK, Chunk
<1>6. Placed' /\ Filtered'
  BY <1>1 DEF Inv, Placed, Filtered, Proper, Elsewhere
<1>7. Known'
  BY <1>1, <1>3 DEF Inv, Known, OnlyWhatWasReadable
<1>8. Cut' /\ ByScore'
  BY <1>1, ByScoreStays DEF Inv, Cut, TypeOK, RankedLists
<1> QED BY <1>5, <1>6, <1>7, <1>8 DEF Inv

LEMMA NextInv == Inv /\ [Next]_vars => Inv'
<1> SUFFICES ASSUME Inv, [Next]_vars PROVE Inv'
  OBVIOUS
<1>1. CASE VectorSearch \/ LexicalSearch \/ NoWordMatches \/ TrigramSearch
  BY <1>1, SearchKeepsInv
<1>2. CASE UNCHANGED vars
  <2>1. Cut' /\ ByScore'
    BY <1>2, ByScoreStays DEF vars, Inv, Cut, TypeOK, RankedLists
  <2> QED BY <1>2, <2>1 DEF vars, tables, Inv, TypeOK, Placed, Filtered, Known,
     OnlyWhatWasReadable, Readable, Allowed, ChunksOf, Size, Proper, Elsewhere
<1> QED BY <1>1, <1>2, FuseKeepsInv, ExpandKeepsInv, EditKeepsInv DEF Next

LEMMA Invariance == Spec => []Inv
BY InitInv, NextInv, PTL DEF Spec

-----------------------------------------------------------------------------
(* The context                                                             *)

LEMMA TokensAreTotal ==
  ASSUME NEW s, IsFiniteSet(DOMAIN s)
  PROVE  TokensOf(s) = Total([p \in DOMAIN s |-> Tokens(s[p])], DOMAIN s)
<1> DEFINE D == DOMAIN s
           w == [p \in D |-> Tokens(s[p])]
           R(it) == it = [t \in SUBSET D |->
                      IF t = {} THEN 0
                      ELSE Tokens(s[CHOOSE x \in t : TRUE]) + it[t \ {CHOOSE x \in t : TRUE}]]
<1>1. TokensOf(s) = (CHOOSE it : R(it))[D]
  BY Zenon DEF TokensOf, MapThenSumSet, MapThenFoldSet
<1>2. ASSUME NEW it PROVE R(it) <=> Adds(it, w, D)
  <2>1. \A t \in SUBSET D : t # {} => w[Some(t)] = Tokens(s[Some(t)])
    BY SomeIsIn
  <2>2. [t \in SUBSET D |-> IF t = {} THEN 0 ELSE Tokens(s[Some(t)]) + it[t \ {Some(t)}]]
          = [t \in SUBSET D |-> IF t = {} THEN 0 ELSE w[Some(t)] + it[t \ {Some(t)}]]
    <3> HIDE DEF w, D
    <3> QED BY <2>1
  <2> HIDE DEF w, D
  <2> QED BY <2>2 DEF Adds, Some
<1> HIDE DEF w, R
<1>3. PICK jt : Adds(jt, w, D) /\ Total(w, D) = jt[D]
  BY TotalAdds
<1>4. R(CHOOSE it : R(it))
  <2>1. R(jt)
    BY <1>2, <1>3
  <2> QED BY <2>1, Zenon
<1>5. PICK it : it = CHOOSE i : R(i)
  OBVIOUS
<1>6. Adds(it, w, D) /\ TokensOf(s) = it[D]
  BY <1>1, <1>2, <1>4, <1>5
<1>7. D \subseteq D /\ Alike(w, w, D)
  BY DEF Alike
<1>8. \A t \in SUBSET D : it[t] = jt[t]
  BY <1>3, <1>6, <1>7, AddsAgree
<1> QED BY <1>3, <1>6, <1>8 DEF w

Nothing == [chosen |-> <<>>, tokens |-> 0, starts |-> {}, full |-> FALSE]
Turns(f, s, n) == f = [k \in 0..n |-> IF k = 0 THEN Nothing ELSE Take(f[k - 1], s[k])]

LEMMA ContextIsLastTurn ==
  ASSUME NEW s
  PROVE  BuildContext(s) = (CHOOSE f : Turns(f, s, Len(s)))[Len(s)].chosen
BY Zenon DEF BuildContext, Turns, Nothing

LEMMA TurnsExist ==
  ASSUME NEW s, NEW n \in Nat
  PROVE  \E f : Turns(f, s, n)
<1> DEFINE B == {m \in Nat : ~\E f : Turns(f, s, m)}
<1>1. SUFFICES ASSUME B # {} PROVE FALSE
  OBVIOUS
<1>2. PICK m \in B : \A k \in B : m <= k
  <2>1. B \in SUBSET Nat
    OBVIOUS
  <2> HIDE DEF B
  <2> QED BY <1>1, <2>1, LeastNumber
<1>3. CASE m = 0
  <2> DEFINE f == [k \in 0..0 |-> Nothing]
  <2>1. f = [k \in 0..0 |-> IF k = 0 THEN Nothing ELSE Take(f[k - 1], s[k])]
    OBVIOUS
  <2>2. Turns(f, s, 0)
    BY <2>1 DEF Turns
  <2> QED BY <1>3, <2>2
<1>4. CASE m # 0
  <2>1. m \in Nat /\ m - 1 \in Nat /\ ~(m <= m - 1)
    BY <1>4
  <2>2. PICK g : Turns(g, s, m - 1)
    BY <1>2, <2>1
  <2> DEFINE f == [k \in 0..m |-> IF k = 0 THEN Nothing ELSE Take(g[k - 1], s[k])]
  <2>3. \A k \in 0..(m - 1) : g[k] = IF k = 0 THEN Nothing ELSE Take(g[k - 1], s[k])
    BY <2>2 DEF Turns
  <2>4. \A k \in 0..(m - 1) : f[k] = g[k]
    BY <2>1, <2>3
  <2>5. \A k \in 0..m : f[k] = IF k = 0 THEN Nothing ELSE Take(f[k - 1], s[k])
    <3> TAKE k \in 0..m
    <3>1. k # 0 => k - 1 \in 0..(m - 1)
      BY <2>1
    <3>2. f[k] = IF k = 0 THEN Nothing ELSE Take(g[k - 1], s[k])
      OBVIOUS
    <3> HIDE DEF f
    <3> QED BY <2>4, <3>1, <3>2
  <2>6. f = [k \in 0..m |-> f[k]]
    OBVIOUS
  <2>7. Turns(f, s, m)
    <3> HIDE DEF f
    <3>1. [k \in 0..m |-> f[k]] =
            [k \in 0..m |-> IF k = 0 THEN Nothing ELSE Take(f[k - 1], s[k])]
      BY <2>5
    <3> QED BY <2>6, <3>1 DEF Turns
  <2> QED BY <2>7
<1> QED BY <1>3, <1>4

LEMMA RealPieces ==
  ASSUME NEW c \in Real
  PROVE  Tokens(c) \in Nat /\ Start(c) \in Nat
<1>1. c.content \in Contents /\ c.index + 1 \in DOMAIN Pieces[c.content]
  BY DEF Real, Chunk
<1>2. Pieces[c.content] \in Seq(Piece)
  BY <1>1, RetrievalAssumption
<1>3. Pieces[c.content][c.index + 1] \in Piece
  BY <1>1, <1>2, ElementOfSeq, LenProperties
<1> QED BY <1>3 DEF Tokens, Start, Piece

\* Where the loop stands in the list: at its end, or past the chunk that did not fit.
CutAt(a, s, k, n) ==
  /\ Elements(a.chosen) = Unrepeated(s, k)
  /\ ~a.full => k = n
  /\ a.full =>
       /\ k < n /\ a.tokens + Tokens(s[k + 1]) > Budget
       /\ \A d \in Elements(a.chosen) : Start(d) # Start(s[k + 1])

Collected == [chosen : Seq(Chunk), tokens : Nat, starts : SUBSET Nat, full : BOOLEAN]

\* What the loop of build_context has collected after n turns.
LoopInv(a, s, n) ==
  /\ a \in Collected
  /\ n = 0 => a = Nothing
  /\ n > 0 => a.chosen # <<>> /\ a.chosen[1] = s[1]
  /\ \A i \in DOMAIN a.chosen : \E p \in 1..n : a.chosen[i] = s[p]
  /\ a.starts = {Start(c) : c \in Elements(a.chosen)}
  /\ \A i, j \in DOMAIN a.chosen : Start(a.chosen[i]) = Start(a.chosen[j]) => i = j
  /\ a.tokens = TokensOf(a.chosen)
  /\ a.tokens <= Budget \/ Len(a.chosen) = 1
  /\ \E k \in 0..n : CutAt(a, s, k, n)

LEMMA NoTokens == TokensOf(<<>>) = 0
<1>1. DOMAIN <<>> = {} /\ IsFiniteSet({})
  BY EmptySeq, FS_EmptySet
<1>2. TokensOf(<<>>) = Total([p \in DOMAIN <<>> |-> Tokens(<<>>[p])], DOMAIN <<>>)
  BY <1>1, TokensAreTotal
<1> QED BY <1>1, <1>2, TotalNone

LEMMA OneMoreChunk ==
  ASSUME NEW s \in Seq(Chunk), \A i \in DOMAIN s : Tokens(s[i]) \in Nat,
         NEW c \in Chunk, Tokens(c) \in Nat
  PROVE  TokensOf(Append(s, c)) = TokensOf(s) + Tokens(c)
<1> DEFINE t == Append(s, c)
           n == Len(s)
           v == [p \in DOMAIN s |-> Tokens(s[p])]
           w == [p \in DOMAIN t |-> Tokens(t[p])]
<1>1. n \in Nat /\ DOMAIN s = 1..n
  BY LenProperties
<1>2. /\ t \in Seq(Chunk) /\ DOMAIN t = 1..(n + 1)
      /\ t[n + 1] = c /\ \A i \in 1..n : t[i] = s[i]
  BY <1>1, AppendProperties, LenProperties
<1>3. IsFiniteSet(1..n) /\ IsFiniteSet(1..(n + 1))
  BY <1>1, FS_Interval
<1> HIDE DEF t, n
<1>4. TokensOf(s) = Total(v, 1..n) /\ TokensOf(t) = Total(w, 1..(n + 1))
  BY <1>1, <1>2, <1>3, TokensAreTotal
<1>5. \A p \in 1..(n + 1) : w[p] = IF p = n + 1 THEN Tokens(c) ELSE v[p]
  BY <1>1, <1>2
<1>6. \A p \in 1..n : v[p] \in Nat
  BY <1>1
<1> HIDE DEF v, w
<1>7. \A p \in 1..(n + 1) : w[p] \in Nat
  BY <1>5, <1>6, <1>1
<1>8. (1..(n + 1)) \ {n + 1} = 1..n /\ n + 1 \in 1..(n + 1)
  BY <1>1
<1>9. Total(w, 1..(n + 1)) = w[n + 1] + Total(w, 1..n)
  <2>1. PICK S : S = 1..(n + 1)
    OBVIOUS
  <2>2. IsFiniteSet(S) /\ n + 1 \in S /\ \A p \in S : w[p] \in Nat
    BY <1>3, <1>7, <1>8, <2>1
  <2>3. Total(w, S) = w[n + 1] + Total(w, S \ {n + 1})
    BY <2>2, TotalOneMore
  <2> QED BY <1>8, <2>1, <2>3, Zenon
<1>10. Total(w, 1..n) = Total(v, 1..n)
  <2>1. \A p \in 1..n : w[p] = v[p]
    BY <1>1, <1>5
  <2> QED BY <1>3, <2>1, TotalSame
<1>11. Total(v, 1..n) \in Nat /\ w[n + 1] = Tokens(c)
  BY <1>3, <1>5, <1>6, <1>8, TotalNat
<1>12. TokensOf(t) = Tokens(c) + TokensOf(s) /\ TokensOf(s) \in Nat
  BY <1>4, <1>9, <1>10, <1>11
<1>13. TokensOf(t) = TokensOf(s) + Tokens(c)
  BY <1>12
<1> QED BY <1>13 DEF t

\* Whatever is passed over as a repetition repeats one that is not.
LEMMA Represented ==
  ASSUME NEW s, NEW n \in Nat, NEW p \in 1..n
  PROVE  \E d \in Unrepeated(s, n) : Start(d) = Start(s[p])
<1> DEFINE B == {q \in 1..n : Start(s[q]) = Start(s[p])}
<1>1. PICK q \in B : \A r \in B : q <= r
  <2>1. B \in SUBSET Nat /\ B # {}
    OBVIOUS
  <2> HIDE DEF B
  <2> QED BY <2>1, LeastNumber
<1>2. \A r \in 1..(q - 1) : r \in 1..n /\ ~(q <= r)
  OBVIOUS
<1>3. \A r \in 1..(q - 1) : Start(s[r]) # Start(s[q])
  BY <1>1, <1>2
<1> QED BY <1>1, <1>3 DEF Unrepeated

LEMMA OneFurther ==
  ASSUME NEW s, NEW n \in Nat, n # 0
  PROVE  Unrepeated(s, n) =
           Unrepeated(s, n - 1) \cup
             (IF \A r \in 1..(n - 1) : Start(s[r]) # Start(s[n]) THEN {s[n]} ELSE {})
<1>1. 1..n = (1..(n - 1)) \cup {n} /\ n - 1 \in Nat
  OBVIOUS
<1> QED BY <1>1, Zenon DEF Unrepeated

LEMMA TurnKeeps ==
  ASSUME NEW s \in Seq(Chunk), Elements(s) \subseteq Real, NEW n \in 1..Len(s),
         NEW a, LoopInv(a, s, n - 1)
  PROVE  LoopInv(Take(a, s[n]), s, n)
<1> DEFINE c == s[n]
           b == Take(a, c)
<1>1. /\ Len(s) \in Nat /\ DOMAIN s = 1..Len(s) /\ n \in Nat /\ n - 1 \in Nat
      /\ 1..(n - 1) \subseteq 1..n
  BY LenProperties
<1>2. c \in Chunk /\ Tokens(c) \in Nat /\ Start(c) \in Nat
  BY <1>1, RealPieces DEF Elements, Real
<1>3. /\ a \in Collected /\ a.chosen \in Seq(Chunk) /\ a.tokens \in Nat
      /\ a.starts \in SUBSET Nat /\ a.full \in BOOLEAN
      /\ Len(a.chosen) \in Nat /\ DOMAIN a.chosen = 1..Len(a.chosen)
  BY LenProperties DEF LoopInv, Collected
<1>4. n - 1 = 0 => a.chosen = <<>> /\ a.starts = {} /\ a.full = FALSE
  <2>1. n - 1 = 0 => a = Nothing
    BY Zenon DEF LoopInv
  <2>2. Nothing.chosen = <<>> /\ Nothing.starts = {} /\ Nothing.full = FALSE
    BY DEF Nothing
  <2> HIDE DEF c, b
  <2> QED BY <2>1, <2>2, Zenon
<1>5. n - 1 > 0 => a.chosen # <<>> /\ a.chosen[1] = s[1]
  BY DEF LoopInv
<1>6. \A d \in Elements(a.chosen) : \E p \in 1..(n - 1) : d = s[p]
  BY DEF LoopInv, Elements
<1>7. a.starts = {Start(d) : d \in Elements(a.chosen)}
  BY DEF LoopInv
<1>8. PICK k \in 0..(n - 1) : CutAt(a, s, k, n - 1)
  BY DEF LoopInv
<1>9. n # 0 /\ k \in 0..n /\ n \in 0..n /\ n - 1 \in 0..n /\ n - 1 < n /\ (n - 1) + 1 = n
  BY <1>1
<1>10. ~a.full => Elements(a.chosen) = Unrepeated(s, n - 1)
  BY <1>8 DEF CutAt
<1>11. n \in Nat /\ Unrepeated(s, n) = Unrepeated(s, n - 1) \cup
         (IF \A r \in 1..(n - 1) : Start(s[r]) # Start(c) THEN {c} ELSE {})
  BY <1>1, <1>9, OneFurther
<1> HIDE DEF c
<1>12. CASE a.full \/ Start(c) \in a.starts
  <2>1. b = a
    BY <1>12 DEF Take
  <2>2. n - 1 > 0
    BY <1>1, <1>3, <1>4, <1>12
  <2>4. \E m \in 0..n : CutAt(a, s, m, n)
    <3>1. CASE a.full
      <4>1. k < n - 1 => k < n
        BY <1>1
      <4>2. CutAt(a, s, k, n)
        BY <3>1, <4>1, <1>8 DEF CutAt
      <4> QED BY <4>2, <1>9
    <3>2. CASE ~a.full
      <4>1. PICK d \in Elements(a.chosen) : Start(c) = Start(d)
        BY <3>2, <1>7, <1>12
      <4>2. PICK p \in 1..(n - 1) : d = s[p]
        BY <1>6
      <4>3. Unrepeated(s, n) = Unrepeated(s, n - 1)
        BY <4>1, <4>2, <1>11
      <4>4. CutAt(a, s, n, n)
        BY <3>2, <4>3, <1>10 DEF CutAt
      <4> QED BY <4>4, <1>9
    <3> QED BY <3>1, <3>2
  <2>5. \A i \in DOMAIN a.chosen : \E p \in 1..n : a.chosen[i] = s[p]
    BY <1>1 DEF LoopInv
  <2>6. LoopInv(a, s, n)
    BY <2>2, <2>4, <2>5, <1>1 DEF LoopInv
  <2> QED BY <2>1, <2>6 DEF c
<1>13. CASE /\ ~(a.full \/ Start(c) \in a.starts)
            /\ a.tokens + Tokens(c) > Budget /\ a.chosen # <<>>
  <2>1. b = [a EXCEPT !.full = TRUE]
    BY <1>13 DEF Take
  <2>2. /\ b \in Collected /\ b.chosen = a.chosen /\ b.tokens = a.tokens
        /\ b.starts = a.starts /\ b.full = TRUE
    BY <2>1, <1>3 DEF Collected
  <2> HIDE DEF b
  <2>3. n - 1 > 0
    BY <1>1, <1>4, <1>13
  <2>4. \E m \in 0..n : CutAt(b, s, m, n)
    <3>1. \A d \in Elements(a.chosen) : Start(d) # Start(c)
      BY <1>7, <1>13
    <3>2. b.tokens + Tokens(c) > Budget /\ Elements(b.chosen) = Unrepeated(s, n - 1)
      BY <1>13, <1>10, <2>2
    <3>3. s[(n - 1) + 1] = c
      BY <1>9 DEF c
    <3>4. CutAt(b, s, n - 1, n)
      BY <1>9, <2>2, <3>1, <3>2, <3>3 DEF CutAt
    <3> QED BY <3>4, <1>9
  <2>5. \A i \in DOMAIN b.chosen : \E p \in 1..n : b.chosen[i] = s[p]
    BY <1>1, <2>2 DEF LoopInv
  <2>6. LoopInv(b, s, n)
    BY <2>2, <2>3, <2>4, <2>5, <1>1 DEF LoopInv
  <2> QED BY <2>6 DEF b, c
<1>14. CASE /\ ~(a.full \/ Start(c) \in a.starts)
            /\ ~(a.tokens + Tokens(c) > Budget /\ a.chosen # <<>>)
  <2> DEFINE m == Len(a.chosen)
             t == Append(a.chosen, c)
  <2>1. b = [chosen |-> t, tokens |-> a.tokens + Tokens(c),
             starts |-> a.starts \cup {Start(c)}, full |-> FALSE]
    BY <1>14 DEF Take
  <2>2. /\ t \in Seq(Chunk) /\ Len(t) = m + 1 /\ DOMAIN t = 1..(m + 1)
        /\ t[m + 1] = c /\ \A i \in 1..m : t[i] = a.chosen[i]
    BY <1>2, <1>3, AppendProperties, LenProperties
  <2>3. TokensOf(t) = TokensOf(a.chosen) + Tokens(c)
    <3>1. \A i \in DOMAIN a.chosen : Tokens(a.chosen[i]) \in Nat
      <4> TAKE i \in DOMAIN a.chosen
      <4>1. PICK p \in 1..(n - 1) : a.chosen[i] = s[p]
        BY DEF LoopInv
      <4>2. s[p] \in Real
        BY <1>1 DEF Elements
      <4> QED BY <4>1, <4>2, RealPieces
    <3> QED BY <3>1, <1>2, <1>3, OneMoreChunk
  <2> HIDE DEF t
  <2>4. /\ b \in Collected /\ b.chosen = t /\ b.tokens = a.tokens + Tokens(c)
        /\ b.starts = a.starts \cup {Start(c)} /\ b.full = FALSE
    BY <2>1, <2>2, <1>2, <1>3 DEF Collected
  <2> HIDE DEF b
  <2>5. Elements(t) = Elements(a.chosen) \cup {c}
    <3>1. ASSUME NEW i \in DOMAIN t PROVE t[i] \in Elements(a.chosen) \cup {c}
      <4>1. CASE i = m + 1
        BY <2>2, <4>1
      <4>2. CASE i \in 1..m
        BY <1>3, <2>2, <4>2 DEF Elements
      <4> QED BY <1>3, <2>2, <4>1, <4>2
    <3>2. c \in Elements(t)
      BY SMTT(40), <1>3, <2>2 DEF Elements
    <3>3. ASSUME NEW i \in DOMAIN a.chosen PROVE a.chosen[i] \in Elements(t)
      <4>1. i \in DOMAIN t /\ t[i] = a.chosen[i]
        BY <1>3, <2>2
      <4> QED BY <4>1 DEF Elements
    <3> QED BY <3>1, <3>2, <3>3 DEF Elements
  <2>6. b.chosen # <<>> /\ b.chosen[1] = s[1]
    <3>1. CASE n - 1 = 0
      <4>1. m = 0 /\ n = 1
        BY <1>1, <1>4, <3>1, EmptySeq
      <4>2. t[1] = c /\ Len(t) = 1
        BY <4>1, <2>2
      <4>3. t # <<>>
        <5>1. Len(<<>>) = 0 /\ 1 # 0
          BY EmptySeq
        <5> QED BY <4>2, <5>1, Zenon
      <4> QED BY <4>1, <4>2, <4>3, <2>4 DEF c
    <3>2. CASE n - 1 > 0
      <4>1. m # 0 /\ a.chosen[1] = s[1]
        BY <1>3, <1>5, <3>2, EmptySeq
      <4>2. 1 \in 1..m
        BY <4>1, <1>3
      <4>3. t[1] = s[1] /\ t # <<>>
        BY <4>1, <4>2, <1>3, <2>2, EmptySeq
      <4> QED BY <4>3, <2>4
    <3> QED BY <1>1, <3>1, <3>2
  <2>7. \A i \in DOMAIN b.chosen : \E p \in 1..n : b.chosen[i] = s[p]
    <3> SUFFICES ASSUME NEW d \in Elements(t) PROVE \E p \in 1..n : d = s[p]
      BY <2>4 DEF Elements
    <3>1. CASE d = c
      BY <1>1, <3>1 DEF c
    <3>2. CASE d \in Elements(a.chosen)
      BY <1>1, <1>6, <3>2
    <3> QED BY <2>5, <3>1, <3>2
  <2>8. b.starts = {Start(d) : d \in Elements(b.chosen)}
    BY <1>7, <2>4, <2>5
  <2>9. \A i, j \in DOMAIN b.chosen : Start(b.chosen[i]) = Start(b.chosen[j]) => i = j
    <3>1. \A i \in 1..m : Start(a.chosen[i]) # Start(c)
      BY <1>3, <1>7, <1>14 DEF Elements
    <3>2. \A i, j \in 1..m : Start(a.chosen[i]) = Start(a.chosen[j]) => i = j
      BY <1>3 DEF LoopInv
    <3>3. \A i \in DOMAIN t : i = m + 1 \/ i \in 1..m
      BY <1>3, <2>2
    <3> QED BY <2>2, <2>4, <3>1, <3>2, <3>3
  <2>10. b.tokens = TokensOf(b.chosen)
    BY <2>3, <2>4 DEF LoopInv
  <2>11. b.tokens <= Budget \/ Len(b.chosen) = 1
    <3>1. CASE a.chosen = <<>>
      BY <3>1, <2>2, <2>4, EmptySeq
    <3>2. CASE ~(a.tokens + Tokens(c) > Budget)
      BY <3>2, <2>4, <1>2, <1>3, RetrievalAssumption
    <3> QED BY <1>14, <3>1, <3>2
  <2>12. \E q \in 0..n : CutAt(b, s, q, n)
    <3>1. \A r \in 1..(n - 1) : Start(s[r]) # Start(c)
      <4> TAKE r \in 1..(n - 1)
      <4>1. PICK d \in Unrepeated(s, n - 1) : Start(d) = Start(s[r])
        BY <1>1, Represented
      <4> QED BY <4>1, <1>7, <1>14, <1>10
    <3>2. Elements(b.chosen) = Unrepeated(s, n)
      BY <3>1, <1>14, <1>10, <1>11, <2>4, <2>5
    <3>3. CutAt(b, s, n, n)
      BY <2>4, <3>2 DEF CutAt
    <3> QED BY <3>3, <1>9
  <2>13. n # 0
    BY <1>1
  <2>14. LoopInv(b, s, n)
    BY <2>4, <2>6, <2>7, <2>8, <2>9, <2>10, <2>11, <2>12, <2>13 DEF LoopInv
  <2> QED BY <2>14 DEF b, c
<1> QED BY <1>12, <1>13, <1>14

LEMMA NothingYet == ASSUME NEW s PROVE LoopInv(Nothing, s, 0)
<1>1. /\ <<>> \in Seq(Chunk) /\ DOMAIN <<>> = {} /\ Elements(<<>>) = {}
      /\ Budget \in Nat
  BY EmptySeq, RetrievalAssumption DEF Elements
<1>2. /\ Nothing.chosen = <<>> /\ Nothing.tokens = 0 /\ Nothing.starts = {}
      /\ Nothing.full = FALSE /\ Nothing \in Collected
  BY <1>1 DEF Nothing, Collected
<1>3. \A q \in 1..0 : FALSE
  OBVIOUS
<1> HIDE DEF Nothing
<1>4. Nothing.tokens <= Budget /\ Nothing.tokens = TokensOf(Nothing.chosen)
  BY <1>1, <1>2, NoTokens
<1>5. Nothing.starts = {Start(c) : c \in Elements(Nothing.chosen)}
  BY <1>1, <1>2
<1>6. CutAt(Nothing, s, 0, 0) /\ 0 \in 0..0
  BY <1>1, <1>2, <1>3 DEF CutAt, Unrepeated
<1> QED BY <1>1, <1>2, <1>3, <1>4, <1>5, <1>6 DEF LoopInv

LEMMA ContextCollected ==
  ASSUME NEW s \in Seq(Chunk), Elements(s) \subseteq Real
  PROVE  \E a : BuildContext(s) = a.chosen /\ LoopInv(a, s, Len(s))
<1>1. Len(s) \in Nat
  BY LenProperties
<1>2. \E f : Turns(f, s, Len(s))
  BY <1>1, TurnsExist
<1>3. PICK f : f = CHOOSE g : Turns(g, s, Len(s))
  OBVIOUS
<1>4. Turns(f, s, Len(s))
  BY <1>2, <1>3, Zenon
<1>5. BuildContext(s) = f[Len(s)].chosen
  BY <1>3, ContextIsLastTurn
<1>6. \A k \in 0..Len(s) : f[k] = IF k = 0 THEN Nothing ELSE Take(f[k - 1], s[k])
  BY <1>4 DEF Turns
<1> DEFINE B == {k \in 0..Len(s) : ~LoopInv(f[k], s, k)}
<1>7. B = {}
  <2> SUFFICES ASSUME B # {} PROVE FALSE
    OBVIOUS
  <2>1. PICK n \in B : \A k \in B : n <= k
    <3>1. B \in SUBSET Nat
      OBVIOUS
    <3> HIDE DEF B
    <3> QED BY <3>1, LeastNumber
  <2>2. n # 0
    <3>1. f[0] = Nothing
      BY <1>1, <1>6
    <3> QED BY <3>1, NothingYet
  <2>3. n \in 1..Len(s) /\ n - 1 \in 0..Len(s) /\ ~(n <= n - 1)
    BY <1>1, <2>2
  <2>4. LoopInv(f[n - 1], s, n - 1)
    BY <2>1, <2>3
  <2>5. f[n] = Take(f[n - 1], s[n])
    BY <1>6, <2>2
  <2>6. LoopInv(Take(f[n - 1], s[n]), s, n)
    BY <2>3, <2>4, TurnKeeps
  <2> QED BY <2>5, <2>6
<1>8. LoopInv(f[Len(s)], s, Len(s))
  BY <1>1, <1>7
<1> QED BY <1>5, <1>8

LEMMA RankIs ==
  ASSUME NEW s, Injective(s), NEW p \in DOMAIN s
  PROVE  Rank(s[p], s) = p
BY DEF Rank, Injective

\* Of any list, build_context keeps what ContextKeepsTheStrongest says of the candidates.
LEMMA ContextOfList ==
  ASSUME NEW s, IsList(s), Elements(s) \subseteq Real
  PROVE  LET context == BuildContext(s) IN
         /\ TokensOf(context) <= Budget \/ Len(context) = 1
         /\ s # <<>> => context # <<>> /\ context[1] = s[1]
         /\ \A p, q \in DOMAIN context : Start(context[p]) = Start(context[q]) => p = q
         /\ \E n \in 0..Len(s) :
              /\ Elements(context) = Unrepeated(s, n)
              /\ n < Len(s) =>
                   /\ TokensOf(context) + Tokens(s[n + 1]) > Budget
                   /\ \A c \in Elements(context) : Start(c) # Start(s[n + 1])
<1>1. s \in Seq(Chunk) /\ Injective(s) /\ Len(s) \in Nat /\ DOMAIN s = 1..Len(s)
  BY LenProperties DEF IsList
<1>2. PICK a : BuildContext(s) = a.chosen /\ LoopInv(a, s, Len(s))
  BY <1>1, ContextCollected
<1>3. PICK context : context = BuildContext(s)
  OBVIOUS
<1>4. /\ TokensOf(context) <= Budget \/ Len(context) = 1
      /\ \A p, q \in DOMAIN context : Start(context[p]) = Start(context[q]) => p = q
  BY <1>2, <1>3 DEF LoopInv
<1>5. s # <<>> => context # <<>> /\ context[1] = s[1]
  <2>1. s # <<>> => Len(s) > 0
    BY <1>1, EmptySeq
  <2> QED BY <2>1, <1>2, <1>3 DEF LoopInv
<1>6. PICK n \in 0..Len(s) : CutAt(a, s, n, Len(s))
  BY <1>2 DEF LoopInv
<1>7. Elements(context) = Unrepeated(s, n)
  BY <1>2, <1>3, <1>6 DEF CutAt
<1>8. n < Len(s) => /\ TokensOf(context) + Tokens(s[n + 1]) > Budget
                    /\ \A c \in Elements(context) : Start(c) # Start(s[n + 1])
  <2>1. a.tokens = TokensOf(context) /\ a.chosen = context
    BY <1>2, <1>3 DEF LoopInv
  <2>2. a.full => /\ a.tokens + Tokens(s[n + 1]) > Budget
                  /\ \A d \in Elements(a.chosen) : Start(d) # Start(s[n + 1])
    BY <1>6, Zenon DEF CutAt
  <2>3. ~a.full => n = Len(s)
    BY <1>6, Zenon DEF CutAt
  <2>4. ~(Len(s) < Len(s))
    BY <1>1
  <2> QED BY <2>1, <2>2, <2>3, <2>4, Zenon
<1> QED BY <1>3, <1>4, <1>5, <1>7, <1>8

-----------------------------------------------------------------------------
(* The theorems                                                            *)

\* Every variable keeps its type, and no list holds a chunk twice, for any documents, roles,
\* arguments and limits.
THEOREM TypeCorrect == Spec => []TypeOK
<1>1. Inv => TypeOK
  BY DEF Inv
<1> QED BY <1>1, Invariance, PTL

\* What retrieve() finds was the user's to read during this retrieval, although every
\* statement decides on rights of its own and documents are replaced in between.
THEOREM ReadableOnly == Spec => []OnlyWhatWasReadable
<1>1. Inv => OnlyWhatWasReadable
  BY DEF Inv, Known
<1> QED BY <1>1, Invariance, PTL

\* No superseded document comes in unasked, not as a neighbour either, and none of another
\* domain but by way of the spellings of a hybrid search.
THEOREM AskedOnly == Spec => []OnlyWhatWasAskedFor
<1>1. Inv => OnlyWhatWasAskedFor
  BY DEF Inv, Filtered, Proper, Elsewhere, OnlyWhatWasAskedFor
<1> QED BY <1>1, Invariance, PTL

\* Where the cut is not far below rrf_k (30 and 60 by default), what both lists of a query
\* hold goes before what one of them holds, at whatever rank; and, then as ever, what no list
\* ranks lower, and one ranks higher, goes first.
THEOREM AgreementFirst == Limit <= RrfK + 1 => (Spec => []AgreementComesFirst)
<1> SUFFICES ASSUME Limit <= RrfK + 1 PROVE Spec => []AgreementComesFirst
  OBVIOUS
<1>1. Inv => AgreementComesFirst
  <2> SUFFICES ASSUME Inv, pc = "neighbours",
                      NEW c \in Everything, NEW d \in Everything, d \in Elements(fused),
                      \/ /\ \A n \in DOMAIN lists : Place(c, n) <= Place(d, n)
                         /\ \E n \in DOMAIN lists : Place(c, n) < Place(d, n)
                      \/ /\ Len(lists) = 2
                         /\ Cardinality(Listed(c)) = 2 /\ Cardinality(Listed(d)) = 1
               PROVE  c \in Elements(fused) /\ Rank(c, fused) < Rank(d, fused)
    BY DEF AgreementComesFirst, Place, Everything
  <2>1. RankedLists
    BY DEF Inv, TypeOK, RankedLists
  <2>2. RrfScore(c) > RrfScore(d)
    <3>1. CASE /\ \A n \in DOMAIN lists : Place(c, n) <= Place(d, n)
               /\ \E n \in DOMAIN lists : Place(c, n) < Place(d, n)
      BY <2>1, <3>1, BetterScores
    <3>2. CASE /\ Len(lists) = 2
               /\ Cardinality(Listed(c)) = 2 /\ Cardinality(Listed(d)) = 1
      BY <2>1, <3>2, BothBeatOne
    <3> QED BY <3>1, <3>2
  <2>3. \A x : RrfScore(x) \in Nat
    <3> TAKE x
    <3>1. IsFiniteSet(Listed(x)) /\ \A n \in Listed(x) : Parts(x)[n] \in Nat
      BY <2>1, PartsTyped
    <3> QED BY <3>1, ScoreIsTotal, TotalNat
  <2>4. fused \in Seq(Chunk) /\ Injective(fused)
    BY DEF Inv, TypeOK, IsList
  <2>5. DOMAIN fused = 1..Len(fused) /\ Len(fused) \in Nat
    BY <2>4, LenProperties
  <2>6. PICK q \in DOMAIN fused : d = fused[q]
    BY DEF Elements
  <2>7. Rank(d, fused) = q
    BY <2>4, <2>6, RankIs
  <2>8. c \in Elements(fused)
    <3> SUFFICES ASSUME c \notin Elements(fused) PROVE FALSE
      OBVIOUS
    <3>1. RrfScore(d) >= RrfScore(c)
      BY <2>6 DEF Inv, ByScore
    <3> QED BY <2>2, <2>3, <3>1
  <2>9. PICK p \in DOMAIN fused : c = fused[p]
    BY <2>8 DEF Elements
  <2>10. Rank(c, fused) = p
    BY <2>4, <2>9, RankIs
  <2>11. ~(q < p)
    <3> SUFFICES ASSUME q < p PROVE FALSE
      OBVIOUS
    <3>1. RrfScore(d) >= RrfScore(c)
      BY <2>6, <2>9 DEF Inv, ByScore
    <3> QED BY <2>2, <2>3, <3>1
  <2>12. p # q
    BY <2>2, <2>3, <2>6, <2>9
  <2> QED BY <2>5, <2>7, <2>8, <2>10, <2>11, <2>12
<1> QED BY <1>1, Invariance, PTL

\* What build_context takes of the candidates keeps the budget or is one chunk, repeats no
\* text, and leaves out, but for repetitions, only what comes from the first chunk on that would
\* exceed the budget: for any chunks and any budget.
THEOREM StrongestKept == Spec => []ContextKeepsTheStrongest
<1>1. Inv => ContextKeepsTheStrongest
  <2> SUFFICES ASSUME Inv PROVE ContextKeepsTheStrongest
    OBVIOUS
  <2>1. IsList(candidates) /\ Elements(candidates) \subseteq Real
    BY DEF Inv, TypeOK, Known, OnlyWhatWasReadable
  <2> QED BY <2>1, ContextOfList DEF ContextKeepsTheStrongest, FirstContext
<1> QED BY <1>1, Invariance, PTL
=============================================================================
