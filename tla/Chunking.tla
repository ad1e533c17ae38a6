------------------------------ MODULE Chunking ------------------------------
(***************************************************************************)
(* How a parsed document becomes chunks (app/ingestion/chunking.py).  A    *)
(* line of text is the index of its block; what is kept of its text is the *)
(* number of characters.  A heading's title is its index, a section path   *)
(* the sequence of the open headings, <<>> for None.  One action reads one *)
(* block; rows of a table, which need no memory, are chunked at once.      *)
(***************************************************************************)
EXTENDS Integers, Sequences, SequencesExt

CONSTANTS
  Docs,        \* documents: [xlsx, blocks], after cleaning
  Target,      \* settings.chunk_target_tokens
  Budget,      \* int(target * overlap_ratio)
  Minimum,     \* settings.chunk_min_tokens
  RowOverlap   \* settings.row_chunk_overlap

Kinds == {"heading", "para", "row", "question", "answer"}
Block == [kind : Kinds, level : 1..3, size : Nat \ {0}]

ASSUME ChunkingAssumption ==
  /\ Docs \subseteq [xlsx : BOOLEAN, blocks : Seq(Block)]
  /\ Target \in Nat \ {0} /\ Budget \in Nat /\ Minimum \in 1..Target
  /\ RowOverlap \in Nat

VARIABLES
  doc,         \* the document
  phase,       \* the strategy under way
  todo,        \* the blocks it has still to read
  chunks,      \* the chunks so far
  base,        \* how many of them chunk_by_qa made
  sections,    \* SectionStack
  buf,         \* chunk_by_structure: lines of the chunk under way,
  bufTokens,   \*   what they are counted as,
  bufPath,     \*   their section path,
  bufPage,     \*   and the block whose page they cite; 0 for None
  pending      \* chunk_by_qa: the question without an answer; 0 for None

chunkingVars == <<doc, phase, todo, chunks, base, sections, buf, bufTokens, bufPath, bufPage, pending>>

-----------------------------------------------------------------------------
Blocks == doc.blocks
Kind(i) == Blocks[i].kind
Level(i) == Blocks[i].level

\* Some blocks in the order of the document.
InOrder(some) ==
  LET upTo[n \in 0..Len(Blocks)] ==
        IF n = 0 THEN <<>> ELSE IF n \in some THEN Append(upTo[n - 1], n) ELSE upTo[n - 1]
  IN upTo[Len(Blocks)]

Of(kinds) == InOrder({i \in DOMAIN Blocks : Kind(i) \in kinds})
Prose == {"heading", "para"}

EstimateTokens(chars) == IF chars < 3 THEN 1 ELSE chars \div 3
LineTokens(i) == EstimateTokens(Blocks[i].size)

\* Lines are joined with a newline.
ContentTokens(lines) ==
  IF lines = <<>> THEN 1
  ELSE EstimateTokens(SumFunction([k \in DOMAIN lines |-> Blocks[lines[k]].size]) + Len(lines) - 1)

ChooseStrategy(d) ==
  LET Count(kinds) == Cardinality({i \in DOMAIN d.blocks : d.blocks[i].kind \in kinds}) IN
    CASE Count({"question", "answer"}) > 0 -> "qa"
      [] Count({"question", "answer"}) = 0 /\ (d.xlsx \/ Count({"row"}) > 2 * Count(Prose)) -> "row"
      [] OTHER -> "structure"

ChunkingInit ==
  /\ doc \in Docs
  /\ phase = ChooseStrategy(doc)
  /\ todo = [i \in DOMAIN doc.blocks |-> i]
  /\ chunks = <<>> /\ base = 0
  /\ sections = <<>>
  /\ buf = <<>> /\ bufTokens = 0 /\ bufPath = <<>> /\ bufPage = 0
  /\ pending = 0

Reading(p) == phase = p /\ todo # <<>>
This == Head(todo)
Read == todo' = Tail(todo)
AllRead(p) == phase = p /\ todo = <<>>

-----------------------------------------------------------------------------
(* SectionStack                                                            *)

\* Mutant of Push: a heading of the same level stays open.
PushBeside(stack, i) == Append(SelectSeq(stack, LAMBDA h : Level(h) <= Level(i)), i)

\* Headings from the top down to the first of a higher rank are closed.
Push(stack, i) ==
  LET open == {k \in 0..Len(stack) : k = 0 \/ Level(stack[k]) < Level(i)} IN
    Append(SubSeq(stack, 1, CHOOSE k \in open : \A n \in open : n <= k), i)

-----------------------------------------------------------------------------
(* chunk_by_structure                                                      *)

Chunk(lines, path, first, strategy) ==
  [lines |-> lines, path |-> path, first |-> first, strategy |-> strategy]

Tiny == ContentTokens(buf) < Minimum /\ Len(chunks) > base

\* Mutant of Flushed: tiny content is dropped as noise.
FlushedOrDropped(path, first) ==
  IF buf = <<>> \/ Tiny THEN chunks ELSE Append(chunks, Chunk(buf, path, first, "structure"))

\* Tiny content joins the previous chunk.
Flushed(path, first) ==
  CASE buf = <<>> -> chunks
    [] buf # <<>> /\ Tiny -> [chunks EXCEPT ![Len(chunks)].lines = @ \o buf]
    [] OTHER -> Append(chunks, Chunk(buf, path, first, "structure"))

LastLines(n) == SubSeq(buf, Len(buf) - n + 1, Len(buf))

\* The fewest last lines that make up the budget, or all.
CarriedTail ==
  LET enough == {n \in 0..Len(buf) : n = Len(buf) \/ ContentTokens(LastLines(n)) >= Budget} IN
    LastLines(CHOOSE n \in enough : \A k \in enough : n <= k)

\* Mutant of Heading: the tail is carried into the next section.
HeadingAfterTail ==
  /\ Reading("structure") /\ Kind(This) = "heading"
  /\ chunks' = Flushed(bufPath, bufPage)
  /\ sections' = Push(sections, This)
  /\ bufPath' = sections'
  /\ buf' = Append(CarriedTail, This)
  /\ bufTokens' = LineTokens(This) + IF CarriedTail = <<>> THEN 0 ELSE ContentTokens(CarriedTail)
  /\ bufPage' = This
  /\ Read /\ UNCHANGED <<doc, phase, base, pending>>

Heading ==
  /\ Reading("structure") /\ Kind(This) = "heading"
  /\ chunks' = Flushed(bufPath, bufPage)
  /\ sections' = Push(sections, This)
  /\ bufPath' = sections'
  /\ buf' = <<This>>
  /\ bufTokens' = LineTokens(This)
  /\ bufPage' = This
  /\ Read /\ UNCHANGED <<doc, phase, base, pending>>

Path == IF bufPath = <<>> THEN sections ELSE bufPath
Page == IF bufPage = 0 THEN This ELSE bufPage
Full == bufTokens + LineTokens(This) > Target /\ bufTokens >= Minimum

TextFits ==
  /\ Reading("structure") /\ Kind(This) # "heading" /\ ~Full
  /\ buf' = Append(buf, This)
  /\ bufTokens' = bufTokens + LineTokens(This)
  /\ bufPath' = Path /\ bufPage' = Page
  /\ Read /\ UNCHANGED <<doc, phase, chunks, base, sections, pending>>

\* Mutant of TextOverflows: the new chunk keeps the page of the one before.
TextKeepsPage ==
  /\ Reading("structure") /\ Kind(This) # "heading" /\ Full
  /\ chunks' = Flushed(Path, Page)
  /\ buf' = Append(CarriedTail, This)
  /\ bufTokens' = LineTokens(This) + IF CarriedTail = <<>> THEN 0 ELSE ContentTokens(CarriedTail)
  /\ bufPath' = sections /\ bufPage' = Page
  /\ Read /\ UNCHANGED <<doc, phase, base, sections, pending>>

TextOverflows ==
  /\ Reading("structure") /\ Kind(This) # "heading" /\ Full
  /\ chunks' = Flushed(Path, Page)
  /\ buf' = Append(CarriedTail, This)
  /\ bufTokens' = LineTokens(This) + IF CarriedTail = <<>> THEN 0 ELSE ContentTokens(CarriedTail)
  /\ bufPath' = sections /\ bufPage' = This
  /\ Read /\ UNCHANGED <<doc, phase, base, sections, pending>>

EndOfStructure ==
  /\ AllRead("structure")
  /\ chunks' = Flushed(bufPath, bufPage)
  /\ buf' = <<>> /\ bufTokens' = 0 /\ bufPage' = 0
  /\ phase' = "done"
  /\ UNCHANGED <<doc, todo, base, sections, bufPath, pending>>

-----------------------------------------------------------------------------
(* chunk_by_row                                                            *)

\* block.sheet or sheet_title: the heading a row stands for.
SheetOf(i) ==
  LET titles == {h \in DOMAIN Blocks : Kind(h) = "heading" /\ (doc.xlsx => h < i)} IN
    CASE titles = {} -> <<>>
      [] titles # {} /\ doc.xlsx -> <<CHOOSE h \in titles : \A g \in titles : g <= h>>
      [] OTHER -> <<CHOOSE h \in titles : \A g \in titles : h <= g>>

RowWindow(rows, k) ==
  LET lo == IF k > RowOverlap THEN k - RowOverlap ELSE 1
      hi == IF k + RowOverlap < Len(rows) THEN k + RowOverlap ELSE Len(rows)
  IN SubSeq(rows, lo, hi)

Rows ==
  /\ phase = "row"
  /\ LET rows == Of({"row"}) IN
       chunks' = [k \in DOMAIN rows |->
                    Chunk(RowWindow(rows, k), SheetOf(rows[k]), rows[k], "row")]
  /\ todo' = <<>> /\ phase' = "done"
  /\ UNCHANGED <<doc, base, sections, buf, bufTokens, bufPath, bufPage, pending>>

-----------------------------------------------------------------------------
(* chunk_by_qa, and the prose around the questions                         *)

QaHeading ==
  /\ Reading("qa") /\ Kind(This) = "heading"
  /\ sections' = Push(sections, This)
  /\ Read /\ UNCHANGED <<doc, phase, chunks, base, buf, bufTokens, bufPath, bufPage, pending>>

Question ==
  /\ Reading("qa") /\ Kind(This) = "question"
  /\ pending' = This
  /\ Read /\ UNCHANGED <<doc, phase, chunks, base, sections, buf, bufTokens, bufPath, bufPage>>

Answer ==
  /\ Reading("qa") /\ Kind(This) = "answer" /\ pending # 0
  /\ chunks' = Append(chunks, Chunk(<<pending, This>>, sections, pending, "qa"))
  /\ pending' = 0
  /\ Read /\ UNCHANGED <<doc, phase, base, sections, buf, bufTokens, bufPath, bufPage>>

PassOver ==
  /\ Reading("qa")
  /\ Kind(This) \in {"para", "row", "answer"} /\ (Kind(This) = "answer" => pending = 0)
  /\ Read
  /\ UNCHANGED <<doc, phase, chunks, base, sections, buf, bufTokens, bufPath, bufPage, pending>>

EndOfQa ==
  /\ AllRead("qa")
  /\ todo' = Of(Prose)
  /\ phase' = IF Of(Prose) = <<>> THEN "done" ELSE "structure"
  /\ base' = Len(chunks)
  /\ sections' = <<>> /\ pending' = 0
  /\ UNCHANGED <<doc, chunks, buf, bufTokens, bufPath, bufPage>>

Done == phase = "done" /\ UNCHANGED chunkingVars

ChunkingNext ==
  \/ Heading \/ TextFits \/ TextOverflows \/ EndOfStructure
  \/ Rows
  \/ QaHeading \/ Question \/ Answer \/ PassOver \/ EndOfQa
  \/ Done

ChunkingSpec == ChunkingInit /\ [][ChunkingNext]_chunkingVars

-----------------------------------------------------------------------------
(* Properties                                                              *)

ChunkingTypeOK ==
  /\ doc \in [xlsx : BOOLEAN, blocks : Seq(Block)]
  /\ phase \in {"qa", "row", "structure", "done"}
  /\ todo \in Seq(DOMAIN Blocks)
  /\ chunks \in Seq([lines : Seq(DOMAIN Blocks), path : Seq(DOMAIN Blocks), first : DOMAIN Blocks,
                     strategy : {"structure", "row", "qa"}])
  /\ base \in 0..Len(chunks)
  /\ sections \in Seq(DOMAIN Blocks) /\ bufPath \in Seq(DOMAIN Blocks)
  /\ buf \in Seq(DOMAIN Blocks)
  /\ bufTokens \in Nat
  /\ bufPage \in DOMAIN Blocks \cup {0} /\ pending \in DOMAIN Blocks \cup {0}

\* The headings under which block i stands, by the outline of the document alone.
Outline(i) ==
  InOrder({h \in DOMAIN Blocks :
    /\ Kind(h) = "heading" /\ h <= i
    /\ \A g \in DOMAIN Blocks : Kind(g) = "heading" /\ h < g /\ g <= i => Level(g) > Level(h)})

Structured == {k \in DOMAIN chunks : chunks[k].strategy = "structure"}

\* A chunk of text names the section of the first line that it has and no chunk before it
\* has, and cites the page of that line: not that of the overlap, nor of a closed section.
\* An answer is found under its own section.
PathsFollowOutline ==
  /\ \A k \in 1..base : chunks[k].path = Outline(chunks[k].lines[2])
  /\ \A k \in Structured :
    LET c == chunks[k]
        earlier == UNION {ToSet(chunks[n].lines) : n \in 1..(k - 1) \cap Structured}
        new == ToSet(c.lines) \ earlier
    IN /\ c.first \in new /\ \A l \in new : c.first <= l
       /\ c.path = Outline(c.first)

\* The lines gathered for the next chunk stand in the document one after the other, end with
\* the last one read, and belong to one section: the overlap never crosses a heading.  The
\* overlap exceeds its budget by its first line at most, and with the lines gathered since, as
\* the code counts them, the target by the last one at most.
BufferKeepsBounds ==
  phase = "structure" /\ buf # <<>> =>
    LET text == IF ChooseStrategy(doc) = "qa" THEN Of(Prose) ELSE Of(Kinds)
        read == Len(text) - Len(todo)
        n == Cardinality({k \in DOMAIN buf : buf[k] < bufPage})
        overlap == SubSeq(buf, 1, n)
    IN /\ Len(buf) <= read
       /\ buf = SubSeq(text, read - Len(buf) + 1, read)
       /\ \A k \in 2..Len(buf) : Kind(buf[k]) # "heading"
       /\ bufPath = Outline(buf[Len(buf)])
       /\ n > 1 => ContentTokens(Tail(overlap)) < Budget
       /\ n + 1 < Len(buf) =>
            (IF n = 0 THEN 0 ELSE ContentTokens(overlap))
              + SumFunction([k \in (n + 1)..(Len(buf) - 1) |-> LineTokens(buf[k])]) <= Target

\* The question that answer i answers: the nearest one before it, unless that one has an
\* answer already.
Answered(i) ==
  {q \in 1..(i - 1) : /\ Kind(q) = "question"
                      /\ \A k \in (q + 1)..(i - 1) : Kind(k) \notin {"question", "answer"}}

\* What each strategy is for ends up in a chunk: rows; answers, each in exactly one chunk
\* with the question before it, and no other; all text.
NothingLost ==
  phase = "done" =>
    LET Has(i) == \E k \in DOMAIN chunks : i \in ToSet(chunks[k].lines)
        strategy == ChooseStrategy(doc)
    IN /\ strategy = "structure" => \A i \in DOMAIN Blocks : Has(i)
       /\ strategy = "row" => \A i \in DOMAIN Blocks : Kind(i) = "row" => Has(i)
       /\ strategy = "qa" =>
            /\ \A i \in DOMAIN Blocks : Kind(i) \in Prose => Has(i)
            /\ \A k \in 1..base : chunks[k].lines[1] \in Answered(chunks[k].lines[2])
            /\ \A i \in DOMAIN Blocks : Kind(i) = "answer" =>
                 \A q \in Answered(i) :
                   Cardinality({k \in 1..base : chunks[k].lines = <<q, i>>}) = 1

-----------------------------------------------------------------------------
(* Promises of the documentation that the code does not keep               *)

\* chunking.py:117, "Close cleanly at section boundaries. Otherwise the prior section would
\* leak into a chunk with a different citation path."
SectionsDoNotLeak ==
  \A k \in Structured : \A l \in ToSet(chunks[k].lines) :
    Kind(l) # "heading" => Outline(l) = chunks[k].path

\* chunking.py:221, "use both strategies in that case so the introduction is not lost".
NoTextLost ==
  phase = "done" => \A i \in DOMAIN Blocks : Kind(i) \in {"para", "row"} =>
    \E k \in DOMAIN chunks : i \in ToSet(chunks[k].lines)
=============================================================================
