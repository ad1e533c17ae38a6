------------------------------ MODULE MCChunking ------------------------------
(* Instances of Chunking: every document of up to MaxText blocks of text, every *)
(* one of up to MaxMixed blocks of all kinds, short lines only up to twice as   *)
(* many, and workbooks of two sheets.                                           *)
EXTENDS Chunking

CONSTANTS MaxText, MaxMixed

B(kind, level, size) == [kind |-> kind, level |-> level, size |-> size]
Title == B("heading", 1, 3)
Section == B("heading", 2, 3)
Word == B("para", 1, 1)
Line == B("para", 1, 9)
Page1 == B("para", 1, 21)
Cells == B("row", 1, 9)
Q == B("question", 1, 9)
A == B("answer", 1, 9)

UpTo(blocks, n) == UNION {[1..k -> blocks] : k \in 0..n}
Document(blocks) == [xlsx |-> FALSE, blocks |-> blocks]
Workbook(m, n) ==
  [xlsx |-> TRUE, blocks |-> <<Title>> \o [k \in 1..m |-> Cells] \o <<Title>> \o [k \in 1..n |-> Cells]]

MCDocs ==
  {Document(b) : b \in UpTo({Title, Section, Word, Line, Page1}, MaxText)
                       \cup UpTo({Title, Section, Line, Cells, Q, A}, MaxMixed)}
    \cup {Document([k \in 1..n |-> Word]) : n \in (MaxText + 1)..(2 * MaxText)}
    \cup {Workbook(m, n) : m, n \in 0..2}
================================================================================
