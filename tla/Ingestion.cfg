\* Three jobs over an empty table, one document, or two that a replacement may swap.
SPECIFICATION FairSpec
CONSTANTS
  j1 = j1
  j2 = j2
  j3 = j3
  DocIds = {"A", "B"}
  Contents = {"c1", "c2", "blank"}
  Blank = {"blank"}
  Roles = {"staff", "hr"}
  Jobs = {j1, j2, j3}
  Works <- MCWorks
  Corpus = Corpus
  Catalogues <- MCCatalogues
  MaxRows = 5
INVARIANTS
  WholeDocuments
  OneRowPerDocument
  UploadsHaveFiles
  ServedIsAllowed
PROPERTIES
  LossIsExplained
  ImplementsCatalogue
  EveryJobEnds
