\* Two documents, two changes of documents or roles between the statements.
SPECIFICATION Spec
CONSTANTS
  Ids = {1, 2, 3}
  DocIds = {"A", "B"}
  Contents = {"old", "new", "other"}
  Roles = {"staff", "hr"}
  Pieces <- MCPieces
  About <- MCAbout
  Catalogues <- MCCatalogues
  Asks <- MCAsks
  Limit = 3
  RrfK = 60
  Budget = 3
  MaxEdits = 2
INVARIANTS
  OnlyWhatWasReadable
  OnlyWhatWasAskedFor
  AgreementComesFirst
  ContextKeepsTheStrongest
