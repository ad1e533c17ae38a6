\* Documents of up to six blocks of text, five of any kind, and twelve of the shortest lines.
SPECIFICATION ChunkingSpec
CONSTANTS
  Docs <- MCDocs
  Target = 6
  Budget = 4
  Minimum = 3
  RowOverlap = 1
  MaxText = 6
  MaxMixed = 5
INVARIANTS
  PathsFollowOutline
  BufferKeepsBounds
  NothingLost
