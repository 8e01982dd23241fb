SPECIFICATION WorkbenchSpec
CONSTANTS
  EtherLike <- MCEtherLike
  NoSeq = NoSeq
  Token <- MCToken
  Decodes <- MCDecodes
  RunLength = 3
  Piece = 4
  Apart = 3
  Window = 4
  MaxFound = 12
  Frames <- MCFrames
  Files <- MCFiles
  Preview <- MCPreview
  Limit = 3
  CacheMax = 1
  MaxLive = 1
  MaxImports = 2
  MaxClicks = 2
  Sent <- MCSent
  Talks <- MCTalks
INVARIANTS
  StreamExact
  OwnResponse
  FilesFound
  StringsFound
  ShowsTheRow
CHECK_DEADLOCK FALSE
