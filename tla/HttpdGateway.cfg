SPECIFICATION Spec
CONSTANTS
  NoSites = NoSites
  NoFile = NoFile
  Dotted <- DottedWords
  Parts <- MCParts
  Plain <- PlainWords
  Globs <- MCGlobs
  Files <- AllFiles
  Edits <- FewFiles
  RequestPaths <- AllRequestPaths
  Methods = {"GET", "POST"}
  MaxEdits = 1
INVARIANTS CasesAgree OverlapsAgree
CHECK_DEADLOCK FALSE
