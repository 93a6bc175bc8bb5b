CONSTANTS
  Depth = 24
  Numbers <- MCNumbers
  CharCode <- MCCharCode
  NamesInOrder <- MCNamesInOrder
  Spelling <- MCSpelling
  PathTo <- MCPathTo
  Detours <- MCDetours
  Programs <- MCPrograms
  Images <- MCImages
SPECIFICATION Spec
INVARIANTS
  TypeOK TakenBranch ImportChainAcyclic IncludedInPlace NoHoles RoundTrip StringsKept
  LabelsAgree SymbolsLand
PROPERTIES
  JumpsLand
