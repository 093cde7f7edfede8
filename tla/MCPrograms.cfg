SPECIFICATION MCSpec
CONSTANTS
  Optab <- MCOptab
  Letter <- MCLetter
  Programs <- MCSources
  StartAddr = {16}
  MaxText = 6

  MaxMemory = 9
  ObjFile <- MCObjFile
  NoFile = "none"
  Args <- MCArgs
  AsmResult <- MCAsmResult
  Addresses = {0, 1}
  EditValue = 255
  DumpLength = 5
  MaxLines = 5
  Unset = {1}

  MAX_HASH = 3
  OpcodeFile <- MCOpcodeFile
  CharSum <- MCCharSum
  Words <- MCWords
  FillWords <- MCFillWords
  Residue <- MCResidue
  MaxNodes = 4

  NULL = NULL
  Freed = Freed
  HashOf <- MCHashOf
  MinBuckets = 2
  BestElems = 1
  ElemBits = 3
  OpBits = 2
  ObjName = {o1, o2}
  Data = {1, 2, 3}
  Key <- MCKey
  Elem = {e1, e2, e3}
  Slots = 2
  Sizes = {1, 2}
  MaxBits = 4
  Mix <- MCMix

  Side = 3
  Mines <- MCMines
  OtherLevel = 4
  MaxGames = 2

  W = 4
  PerLine = 4
  Factor = 8
  ArgBits <- MCArgBits
  MemSize = 5
  ByteValues = {0, 1, 2}
  Elements <- MCElements
  Numbers <- MCNumbers
  Specs <- MCSpecs
  BufSizes = {0, 1, 4, 20}
  Dumps <- MCDumps
  SizesShown <- MCSizes
  RandomSize = 5
  Seeds <- MCSeeds
CHECK_DEADLOCK FALSE
SYMMETRY Symmetry
VIEW MCView
INVARIANTS Assembled Linked CommandsExact GameExact StringsExact NumbersExact
PROPERTIES ImplementsCollections
