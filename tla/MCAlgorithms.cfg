SPECIFICATION Spec
CONSTANTS
  Alphabetic = {"v", "a", "r", "x", "y"}
  Word = 16
  Characters = {"a", "_", "1", "0", "=", "<", "!", "(", " "}
  MaxCharacters = 5
  Words <- ProgramWords
  MaxWords = 5
  Operands <- ExpressionWords
  MaxOperands = 6
  Patterns = {"a", ".", "*", "^", "$"}
  MaxPattern = 4
  MaxText = 3
  MaxReads = 7
  BUFSIZE = 5
  MaxLine = 5
  MAXARGS = 3
  NOFILE = 6
  MaxFormat = 5
  MaxScreen = 7
  Bits = 8
  COLS = 2
  ROWS = 3
  MaxMemory = 6
  DIRSIZ = 2
  AddrBits = 5
  BSIZE = 2
  BPB = 16
  NDIRECT = 1
  FSSIZE = 22
  NINODES = 4
  IPB = 2
  LOGSIZE = 1
  MAXOPBLOCKS = 6
  Procs = {p1, p2}
  TwoFiles = {"f", "h"}
  inodeOf <- SomeInodes
  Contents <- ImageContents
  Data <- WrittenData
  MaxCalls = 4
  HeaderBytes = 2
  MinCore = 4
  Bottom = 2
  Top = 12
  Sizes = {0, 1, 3}
  MaxBlocks = 5
  Initproc = p1
  NFRAMES = 16
  PGSIZE = 6
  NPTENTRIES = 2
  NUSER = 3
  NKERNEL = 1
  DEVSPACE = 900
  Limit = 1000
  MAXARG = 2
  Binaries <- SomePrograms
  Args <- SomeArgs
  Brks <- SomeBrks
  Values = {3}
  MaxVmCalls = 5
  NoFile = NoFile
  NFILE = 3
  NOPEN = 2
  SomeIps = {i}
  SomePipes = {q}
INVARIANTS
  SyntaxRight
  CodeAddsUp
  GrepRight
  ShellRight
  LibraryRight
  FilesRight
  FilesCounted
  HeapRight
  MemoryRight
CHECK_DEADLOCK FALSE
