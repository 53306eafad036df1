SPECIFICATION LibrarySpec
CHECK_DEADLOCK FALSE
CONSTANTS
  b1 = b1
  b2 = b2
  h1 = h1
  h2 = h2
  t1 = t1
  t2 = t2
  w1 = w1
  w2 = w2
  u1 = u1
  u2 = u2
  s1 = s1
  s2 = s2
  BaseSizes = {1, 2}
  ByteValues = {b1, b2}
  MaxBytes = 3
  MaxChunk = 3
  Word = 64
  MaxValues = 2
  TbValues <- MCTbValues
  HookedThreads = {h1, h2}
  PlainThreads = {p1}
  FdNumbers = {2, 3, 4}
  InitialDatas = 3
  MaxBirths <- MCBirths
  Tuned = {3}
  TableThreads = {t1, t2}
  Descriptors = {2, 4}
  EventKinds = {"READ", "WRITE"}
  InitialContexts = 2
  MaxWaitsOn = 1
  Setters = {w1, w2}
  Listeners = {1, 2}
  Throwers = {2}
  ConfigValues = {1, 2, 3}
  MaxSets = 3
  Updaters = {u1, u2}
  LoggerNames = {"root", "system"}
  LogSettings <- MCSettings
  LogLevels = {1, 2, 3}
  BadFormats = {"bad"}
  MaxUpdates = 3
  Paths = {"/x", "/api/x"}
  Globs = {"/*", "/api/*"}
  Matches <- MCMatches
  Servlets = {1, 2}
  MaxGlobs = 3
  Conns = {c1}
  Requests <- MCRequests
  Methods = {"GET", "LOCK", "UNLOCK"}
  TailOf <- MCTailOf
  Arrivals = {1,2,3,4,5,6,7,8,9,10,11,12,13,14,15,16,17,18,19,20}
  BuffSize = 6
  MaxInt = 3
  IoThreads = 1
  Responses <- MCResponses
  ChunkSizes <- MCChunkSizes
  MaxChunks = 2
  Letters = {"d", "q"}
  Signs = {"-"}
  KnownItems <- MCKnownItems
  MaxPattern = 5
  HeaderNames = {"connection", "content-length", "connect-length", "location"}
  HeaderValues = {0, 1, 2}
  Bodies = {0, 2}
  SockFibers = {f1, f2}
  SockObjects = {s1, s2}
  SockNumbers = {3, 4}
  Addresses = {1, 2}
  FamilyOf <- MCFamilyOf
  Families = {"v4"}
  MaxSockets = 2
  V4Bits = 4
  ByteBits = 2
  V6Bytes = 3
  V6Groups = 6
  MaxHost = 6
  FsThreads = {t1, t2}
  FsNames = {"a", "b", "c", "d", "x"}
  FsPaths <- MCPaths
  FsTrees <- MCTrees
  FsCalls <- MCCalls
  CodecChars = {0, 1, 2, 3, 5, 8, 11, 12, 13, 14}
  MaxText = 3
  Base64Texts <- MCBase64Texts
  Delimiters <- MCDelimiters
  Replacements <- MCReplacements
  JsonNodes <- MCJsonNodes
  Absent = Absent
  Numbers = {"1", "2"}
  TypedValues <- MCTypedValues
  Loaders = {t1, t2}
  SettingNames <- MCSettingNames
  TypesOf <- MCTypesOf
  Defaults <- MCDefaults
  LowerOf <- MCLowerOf
  BadParts = {"A"}
  YamlFiles <- MCYamlFiles
  Members <- FileMembers
  Takes <- NodeTakes
  Cast <- FromNode
  NoVar = NoVar
  MaxLoads = 2
  LogTexts <- MCLogTexts
  OddLevel = 9
  TicksPerSecond = 4
  Speeds = {1, 2}
  Chunk = 3
  Sizes = {2, 8}
  MaxTicks = 12
  MaxSeconds = 9
  MaxFiles = 2
  ThreadObjects = {s1, s2}
  ThreadNames = {"a", "b"}
  MaxRenames = 1
SYMMETRY Symmetry
INVARIANTS
  LibraryTypeOK CursorSound WholeMessageSent RoundTrip ConfigurationRuns AnswersRegistered MessagesIntact
  ObjectsKept DataKept TextsReadBack
PROPERTIES BlocksHidden SettingsSound GrowthSound ListenersFollow
