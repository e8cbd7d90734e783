CONSTANTS
  Letters <- TestLetters
  Utf8 <- TestUtf8
  Vocab <- TestVocab
  ByteTokens = {"C3", "A9", "E2", "96", "3C"}
  MergeList <- TestMerges
  MarkersKnown = {"<|turn>", "<turn|>", "<|channel>", "<eos>"}
  Conversations <- TestConversations
  Prompts <- TestPrompts
  Ascii = {"a", "b"}
  Lead = "L"
  Cont = "C"
  Wide = "W"
  Pieces <- TestPieces
  StopLists <- TestStops
  MaxTokens = 4
  MaxStops = 2
  GgufFiles <- TestFiles
  Qk = 8
  Align = 4
  BankLayers = 2
  ExpertsPerLayer = 2
  Hidden = 24
  Inter = 8
  Nibbles = {0, 8, 15}
  Activations <- TestActivations
  PlanExperts = {0, 1, 2, 3, 4}
  PlanSlots = {0, 1, 2}
  MaxBatch = 2
  Chunk = 1
  Geometries <- TestGeometries
  Greedy <- TestGreedy
  MaxPasses = 3
  MaxFaults = 1
  MaxResets = 1
  NWarps = 2
  Lanes = 2
  BlockSlots = 3
  BlockExperts = {1, 2, 3, 4}
  EntryLists <- TestEntries
  MaxLaunches = 3
SPECIFICATION PartsSpec
INVARIANTS
  TokensKeepTheText
  PiecesFollowTheRanks
  EveryMessageIsSaidOnce
  StopsCutTheText
  HeldBackOnlyWhatMayChange
  CharactersComeWhole
  AnswerIsTheReply
  TensorsAreWhereTheyWerePut
  GemvReadsTheFilesRows
  KernelsAgree
  RunsCopyEachMissOnce
  AnswersFollowTheHistory
  BuffersSuffice
  RefusedOnlyAfterABrokenCapture
  LogitsComeBack
  EntriesKeepTheirSlotsInStep
PROPERTY BlockRefinesLruInStep
CHECK_DEADLOCK FALSE
