SPECIFICATION DiscoverySpec
CONSTANTS
  Names <- MCNames
  Files <- MCFiles
  Inventories <- MCInventories
  AllowLists <- MCAllowLists
  OldFile <- MCOldFile
  MaxTools = 2
  MaxDenied = 2
  MaxMembers = 3
  MaxEntries = 2
  MaxNesting = 7
  InventoryLimits <- MCInventoryLimits
  ExpectedId = "n2"
  Greetings <- MCGreetings
  Answers <- MCAnswers
  Calls <- MCCalls
  Tables <- MCTables
  GeneratorBytes = 17
  GeneratorNesting = 5
  LongNames = {3}
INVARIANT MalformedRejected
CHECK_DEADLOCK FALSE
