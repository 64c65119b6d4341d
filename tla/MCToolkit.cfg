SPECIFICATION Spec
CONSTANTS
  a = a
  b = b
  Users = {a, b, c}
  MaxClients = 3
  MaxFaults = 2
  Getters = {a, b}
  MaxValues = 3
  MaxCount = 2
  MaxItems = 5
  Names = {"a", "b", ".."}
  BadNames = {".."}
  MaxNodes = 3
  MaxDisk = 2
  Callers = {a, b}
  Keys = {"k1", "k2"}
  MaxRuns = 3
  Values = {"v", "w"}
  NumFiles = 3
  NumDirs = 2
  MaxRounds = 2
  MaxChanges = 2
  DotFileSets <- Dots
  Settings <- AllSettings
  Readers = {a, b}
  NumItems = 4
  Slices <- SliceArguments
  Sizes = {2}
  FieldNames = {"x", "y"}
  FieldValues = {"one", "two"}
  Bodies <- ClassBodies
  Simple <- SimpleBodies
  MaxClasses = 4
INVARIANTS
  ClientOutlivesUsers TransactionSpansUsers GetsAgree TreeIsHierarchy
  WriteIsWhole RetryBudget MemoKept DiscoveryFinds ReadOnce
  FieldsFollowMro EqualsAgree
  IterationAgrees
CHECK_DEADLOCK FALSE
