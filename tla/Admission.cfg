\* Five processors, three plugins, and a task beside a parent and its child.
SPECIFICATION FairSpec
CONSTANTS
  own = own  child = child  parent = parent
  Task <- OwnAndChild
  Parent <- OneParent
  Child <- ChildOf
  Asked <- AskedOne
  Kinds = {"domain", "processor", "test"}
  Plugins <- PluginsOfThree
  Onlines <- AllOnline
  DigitCounts = {5, 6}
  GroupChars = 2
  CharBits = 1
  WordBits = 4
  MaxCpus = 5
  UllBits = 5
  Comma = Comma
CHECK_DEADLOCK FALSE
INVARIANTS MappingInv InAskedDomain NotRefused InTurn
PROPERTY ChildrenEnd
