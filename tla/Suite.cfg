\* Suites of two or three tests of every kind, with at most two faults.
SPECIFICATION FairSpec
CONSTANTS
  Catalogs <- MCCatalogs
  Plugins <- MCPlugins
  MaxTests = 3
  MaxFaults = 2
\* The runner ends, and a test whose child fell out waits for ever.
CHECK_DEADLOCK FALSE
INVARIANTS SuiteInv FailsAlone PrintedOnce SignalsOnlyItsOwn
PROPERTY SuiteEnds
