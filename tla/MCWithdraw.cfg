CONSTANTS
  cosmoshub = cosmoshub
  osmosis = osmosis
  run1 = run1
  run2 = run2
  KeyOrder <- MCOneKey
  Runs <- MCTwoRuns
  MaxMonth = 2
  MaxLost = 1
  MaxCrashes = 1
SPECIFICATION Spec
INVARIANTS TypeOK IncomeBacked RecordsBounded WithdrawalsBounded
PROPERTIES KeepsLedger
