CONSTANTS
  cosmoshub = cosmoshub
  osmosis = osmosis
  run1 = run1
  run2 = run2
  KeyOrder <- MCTwoKeys
  Runs <- MCOneRun
  MaxMonth = 1
  MaxLost = 1
  MaxCrashes = 0
SPECIFICATION FairSpec
INVARIANTS IncomeBacked
PROPERTIES AllGrantedIsStored
