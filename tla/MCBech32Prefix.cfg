CONSTANTS
  task1 = task1
  task2 = task2
  cosmoshub = cosmoshub
  osmosis = osmosis
  cosmos = cosmos
  osmo = osmo
  payload = payload
  Tasks <- MCTasks
  NoTask = NoTask
  Chains <- MCChains
  Prefixes <- MCPrefixes
  PrefixOf <- MCPrefixOf
  MainPrefix = cosmos
  NoPrefix = NoPrefix
  Payloads <- MCPayloads
  Empty = Empty
  Overlong = Overlong
  ValAddresses <- MCValAddresses
SPECIFICATION FairSpec
INVARIANTS TypeOK LockHeldInside ConversionCorrect
PROPERTIES Progress Refines
