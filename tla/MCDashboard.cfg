CONSTANTS
  cosmoshub = cosmoshub
  osmosis = osmosis
  prop1 = prop1
  prop2 = prop2
  YES = YES
  Chains <- MCChains
  Ids <- MCIds
  Options <- MCOptions
  NoVote = NoVote
  None = None
  TicksPerDay = 2
  MaxTime = 3
  MaxRows = 2
  MaxFetches = 2
SYMMETRY Symmetry
SPECIFICATION Spec
INVARIANTS DashboardTypeOK GroupingFaithful QueriesAgree WindowsCover CurrentUnlessOvertaken ShownIsLogged
PROPERTIES PastStands
