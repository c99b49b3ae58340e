CONSTANTS
  cosmoshub = cosmoshub
  theta = theta
  cosmos = cosmos
  osmo = osmo
  alice = alice
  key1 = key1
  key2 = key2
  e1 = e1
  e2 = e2
  e3 = e3
  slack1 = slack1
  slack2 = slack2
  Chains <- MCChains
  Prefixes <- MCPrefixes
  PrefixOf <- MCPrefixOf
  MainPrefix = cosmos
  NoPrefix = NoPrefix
  Payloads <- MCPayloads
  Empty = Empty
  Overlong = Overlong
  ValAddresses <- MCOneAddress
  Rows <- MCOneRow
  EndpointsOf <- MCHubEndpoint
  Offers <- MCHubOffer
  Supported <- MCSupported
  Spent = {}
  Admins = {}
  MaxFaults = 0
SPECIFICATION FairSpec
PROPERTY StatusCurrent
