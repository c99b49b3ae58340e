CONSTANTS
  cosmoshub = cosmoshub
  prop1 = prop1
  YES = YES
  NO = NO
  yes = yes
  maybe = maybe
  cron = cron
  list = list
  vote1 = vote1
  tx1 = tx1
  tx2 = tx2
  NoHash = NoHash
  NoProposal = NoProposal
  NoVote = NoVote
  ChainOf <- MCChainOf
  Options <- MCOptions
  Typed <- MCTyped
  Parse <- MCParse
  Voters <- MCVoters
  Chains <- MCOneChain
  Proposals <- MCOneProposal
  Runs <- MCTwoRuns
  CronRuns <- MCCron
  Hashes <- MCTwoHashes
SPECIFICATION FairSpec
INVARIANTS TypeOK LogHonest ReportHonest RowsAgree DuplicatesBounded
PROPERTIES VoteNeverErased ShowsHistory LogCatchesUp UnvotedIsAlerted
