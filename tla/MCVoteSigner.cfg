CONSTANTS
  cosmoshub = cosmoshub
  osmosis = osmosis
  main = main
  spare = spare
  m1 = m1
  m2 = m2
  slack1 = slack1
  slack2 = slack2
  Absent = Absent
  Blank = Blank
  Mixed = Mixed
  Chains <- MCChains
  Names <- MCOneName
  Mnemonics <- MCMnemonics
  Creators <- MCOneCreator
SPECIFICATION Spec
INVARIANTS VoteSignerCorrect
