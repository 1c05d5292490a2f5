SPECIFICATION Spec
CONSTANTS
  W = 3
  Apply <- called
  Literals <- MCLiterals
  Ones <- MCOnes
  Twos <- MCTwos
  Under <- MCUnder
  Again <- MCAgain
  MaxCalls = 2
  MaxSize = 6
INVARIANTS
  WellMade
  Searches
  Orders
  Structure
  Agreement
