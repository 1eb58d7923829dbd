SPECIFICATION Spec
CONSTANTS
  Nil = Nil
  Delete = del
  Server = {n1, n2, n3}
  Command = {a}
  MaxTerm = 2
  MaxLog = 2
  MaxInFlight = 1
  MaxRestarts = 1
SYMMETRY Symmetry
VIEW View
CHECK_DEADLOCK FALSE
INVARIANTS ElectionSafety VotesAreDurable VoteLedger LogMatching StateMachineSafetyUnlessOverclaimed
PROPERTY VoteIsFinal
