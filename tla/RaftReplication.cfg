SPECIFICATION Spec
CONSTANTS
  Nil = Nil
  Delete = del
  Server = {n1, n2, n3}
  Command = {a}
  MaxTerm = 2
  MaxLog = 1
  MaxInFlight = 2
  MaxRestarts = 0
SYMMETRY Symmetry
VIEW View
CHECK_DEADLOCK FALSE
INVARIANTS TypeOK MajorityUnlessOverclaimed StateMachineSafetyUnlessOverclaimed LeaderCompletenessUnlessOverclaimed NoPanicUnlessOverclaimed
