SPECIFICATION Spec
CONSTANTS
  Nil = Nil
  Delete = del
  Server = {n1, n2}
  Command = {a, del}
  MaxTerm = 1
  MaxLog = 2
  MaxInFlight = 2
  MaxRestarts = 1
SYMMETRY Symmetry
VIEW View
CHECK_DEADLOCK FALSE
INVARIANT StoreNeverRegresses
