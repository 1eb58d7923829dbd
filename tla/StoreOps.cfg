SPECIFICATION Spec
CONSTANTS
  Nil = Nil
  Id = {i1, i2, i3}
  KeySet = {{k1}, {k1, k2}}
  Slot = {s1, s2, s3, s4}
  MaxOrdinal = 3
  MaxCrashes = 1
SYMMETRY Symmetry
INVARIANTS TypeOK Reopenable DurableUnlessTorn QueryExactUnlessTorn
