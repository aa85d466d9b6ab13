SPECIFICATION Spec
SYMMETRY AddressSymmetry
CONSTANTS
  Keys = {k1, k2, k3, k4}
  Vals = {v1, v2}
  None = none
  Capacity = 3
  Addresses = {n1, n2, n3, n4}
  Nil = nil
INVARIANTS WellLinked NothingLeaks
PROPERTY ImplementsRecencyMap
