SPECIFICATION Spec
CONSTANTS
  Items = {i1, i2}
  Groups = {g1, g2}
  Requested = Requested
  Other = Other
  Nothing = Nothing
SYMMETRY Symmetry
INVARIANTS TypeOK NoFalseSuccess
PROPERTY NoFalseFailure
