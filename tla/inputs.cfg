SPECIFICATION LiveSpec
CONSTANTS
  Widths = {w1, w2}
  Limits <- MCLimits
  Versions = {v1, v2}
  Names <- MCNames
  Unset = Unset
INVARIANTS TypeOK DerivativesAreCurrent
PROPERTIES NoNeedlessRebuild EventuallyBuilt
