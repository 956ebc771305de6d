CONSTANTS
  Inputs = {1}
  Outputs = {2, 3}
  Addresses = {a1, a2, a3}
  nullptr = nullptr
  Lengths = {1, 2}
  Sizes = {0, 1, 2}
  BadDimensions = BadDimensions
  GrowthMayFail = TRUE
SPECIFICATION Spec
INVARIANT BuffersAreReleasedOnce
SYMMETRY Symmetric
\* A destroyed executor takes no call.
CHECK_DEADLOCK FALSE
