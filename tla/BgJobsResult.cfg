SPECIFICATION Spec
CONSTANTS
  Jobs = {j1}
  Sessions = {s1}
  MaxCrashes = 0
  MaxPosts = 1
  None = None
  j1 = j1
  s1 = s1
SYMMETRY Symmetry
INVARIANT ResultIsKept
