SPECIFICATION Spec
CONSTANTS
  Jobs = {j1, j2}
  Sessions = {s1}
  MaxCrashes = 0
  MaxPosts = 2
  None = None
  j1 = j1
  j2 = j2
  s1 = s1
SYMMETRY Symmetry
INVARIANT NeverSilent
PROPERTY ImplementsJobNews
INVARIANT VerdictsAreTrue
