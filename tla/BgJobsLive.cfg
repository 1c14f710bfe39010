SPECIFICATION FairSpec
CONSTANTS
  Jobs = {j1}
  Sessions = {s1}
  MaxCrashes = 2
  MaxPosts = 4
  None = None
  j1 = j1
  s1 = s1
INVARIANT OncePerLife
PROPERTY JobsAreFollowedUp
