SPECIFICATION Spec
CONSTANTS
  Names = {a, b} Tokens = {t1, t2} Workers = {w1, w2} MaxAccounts = 3
  Loop = Loop NoName = NoName
SYMMETRY Symmetry
VIEW Remembered
INVARIANTS AdminRemains OneFounder PrivilegesStayOwn SessionsFollowAccounts
  RevokedForGood 
