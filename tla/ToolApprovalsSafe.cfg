SPECIFICATION Spec
CONSTANTS
  alice = alice
  Approvals = {a1, a2, a3} Runs = {r1, r2, r3} NoRun = NoRun NoCard = NoCard
  Owners = {alice} Chats = {c1} ChatOwner <- Together Headless = Headless
  MaxPending = 2 Ttl = 1 MaxTime = 1 MaxRestarts = 1
SYMMETRY RunSymmetry
INVARIANTS OneCardPerChat ConsentPrecedesAction
PROPERTIES RetiredTaintCarries ImplementsLifecycle
CHECK_DEADLOCK FALSE
