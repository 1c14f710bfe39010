SPECIFICATION FairSpec
CONSTANTS
  Servers = {user, http, python} Http = {http} Builtin = {python}
  Ops = {o1, o2} MaxLinks = 2 NoServer = NoServer
INVARIANTS PromptIsCurrent LinksAreOwned StatusIsTrue DisconnectIsFinal
PROPERTIES WaitsEnd
CHECK_DEADLOCK FALSE
