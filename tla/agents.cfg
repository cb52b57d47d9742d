\* Two agents, each a research or a browse run, whose pages leave, come back,
\* lose their connection or start afresh, and a server that restarts once.  It
\* comes to rest when both turns are settled.
SPECIFICATION AgentSpec
CONSTANTS
  a1 = a1
  a2 = a2
  old = old
  c1 = c1
  c2 = c2
  f1 = f1
  f2 = f2
  Agents = {a1, a2}
  Old <- MCOld
  Chunks = {c1, c2}
  Rankings <- MCRankings
  Files = {f1}
  Finds <- MCFinds
  Rounds <- MCRounds
  MaxSearches = 2
  Keep = 1
  Roamers = {a1}
  Browsers = {a1}
  MaxRestarts = 1
  NoOne = NoOne
INVARIANTS AgentsOK CitationsAgree CardsResolved InFlightReachable
PROPERTIES PageIsFed AgentsEnd TurnsSettle
CHECK_DEADLOCK FALSE
