SPECIFICATION RemoteSpec
CONSTANTS
  us = us
  m1 = m1
  m2 = m2
  m3 = m3
  m4 = m4
  Station = {us}
  Msg = {m1, m2, m3, m4}
  Call = {"us", "remote", "elsewhere"}
  To <- MCTo
  Oversize = {}
  Rank <- MCRank
  MaxBlock = 2
  CallOf <- MCCallOf
  Outbox = {m1, m2, m3}
  Known = {m4}
  Lines <- MCLines
  MaxProposals = 2
INVARIANTS RemoteTypeOK QuitAfterNothing
PROPERTIES TakenOnce SettledOnce OutcomeIsFinal
CHECK_DEADLOCK FALSE
