CONSTANTS
  Owners = {owner}
  Senders = {s1, s2}
  MaxRuntimes = 2
  MaxCalls = 4
  LinkFails = TRUE
  AnswersLate = TRUE
SPECIFICATION FairSpec
INVARIANT OneIncarnation
PROPERTIES DrainComplete IsCallbackService EverythingEnds
CHECK_DEADLOCK FALSE
