SPECIFICATION FairSpec
CONSTANTS
  Calls = {c1, c2}
  Tokens = {t1, t2}
  None = None
  MaxGenerations = 3
  MaxRestarts = 1
  MaxFaults = 1
  Bytes = 2
  MaxGrants = 2
INVARIANTS SessionIsTheSaved VerifiedIsApproved
PROPERTIES LateAnswersChangeNothing StopTakesEffect
CHECK_DEADLOCK FALSE
