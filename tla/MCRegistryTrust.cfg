SPECIFICATION TrustSpec
CONSTANTS
  h1 = h1
  h2 = h2
  r1 = r1
  r2 = r2
  a1 = a1
  a2 = a2
  a3 = a3
  k1 = k1
  k2 = k2
  root = root
  none = none
  MaxTime = 3
  Root = root
  Keys = {k1, k2}
  Hashes = {h1, h2}
  Releases = {r1, r2}
  Approvals = {a1, a2, a3}
  ArchiveOf <- MCArchiveOf
  KeyDocs <- MCKeyDocs
  SecurityDocs <- MCSecurityDocs
  ReleaseDocs <- MCReleaseDocs
  Histories <- MCHistories
  Times <- MCTimes
  Skew = 0
  Day = 2
  Year = 4
  Nothing = none
INVARIANTS NewestDecisionIsKept NewestIsNotRefused
PROPERTIES BlockEndsOnlyByClear CommitUnderOneSnapshot
CHECK_DEADLOCK FALSE
