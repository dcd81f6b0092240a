SPECIFICATION Spec
CONSTANTS
  a1 = a1
  a2 = a2
  b1 = b1
  c1 = c1
  r = r
  s = s
  t = t
  clash = clash
  None = None
  NotAVersion = NotAVersion
  Releases <- MCReleases
  Locals <- MCLocals
  ModOf <- MCModOf
  Content = {r}
  Overlays = {b1}
  Stoppable = {a1, c1, s, t}
  Cases <- MCCases
  Precedence <- MCPrecedence
  MaxEntries = 5
  MaxFaults = 2
INVARIANTS SelectionIsResolved PartsResolve RequirementsHold
CHECK_DEADLOCK FALSE
