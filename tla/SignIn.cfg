SPECIFICATION Spec
CONSTANTS
  t1 = t1
  t2 = t2
  p1 = p1
  p2 = p2
  Tabs = {t1, t2}
  Passwords = {p1, p2}
  Browsers <- MCBrowsers
  MaxMissteps = 2
CHECK_DEADLOCK FALSE
INVARIANTS
  TypeOK
  OneOrganizationEach
  AuthAnswersAreDocumented
PROPERTIES
  ImplementsSessionTable
  LogoutEndsSessions
  EveryoneGetsIn
