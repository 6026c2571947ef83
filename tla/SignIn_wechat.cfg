SPECIFICATION FairSpec
CONSTANTS
  alice = alice  wx = wx  web = web  official = official  union = union
  s1 = s1  s2 = s2  l1 = l1  c1 = c1  c2 = c2
  Users = {alice, wx}
  Registered = {alice}
  Identities = {web, official}
  UnionOf <- OneUnion
  NoUnion = none
  WxName <- OneAccount
  States = {s1, s2}
  LoginCodes = {l1}
  Callbacks = {c1, c2}
  MaxFaults = 1
INVARIANTS TypeOK StateServesOnce
PROPERTIES TakenOnlyByOverlap WayInKept SignInRecovers
