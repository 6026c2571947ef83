SPECIFICATION Spec
CONSTANTS
  w1 = w1  w2 = w2  w3 = w3  app = app  user1 = user1  user2 = user2
  Workers = {w1, w2, w3}
  Counters = {app, user1, user2}
  AppCounter <- OneApp
  UserCounter <- OwnUser
  Limit <- MixedLimits
  Kept = 1
  MaxWindow = 2
INVARIANTS TypeOK RejectedOnlyWhenFull OvershootIsBounded
