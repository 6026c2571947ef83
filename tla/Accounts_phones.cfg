SPECIFICATION FairSpec
CONSTANTS
  alice = alice  bob = bob  p1 = p1  p2 = p2  h1 = h1  h2 = h2
  Users = {alice, bob}
  Phones = {p1, p2}
  Handlers = {h1, h2}
INVARIANTS TypeOK CodeGoesToOwner SidesAgree
PROPERTIES FollowsCasdoor
