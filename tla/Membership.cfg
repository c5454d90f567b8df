CONSTANTS
  Routers = {1, 2}
  TreeRouters = {1, 2}
  Protocols = {"IGMP", "MLD"}
  QueryInterval = 3
  QueryResponseInterval = 2
  LastMemberQueryInterval = 1
  RobustnessVariable = 2
  MaxEvents = 1
  MaxLosses = 1
SPECIFICATION MembershipFairSpec
INVARIANTS
  MembershipTypeOK
  TreesFollowGroup
PROPERTIES
  MembersAreKept
  MembersAreFound
  GroupsAreGivenUp
  OneQuerier
