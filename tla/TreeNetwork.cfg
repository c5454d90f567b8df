SPECIFICATION Spec
CONSTANTS
  Routers = {1, 2, 3}
  Links = {1, 2, 3}
  SourceLinks = {1}
  Vifs <- SharedVifs
  Routes <- SharedRoutes
  HostLinks = {3}
  Removable <- SharedRemovable
  HoldForwarding = TRUE
  Events = {"source", "route", "member", "fail", "reset", "interface"}
  MaxEvents = 1
  LongLifetime = TRUE
  MaxInFlight = 2
CHECK_DEADLOCK FALSE
INVARIANTS
  TreeTypeOK
  ViewsAreTrue
  StateFollowsViews
  InterestIsTrue
  OneForwarder
  InterestedAreServed
  MembersAreServed
  RouteIsCurrent
  EntryFollowsRoute
