------------------------------- MODULE IGMP -------------------------------
(***************************************************************************)
(* Operators for the IGMP state of one interface: the RouterState, which is *)
(* Querier or NonQuerier, and the GroupState of one group (igmp/).          *)
(*                                                                         *)
(* A handler of the source is one row of the operator named after its      *)
(* module.  It returns the group afterwards, what it tells the trees       *)
(* (notify_routing_add, notify_routing_remove) and whether it sends a       *)
(* Group-Specific Query.  A timer is the time left, 0 when it does not run. *)
(***************************************************************************)
EXTENDS Naturals

CONSTANTS QueryInterval, QueryResponseInterval, LastMemberQueryInterval, RobustnessVariable

-----------------------------------------------------------------------------
(* Timers *)

GroupMembershipInterval_OneQueryLess ==
  (RobustnessVariable - 1) * QueryInterval + QueryResponseInterval
GroupMembershipInterval == RobustnessVariable * QueryInterval + QueryResponseInterval

OtherQuerierPresentInterval == RobustnessVariable * QueryInterval + QueryResponseInterval \div 2

LastMemberQueryCount == RobustnessVariable

-----------------------------------------------------------------------------
(* The router on its link *)

NewRouterState ==
  [querier |-> TRUE, general_query_timer |-> QueryInterval, other_querier_present_timer |-> 0]

\* Querier.receive_query, NonQuerier.receive_query: only a query of a lower
\* address counts.
QuerierReceiveQuery_AnySource(rs, src, own) ==
  [querier |-> FALSE, general_query_timer |-> 0,
   other_querier_present_timer |-> OtherQuerierPresentInterval]
QuerierReceiveQuery(rs, src, own) ==
  IF src >= own THEN rs
  ELSE [querier |-> FALSE, general_query_timer |-> 0,
        other_querier_present_timer |-> OtherQuerierPresentInterval]

NonQuerierReceiveQuery(rs, src, own) ==
  IF src >= own THEN rs
  ELSE [rs EXCEPT !.other_querier_present_timer = OtherQuerierPresentInterval]

\* The general query timer, of a Querier, sends a General Query.
GeneralQueryTimeout(rs) ==
  IF rs.querier THEN [rs EXCEPT !.general_query_timer = QueryInterval] ELSE rs

\* Nothing was heard of the Querier: take over, with a General Query.
OtherQuerierPresentTimeout(rs) ==
  IF rs.querier THEN rs
  ELSE [rs EXCEPT !.querier = TRUE, !.general_query_timer = QueryInterval]

-----------------------------------------------------------------------------
(* The group *)

States == {"NoMembersPresent", "MembersPresent", "CheckingMembership", "Version1MembersPresent"}

NewGroup ==
  [state |-> "NoMembersPresent", timer |-> 0, v1_host_timer |-> 0, retransmit_timer |-> 0]

HasMembers(g) == g.state # "NoMembersPresent"

SetTimer(g) == [g EXCEPT !.timer = GroupMembershipInterval]

\* get_group_membership_time: for a Querier, and for a NonQuerier of the Maximum
\* Response Time of the query, which Queriers set to LastMemberQueryInterval.
SetCheckingTimer_InTenths(g) ==
  [g EXCEPT !.timer = 10 * LastMemberQueryInterval * LastMemberQueryCount]
SetCheckingTimer(g) == [g EXCEPT !.timer = LastMemberQueryInterval * LastMemberQueryCount]

SetV1HostTimer(g) == [g EXCEPT !.v1_host_timer = GroupMembershipInterval]

SetRetransmitTimer(g) == [g EXCEPT !.retransmit_timer = LastMemberQueryInterval]

InState(g, state) == [g EXCEPT !.state = state]

Only(g) == [group |-> g, notify |-> "Nothing", query |-> FALSE]
Query(g) == [Only(g) EXCEPT !.query = TRUE]
Add(g) == [Only(g) EXCEPT !.notify = "Add"]
Remove(g) == [Only(InState(g, "NoMembersPresent")) EXCEPT !.notify = "Remove"]

QuerierNoMembersPresent(g, event) ==
  CASE event = "V1Report" ->
         Add(InState(SetV1HostTimer(SetTimer(g)), "Version1MembersPresent"))
    [] event = "V2Report" -> Add(InState(SetTimer(g), "MembersPresent"))
    [] OTHER -> Only(g)

QuerierMembersPresent(g, event) ==
  CASE event = "MembershipTimeout" -> Remove(g)
    [] event = "V1Report" ->
         Only(InState(SetV1HostTimer(SetTimer(g)), "Version1MembersPresent"))
    [] event = "V2Report" -> Only(SetTimer(g))
    [] event = "Leave" ->
         Query(InState(SetRetransmitTimer(SetCheckingTimer(g)), "CheckingMembership"))
    [] OTHER -> Only(g)

QuerierVersion1MembersPresent(g, event) ==
  CASE event = "MembershipTimeout" -> Remove(g)
    [] event = "V1Timeout" -> Only(InState(g, "MembersPresent"))
    [] event = "V1Report" -> Only(SetV1HostTimer(SetTimer(g)))
    [] event = "V2Report" -> Only(SetTimer(g))
    [] OTHER -> Only(g)

QuerierCheckingMembership_Unnotified(g, event) ==
  CASE event = "MembershipTimeout" ->
         Only(InState([g EXCEPT !.retransmit_timer = 0], "NoMembersPresent"))
    [] event = "RetransmitTimeout" -> Query(SetRetransmitTimer(g))
    [] event = "V1Report" ->
         Only(InState(SetV1HostTimer(SetTimer(g)), "Version1MembersPresent"))
    [] event = "V2Report" -> Only(InState(SetTimer(g), "MembersPresent"))
    [] OTHER -> Only(g)
QuerierCheckingMembership(g, event) ==
  CASE event = "MembershipTimeout" -> Remove([g EXCEPT !.retransmit_timer = 0])
    [] event = "RetransmitTimeout" -> Query(SetRetransmitTimer(g))
    [] event = "V1Report" ->
         Only(InState(SetV1HostTimer(SetTimer(g)), "Version1MembersPresent"))
    [] event = "V2Report" -> Only(InState(SetTimer(g), "MembersPresent"))
    [] OTHER -> Only(g)

NonQuerierNoMembersPresent(g, event) ==
  IF event \in {"V1Report", "V2Report"}
  THEN Add(InState(SetTimer(g), "MembersPresent")) ELSE Only(g)

\* Also of Version1MembersPresent, which stays what it is on a report.
NonQuerierMembersPresent(g, event) ==
  CASE event = "MembershipTimeout" -> Remove(g)
    [] event \in {"V1Report", "V2Report"} -> Only(SetTimer(g))
    [] event = "SpecificQuery" -> Only(InState(SetCheckingTimer(g), "CheckingMembership"))
    [] OTHER -> Only(g)

NonQuerierCheckingMembership(g, event) ==
  CASE event = "MembershipTimeout" -> Remove(g)
    [] event \in {"V1Report", "V2Report"} -> Only(InState(SetTimer(g), "MembersPresent"))
    [] OTHER -> Only(g)

\* get_interface_group_state: the handler for the state of the group and the
\* role of the router at this moment.
React(querier, g, event) ==
  CASE g.state = "NoMembersPresent" ->
         IF querier THEN QuerierNoMembersPresent(g, event) ELSE NonQuerierNoMembersPresent(g, event)
    [] g.state = "MembersPresent" ->
         IF querier THEN QuerierMembersPresent(g, event) ELSE NonQuerierMembersPresent(g, event)
    [] g.state = "Version1MembersPresent" ->
         IF querier THEN QuerierVersion1MembersPresent(g, event)
         ELSE NonQuerierMembersPresent(g, event)
    [] g.state = "CheckingMembership" ->
         IF querier THEN QuerierCheckingMembership(g, event)
         ELSE NonQuerierCheckingMembership(g, event)
=============================================================================
