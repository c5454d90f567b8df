-------------------------------- MODULE MLD --------------------------------
(***************************************************************************)
(* Operators for the MLD state of one interface: the RouterState, which is  *)
(* Querier or NonQuerier, and the GroupState of one group (mld/).  As in    *)
(* IGMP, without version 1 hosts; here a report that is received while the  *)
(* Querier checks for listeners also stops the retransmission of queries.   *)
(***************************************************************************)
EXTENDS Naturals

CONSTANTS QueryInterval, QueryResponseInterval, LastMemberQueryInterval, RobustnessVariable

-----------------------------------------------------------------------------
(* Timers.  LastMemberQueryInterval is LAST_LISTENER_QUERY_INTERVAL here. *)

MulticastListenerInterval == RobustnessVariable * QueryInterval + QueryResponseInterval

OtherQuerierPresentInterval == RobustnessVariable * QueryInterval + QueryResponseInterval \div 2

LastListenerQueryCount == RobustnessVariable

-----------------------------------------------------------------------------
(* The router on its link *)

NewRouterState ==
  [querier |-> TRUE, general_query_timer |-> QueryInterval, other_querier_present_timer |-> 0]

QuerierReceiveQuery(rs, src, own) ==
  IF src >= own THEN rs
  ELSE [querier |-> FALSE, general_query_timer |-> 0,
        other_querier_present_timer |-> OtherQuerierPresentInterval]

NonQuerierReceiveQuery(rs, src, own) ==
  IF src >= own THEN rs
  ELSE [rs EXCEPT !.other_querier_present_timer = OtherQuerierPresentInterval]

GeneralQueryTimeout(rs) ==
  IF rs.querier THEN [rs EXCEPT !.general_query_timer = QueryInterval] ELSE rs

OtherQuerierPresentTimeout(rs) ==
  IF rs.querier THEN rs
  ELSE [rs EXCEPT !.querier = TRUE, !.general_query_timer = QueryInterval]

-----------------------------------------------------------------------------
(* The group.  v1_host_timer is never used. *)

States == {"NoListenersPresent", "ListenersPresent", "CheckingListeners"}

NewGroup ==
  [state |-> "NoListenersPresent", timer |-> 0, v1_host_timer |-> 0, retransmit_timer |-> 0]

HasMembers(g) == g.state # "NoListenersPresent"

SetTimer(g) == [g EXCEPT !.timer = MulticastListenerInterval]

SetCheckingTimer(g) == [g EXCEPT !.timer = LastMemberQueryInterval * LastListenerQueryCount]

SetRetransmitTimer(g) == [g EXCEPT !.retransmit_timer = LastMemberQueryInterval]

InState(g, state) == [g EXCEPT !.state = state]

Only(g) == [group |-> g, notify |-> "Nothing", query |-> FALSE]
Query(g) == [Only(g) EXCEPT !.query = TRUE]
Add(g) == [Only(g) EXCEPT !.notify = "Add"]
Remove(g) == [Only(InState(g, "NoListenersPresent")) EXCEPT !.notify = "Remove"]

QuerierNoListenersPresent(g, event) ==
  IF event = "Report" THEN Add(InState(SetTimer(g), "ListenersPresent")) ELSE Only(g)

QuerierListenersPresent(g, event) ==
  CASE event = "MembershipTimeout" -> Remove(g)
    [] event = "Report" -> Only(SetTimer(g))
    [] event = "Leave" ->
         Query(InState(SetRetransmitTimer(SetCheckingTimer(g)), "CheckingListeners"))
    [] OTHER -> Only(g)

QuerierCheckingListeners(g, event) ==
  CASE event = "MembershipTimeout" -> Remove([g EXCEPT !.retransmit_timer = 0])
    [] event = "RetransmitTimeout" -> Query(SetRetransmitTimer(g))
    [] event = "Report" ->
         Only(InState([SetTimer(g) EXCEPT !.retransmit_timer = 0], "ListenersPresent"))
    [] OTHER -> Only(g)

NonQuerierNoListenersPresent_Ignores(g, event) == Only(g)
NonQuerierNoListenersPresent(g, event) ==
  IF event = "Report" THEN Add(InState(SetTimer(g), "ListenersPresent")) ELSE Only(g)

NonQuerierListenersPresent(g, event) ==
  CASE event = "MembershipTimeout" -> Remove(g)
    [] event = "Report" -> Only(SetTimer(g))
    [] event = "SpecificQuery" -> Only(InState(SetCheckingTimer(g), "CheckingListeners"))
    [] OTHER -> Only(g)

NonQuerierCheckingListeners_TimerLost(g, event) ==
  IF event = "Report" THEN Only(InState(SetTimer(g), "ListenersPresent")) ELSE Only(g)
NonQuerierCheckingListeners(g, event) ==
  CASE event = "MembershipTimeout" -> Remove(g)
    [] event = "Report" -> Only(InState(SetTimer(g), "ListenersPresent"))
    [] OTHER -> Only(g)

\* get_interface_group_state
React(querier, g, event) ==
  CASE g.state = "NoListenersPresent" ->
         IF querier THEN QuerierNoListenersPresent(g, event)
         ELSE NonQuerierNoListenersPresent(g, event)
    [] g.state = "ListenersPresent" ->
         IF querier THEN QuerierListenersPresent(g, event)
         ELSE NonQuerierListenersPresent(g, event)
    [] g.state = "CheckingListeners" ->
         IF querier THEN QuerierCheckingListeners(g, event)
         ELSE NonQuerierCheckingListeners(g, event)
=============================================================================
