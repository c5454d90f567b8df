---------------------------- MODULE Membership ----------------------------
(***************************************************************************)
(* Routers and hosts on one link: the election of the Querier and the       *)
(* membership of one group, by IGMP or by MLD, and a tree of that group at  *)
(* every router, which is told of the membership.                           *)
(*                                                                         *)
(* Time is discrete.  Packets take no time and arrive in the order of the   *)
(* link: whatever has arrived, and every callback of a timer that has       *)
(* expired, is handled before the clock moves.  A callback that waits for   *)
(* the group's lock runs even when the timer was set again meanwhile.       *)
(*                                                                         *)
(* The hosts are one population: it answers a query with a report, of any   *)
(* of its versions, within the Maximum Response Time, and a Leave need not  *)
(* be that of the last member.  At most MaxLosses packets are lost, each    *)
(* for any of its receivers.                                                *)
(***************************************************************************)
EXTENDS Naturals, FiniteSets, SequencesExt

CONSTANTS
  Routers,          \* the routers of the link, numbered as their addresses are ordered
  TreeRouters,      \* those that may have a tree of the group
  Protocols,        \* a subset of {"IGMP", "MLD"}; a behaviour is of one of them
  QueryInterval, QueryResponseInterval, LastMemberQueryInterval, RobustnessVariable,
  MaxEvents,        \* how often hosts, interfaces and trees come or go
  MaxLosses

ASSUME MembershipAssumption ==
  /\ Routers \subseteq Nat \ {0} /\ IsFiniteSet(Routers)
  /\ TreeRouters \subseteq Routers
  /\ Protocols \subseteq {"IGMP", "MLD"}
  /\ {QueryInterval, QueryResponseInterval, LastMemberQueryInterval, RobustnessVariable}
       \subseteq Nat \ {0}
  /\ LastMemberQueryInterval <= QueryResponseInterval /\ QueryResponseInterval < QueryInterval

VARIABLES
  protocol,  \* what the link speaks
  enabled,   \* the routers whose interface is up
  router,    \* router[r]: the RouterState
  group,     \* group[r]: the GroupState
  notifying, \* notifying[r]: what the handler that holds group[r].lock has
             \* still to tell the trees
  tree,      \* tree[r]: _local_membership_state of r's tree of the group, when
             \* the tree exists and is registered with the group
  expired,   \* expired[r]: the callbacks of expired timers that did not run yet
  arrived,   \* arrived[r]: packets that r did not handle yet
  members,   \* whether some host is a member of the group
  answer,    \* the time left for the members to report, 0 when they need not
  losses, events,
  failed     \* history: whether an interface has gone down

vars == <<protocol, enabled, router, group, notifying, tree, expired, arrived,
          members, answer, losses, events, failed>>

Igmp == INSTANCE IGMP
Mld == INSTANCE MLD

-----------------------------------------------------------------------------
(* Types *)

IsIgmp == protocol = "IGMP"
NewRouterState == IF IsIgmp THEN Igmp!NewRouterState ELSE Mld!NewRouterState
NewGroup == IF IsIgmp THEN Igmp!NewGroup ELSE Mld!NewGroup
HasMembers(r) == IF IsIgmp THEN Igmp!HasMembers(group[r]) ELSE Mld!HasMembers(group[r])

RouterTimeouts == {"general_query_timer", "other_querier_present_timer"}
GroupTimeouts == {"timer", "v1_host_timer", "retransmit_timer"}

Queries == [type : {"GeneralQuery", "GroupQuery"}, src : Routers]
GroupPackets == [type : {"V1Report", "V2Report", "Report", "Leave", "SpecificQuery"}]

MembershipTypeOK ==
  /\ protocol \in Protocols
  /\ enabled \subseteq Routers
  /\ router \in [Routers -> [querier : BOOLEAN, general_query_timer : 0..QueryInterval,
                             other_querier_present_timer : 0..Igmp!OtherQuerierPresentInterval]]
  /\ \A r \in Routers :
       /\ group[r].state \in IF IsIgmp THEN Igmp!States ELSE Mld!States
       /\ group[r].timer \in 0..Igmp!GroupMembershipInterval
       /\ group[r].v1_host_timer \in 0..Igmp!GroupMembershipInterval
       /\ group[r].retransmit_timer \in 0..LastMemberQueryInterval
  /\ notifying \in [Routers -> {"Nothing", "Add", "Remove"}]
  /\ tree \in [TreeRouters -> {"Absent", "Unregistered", "NoInfo", "Include"}]
  /\ expired \in [Routers -> SUBSET (RouterTimeouts \cup GroupTimeouts)]
  /\ arrived \in [Routers -> Seq(Queries \cup GroupPackets)]
  /\ members \in BOOLEAN
  /\ answer \in 0..QueryResponseInterval

-----------------------------------------------------------------------------
(* Packets *)

MaxResponseTime(p) ==
  IF p.type = "GeneralQuery" THEN QueryResponseInterval ELSE LastMemberQueryInterval

Sooner(a, b) == IF a = 0 \/ b < a THEN b ELSE a

\* A packet reaches its receivers but for those that lose it, for whom box is
\* all that has arrived.
Deliver(box, p, receivers, lost) ==
  /\ losses + Cardinality(lost) <= MaxLosses
  /\ losses' = losses + Cardinality(lost)
  /\ arrived' = [r \in Routers |->
       IF r \in receivers \ lost THEN Append(box[r], p) ELSE box[r]]

\* For the other routers and the members; 0 stands for the latter.
SendQuery(box, p) ==
  LET receivers == (enabled \ {p.src}) \cup {r \in {0} : members}
  IN  \E lost \in SUBSET receivers :
        /\ Deliver(box, p, receivers, lost)
        /\ answer' = IF 0 \in receivers \ lost THEN Sooner(answer, MaxResponseTime(p)) ELSE answer

SendNothing(box) == arrived' = box /\ UNCHANGED <<losses, answer>>

SendByHost(type) ==
  \E lost \in SUBSET enabled : Deliver(arrived, [type |-> type], enabled, lost)

GeneralQuery(r) == [type |-> "GeneralQuery", src |-> r]
GroupQuery(r) == [type |-> "GroupQuery", src |-> r]

-----------------------------------------------------------------------------
(* The group at a router *)

\* A handler under the group's lock; it keeps the lock until it has notified
\* the trees.
Handle(r, event, box) ==
  LET outcome == IF IsIgmp THEN Igmp!React(router[r].querier, group[r], event)
                 ELSE Mld!React(router[r].querier, group[r], event)
  IN  /\ notifying[r] = "Nothing"
      /\ group' = [group EXCEPT ![r] = outcome.group]
      /\ notifying' = [notifying EXCEPT ![r] = outcome.notify]
      /\ IF outcome.query THEN SendQuery(box, GroupQuery(r)) ELSE SendNothing(box)

Rest(r) == [arrived EXCEPT ![r] = Tail(@)]

ReceiveForGroup(r) ==
  /\ arrived[r] # <<>> /\ Head(arrived[r]) \in GroupPackets
  /\ Handle(r, Head(arrived[r]).type, Rest(r))
  /\ UNCHANGED <<protocol, enabled, router, tree, expired, members, events, failed>>

Elected(rs, src, own) ==
  IF IsIgmp
  THEN IF rs.querier THEN Igmp!QuerierReceiveQuery(rs, src, own)
       ELSE Igmp!NonQuerierReceiveQuery(rs, src, own)
  ELSE IF rs.querier THEN Mld!QuerierReceiveQuery(rs, src, own)
       ELSE Mld!NonQuerierReceiveQuery(rs, src, own)

\* receive_query: first the election; what a Group-Specific Query says of the
\* group waits for the group's lock.
ReceiveQuery(r) ==
  /\ arrived[r] # <<>> /\ Head(arrived[r]) \in Queries
  /\ LET p == Head(arrived[r])
     IN  /\ router' = [router EXCEPT ![r] = Elected(@, p.src, r)]
         /\ SendNothing(IF p.type = "GroupQuery"
                        THEN [arrived EXCEPT ![r][1] = [type |-> "SpecificQuery"]] ELSE Rest(r))
  /\ UNCHANGED <<protocol, enabled, group, notifying, tree, expired, members, events, failed>>

EventOf(timeout) ==
  CASE timeout = "timer" -> "MembershipTimeout"
    [] timeout = "v1_host_timer" -> "V1Timeout"
    [] timeout = "retransmit_timer" -> "RetransmitTimeout"

GroupTimeout(r) ==
  \E timeout \in expired[r] \cap GroupTimeouts :
    /\ Handle(r, EventOf(timeout), arrived)
    /\ expired' = [expired EXCEPT ![r] = @ \ {timeout}]
    /\ UNCHANGED <<protocol, enabled, router, tree, members, events, failed>>

\* notify_routing_add, notify_routing_remove: of the trees registered now.
Notify(r) ==
  /\ notifying[r] # "Nothing"
  /\ tree' = [q \in TreeRouters |->
       IF q # r \/ tree[q] \in {"Absent", "Unregistered"} THEN tree[q]
       ELSE IF notifying[r] = "Add" THEN "Include" ELSE "NoInfo"]
  /\ notifying' = [notifying EXCEPT ![r] = "Nothing"]
  /\ UNCHANGED <<protocol, enabled, router, group, expired, arrived, members,
                 answer, losses, events, failed>>

-----------------------------------------------------------------------------
(* The router's timers.  Their callbacks take no lock. *)

GeneralQueryTimeout(r) ==
  /\ "general_query_timer" \in expired[r]
  /\ expired' = [expired EXCEPT ![r] = @ \ {"general_query_timer"}]
  /\ router' = [router EXCEPT ![r] =
       IF IsIgmp THEN Igmp!GeneralQueryTimeout(@) ELSE Mld!GeneralQueryTimeout(@)]
  /\ IF router[r].querier THEN SendQuery(arrived, GeneralQuery(r)) ELSE SendNothing(arrived)
  /\ UNCHANGED <<protocol, enabled, group, notifying, tree, members, events, failed>>

OtherQuerierPresentTimeout(r) ==
  /\ "other_querier_present_timer" \in expired[r]
  /\ expired' = [expired EXCEPT ![r] = @ \ {"other_querier_present_timer"}]
  /\ router' = [router EXCEPT ![r] =
       IF IsIgmp THEN Igmp!OtherQuerierPresentTimeout(@) ELSE Mld!OtherQuerierPresentTimeout(@)]
  /\ IF router[r].querier THEN SendNothing(arrived) ELSE SendQuery(arrived, GeneralQuery(r))
  /\ UNCHANGED <<protocol, enabled, group, notifying, tree, members, events, failed>>

-----------------------------------------------------------------------------
(* Hosts *)

Reports == IF IsIgmp THEN {"V1Report", "V2Report"} ELSE {"Report"}

Answer ==
  /\ answer > 0
  /\ answer' = 0
  /\ \E type \in Reports : SendByHost(type)
  /\ UNCHANGED <<protocol, enabled, router, group, notifying, tree, expired, members, events, failed>>

Happens == events < MaxEvents /\ events' = events + 1

Join ==
  /\ ~members /\ Happens
  /\ members' = TRUE
  /\ \E type \in Reports : SendByHost(type)
  /\ UNCHANGED <<protocol, enabled, router, group, notifying, tree, expired, answer, failed>>

\* One host leaves; others may remain.
Leave(last) ==
  /\ members /\ Happens
  /\ members' = ~last
  /\ answer' = IF last THEN 0 ELSE answer
  /\ SendByHost("Leave")
  /\ UNCHANGED <<protocol, enabled, router, group, notifying, tree, expired, failed>>

\* The last host crashes, or is one of IGMP version 1, which sends no Leave.
LeaveSilently ==
  /\ members /\ Happens
  /\ members' = FALSE
  /\ answer' = 0
  /\ UNCHANGED <<protocol, enabled, router, group, notifying, tree, expired, arrived, losses, failed>>

-----------------------------------------------------------------------------
(* Interfaces and trees *)

\* create_membership_interface: a RouterState that begins as Querier.
Start(r) ==
  /\ r \notin enabled
  /\ enabled' = enabled \cup {r}
  /\ router' = [router EXCEPT ![r] = NewRouterState]
  /\ SendQuery(arrived, GeneralQuery(r))
  /\ UNCHANGED <<protocol, group, notifying, tree, expired, members, events, failed>>

\* remove_interface: the trees are told that there are no members, and neither
\* the group nor what is under way for it plays a role any more.
Stop(r) ==
  /\ r \in enabled /\ Happens
  /\ enabled' = enabled \ {r}
  /\ router' = [router EXCEPT ![r] = NewRouterState]
  /\ group' = [group EXCEPT ![r] = NewGroup]
  /\ notifying' = [notifying EXCEPT ![r] = "Nothing"]
  /\ tree' = [q \in TreeRouters |->
       IF q = r /\ tree[q] # "Absent" THEN "Unregistered" ELSE tree[q]]
  /\ expired' = [expired EXCEPT ![r] = {}]
  /\ arrived' = [arrived EXCEPT ![r] = <<>>]
  /\ failed' = TRUE
  /\ UNCHANGED <<protocol, members, answer, losses>>

\* What add_multicast_routing_entry tells a tree that registers, not under the
\* group's own lock; a tree of an interface that is down does not register.
Registered(r) ==
  IF r \notin enabled THEN "Unregistered" ELSE IF HasMembers(r) THEN "Include" ELSE "NoInfo"

AddTree(r) ==
  /\ tree[r] = "Absent"
  /\ tree' = [tree EXCEPT ![r] = Registered(r)]
  /\ UNCHANGED <<protocol, enabled, router, group, notifying, expired, arrived,
                 members, answer, losses, events, failed>>

\* recheck_membership_all_trees, in a thread that create_membership_interface
\* starts: the trees that are there already register with the new group.
RecheckMembership(r) ==
  /\ r \in enabled /\ tree[r] = "Unregistered"
  /\ tree' = [tree EXCEPT ![r] = Registered(r)]
  /\ UNCHANGED <<protocol, enabled, router, group, notifying, expired, arrived,
                 members, answer, losses, events, failed>>

RemoveTree(r) ==
  /\ tree[r] # "Absent" /\ Happens
  /\ tree' = [tree EXCEPT ![r] = "Absent"]
  /\ UNCHANGED <<protocol, enabled, router, group, notifying, expired, arrived,
                 members, answer, losses, failed>>

-----------------------------------------------------------------------------
(* Time *)

RunsOut(r) ==
  {t \in RouterTimeouts : router[r][t] = 1} \cup {t \in GroupTimeouts : group[r][t] = 1}

Less(x) == IF x = 0 THEN 0 ELSE x - 1

Tick ==
  /\ \A r \in Routers : notifying[r] = "Nothing" /\ arrived[r] = <<>> /\ expired[r] = {}
  /\ answer # 1
  /\ router' = [r \in Routers |-> IF r \in enabled
       THEN [router[r] EXCEPT !.general_query_timer = Less(@),
                              !.other_querier_present_timer = Less(@)]
       ELSE router[r]]
  /\ group' = [r \in Routers |->
       [group[r] EXCEPT !.timer = Less(@), !.v1_host_timer = Less(@),
                        !.retransmit_timer = Less(@)]]
  /\ expired' = [r \in Routers |-> IF r \in enabled THEN RunsOut(r) ELSE {}]
  /\ answer' = Less(answer)
  /\ UNCHANGED <<protocol, enabled, notifying, tree, arrived, members, losses, events, failed>>

-----------------------------------------------------------------------------
\* All interfaces have just come up, and each has sent its first General Query;
\* the trees were there before, and members may have been.
MembershipInit ==
  /\ protocol \in Protocols
  /\ enabled = Routers
  /\ router = [r \in Routers |-> NewRouterState]
  /\ group = [r \in Routers |-> NewGroup]
  /\ notifying = [r \in Routers |-> "Nothing"]
  /\ tree = [r \in TreeRouters |-> "Unregistered"]
  /\ expired = [r \in Routers |-> {}]
  /\ arrived = [r \in Routers |-> SetToSeq({GeneralQuery(q) : q \in Routers \ {r}})]
  /\ members \in BOOLEAN
  /\ answer = IF members THEN QueryResponseInterval ELSE 0
  /\ losses = 0 /\ events = 0 /\ failed = FALSE

RouterStep ==
  \/ \E r \in Routers :
       \/ ReceiveForGroup(r) \/ ReceiveQuery(r) \/ GroupTimeout(r) \/ Notify(r)
       \/ GeneralQueryTimeout(r) \/ OtherQuerierPresentTimeout(r)
  \/ \E r \in TreeRouters : RecheckMembership(r)

Environment ==
  \/ Join \/ LeaveSilently \/ \E last \in BOOLEAN : Leave(last)
  \/ \E r \in Routers : Start(r) \/ Stop(r)
  \/ \E r \in TreeRouters : AddTree(r) \/ RemoveTree(r)

Progress == RouterStep \/ Tick \/ Answer

MembershipNext == Progress \/ Environment

MembershipSpec == MembershipInit /\ [][MembershipNext]_vars

\* Time goes on: a step of Progress is always possible.
MembershipFairSpec == MembershipSpec /\ []<><<Progress>>_vars

-----------------------------------------------------------------------------
(* What the routers promise *)

\* Between two handlers a registered tree knows what the group knows: a
\* registration that falls between set_state and the notification loses
\* nothing (add_multicast_routing_entry, notify_routing_*, remove).
TreesFollowGroup ==
  \A r \in TreeRouters :
    tree[r] \in {"NoInfo", "Include"} /\ notifying[r] = "Nothing"
      => (tree[r] = "Include" <=> HasMembers(r))

\* How many lost packets must not cost r the group.  A NonQuerier that checks
\* depends on every report, since the Querier, once it has heard one, asks no
\* more; and its callback may still wait for the lock when a later report has
\* set the timer again.
Tolerated(r) ==
  IF /\ ~router[r].querier
     /\ \/ group[r].state \in {"CheckingMembership", "CheckingListeners"}
        \/ group[r].timer > 0
  THEN 0 ELSE RobustnessVariable - 1

\* As long as no interface went down and no more packets were lost than the
\* timers allow for (igmp_globals.py, mld_globals.py), a router gives a group up
\* only when no host is a member: neither a report that comes when the timer
\* is about to expire, nor the check after the Leave of another host, nor a
\* change of the Querier interrupts the reception.
MembersAreKept ==
  [][\A r \in Routers :
       /\ HasMembers(r) /\ ~HasMembers(r)'
       /\ losses <= Tolerated(r) /\ ~failed'
       => ~members]_vars

\* When the changes are over, every router of the link knows of the members.
MembersAreFound ==
  \A r \in Routers :
    <>[](members /\ r \in enabled) => <>[](HasMembers(r))

\* A group without members is finally given up by every router, whatever was
\* lost and whoever is Querier.
GroupsAreGivenUp ==
  <>[](~members) => \A r \in Routers : <>[](~HasMembers(r))

\* The router with the lowest address that is up becomes the only Querier, also
\* when the Querier before it goes down (receive_query, other_querier_present).
OneQuerier ==
  \A r \in Routers :
    /\ <>[](r \in enabled /\ \A q \in enabled : r <= q) => <>[](router[r].querier)
    /\ <>[](r \in enabled /\ \E q \in enabled : q < r) => <>[](~router[r].querier)
=============================================================================
