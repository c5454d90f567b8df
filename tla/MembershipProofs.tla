-------------------------- MODULE MembershipProofs --------------------------
(***************************************************************************)
(* What holds of Membership on every link: whatever the routers, the        *)
(* intervals and the number of lost packets.                                *)
(***************************************************************************)
EXTENDS Membership, FiniteSetTheorems, TLAPS

-----------------------------------------------------------------------------
(* The type of a group, and what must hold between the group's lock holder  *)
(* and the group for the trees to follow                                    *)

GroupInterval == RobustnessVariable * QueryInterval + QueryResponseInterval

GroupsWith(states) ==
  [state : states, timer : 0..GroupInterval, v1_host_timer : 0..GroupInterval,
   retransmit_timer : 0..LastMemberQueryInterval]

Groups == IF IsIgmp THEN GroupsWith(Igmp!States) ELSE GroupsWith(Mld!States)

\* What is still to be told to the trees is what the group knows.
NotifyingIsTrue ==
  \A r \in Routers :
    /\ notifying[r] = "Add" => HasMembers(r)
    /\ notifying[r] = "Remove" => ~HasMembers(r)

\* The inductive invariant: packets and callbacks find a group of the type they
\* expect, and a tree lags behind only while its group is notifying.
MembershipInv ==
  /\ MembershipTypeOK
  /\ group \in [Routers -> Groups]
  /\ NotifyingIsTrue
  /\ TreesFollowGroup

-----------------------------------------------------------------------------
(* Intervals *)

\* The times that a timer is set to are within the longest interval.
LEMMA Intervals ==
  /\ GroupInterval \in Nat
  /\ Igmp!GroupMembershipInterval = GroupInterval
  /\ Mld!MulticastListenerInterval = GroupInterval
  /\ LastMemberQueryInterval * RobustnessVariable \in 0..GroupInterval
  /\ LastMemberQueryInterval \in Nat /\ QueryInterval \in Nat /\ QueryResponseInterval \in Nat
  /\ Igmp!OtherQuerierPresentInterval \in Nat
  /\ Mld!OtherQuerierPresentInterval = Igmp!OtherQuerierPresentInterval
<1> DEFINE R == RobustnessVariable
           Q == QueryInterval
           L == LastMemberQueryInterval
<1>1. R \in Nat /\ Q \in Nat /\ L \in Nat /\ QueryResponseInterval \in Nat /\ L <= Q
  BY MembershipAssumption
<1>2. R * Q \in Nat /\ L * R \in Nat
  BY <1>1
<1>3. L * R <= R * Q
  <2>1. (Q - L) * R \in Nat
    BY <1>1
  <2>2. (Q - L) * R = R * Q - L * R
    BY <1>1
  <2> QED
    BY <1>2, <2>1, <2>2
<1>4. QueryResponseInterval \div 2 \in Nat
  BY <1>1
<1> QED
  BY <1>1, <1>2, <1>3, <1>4
     DEF GroupInterval, Igmp!GroupMembershipInterval, Mld!MulticastListenerInterval,
         Igmp!OtherQuerierPresentInterval, Mld!OtherQuerierPresentInterval


-----------------------------------------------------------------------------
(* The handlers *)

\* The fields of a group are set one at a time, within their ranges.
LEMMA GroupFields ==
  ASSUME NEW states, NEW g \in GroupsWith(states)
  PROVE  /\ GroupInterval \in 0..GroupInterval /\ 0 \in 0..LastMemberQueryInterval
         /\ LastMemberQueryInterval \in 0..LastMemberQueryInterval
         /\ \A s \in states : [g EXCEPT !.state = s] \in GroupsWith(states)
         /\ \A x \in 0..GroupInterval :
              /\ [g EXCEPT !.timer = x] \in GroupsWith(states)
              /\ [g EXCEPT !.v1_host_timer = x] \in GroupsWith(states)
         /\ \A x \in 0..LastMemberQueryInterval :
              [g EXCEPT !.retransmit_timer = x] \in GroupsWith(states)
         /\ g.state \in states
         /\ \A s : [g EXCEPT !.state = s].state = s
         /\ \A x : /\ [g EXCEPT !.timer = x].state = g.state
                   /\ [g EXCEPT !.v1_host_timer = x].state = g.state
                   /\ [g EXCEPT !.retransmit_timer = x].state = g.state
  BY Intervals DEF GroupsWith

\* A handler of IGMP leaves a group of the type, and tells the trees exactly
\* when the membership changes.
LEMMA IgmpReacts ==
  ASSUME NEW querier \in BOOLEAN, NEW g \in GroupsWith(Igmp!States), NEW event,
         NEW o, o = Igmp!React(querier, g, event)
  PROVE  /\ o.group \in GroupsWith(Igmp!States)
         /\ o.notify \in {"Nothing", "Add", "Remove"}
         /\ o.notify = "Nothing" => (Igmp!HasMembers(o.group) <=> Igmp!HasMembers(g))
         /\ o.notify = "Add" => Igmp!HasMembers(o.group)
         /\ o.notify = "Remove" => ~Igmp!HasMembers(o.group)
<1> DEFINE G == GroupsWith(Igmp!States)
<1>1. ASSUME NEW h \in G
      PROVE
        /\ Igmp!SetTimer(h) \in G /\ Igmp!SetTimer(h).state = h.state
        /\ Igmp!SetCheckingTimer(h) \in G /\ Igmp!SetCheckingTimer(h).state = h.state
        /\ Igmp!SetV1HostTimer(h) \in G /\ Igmp!SetV1HostTimer(h).state = h.state
        /\ Igmp!SetRetransmitTimer(h) \in G /\ Igmp!SetRetransmitTimer(h).state = h.state
        /\ [h EXCEPT !.retransmit_timer = 0] \in G
        /\ [h EXCEPT !.retransmit_timer = 0].state = h.state
        /\ \A s \in Igmp!States : Igmp!InState(h, s) \in G /\ Igmp!InState(h, s).state = s
        /\ h.state \in Igmp!States
  BY GroupFields, Intervals
     DEF Igmp!SetTimer, Igmp!SetCheckingTimer, Igmp!SetV1HostTimer, Igmp!SetRetransmitTimer,
         Igmp!InState, Igmp!LastMemberQueryCount
<1>2. \A h : /\ Igmp!Only(h).group = h /\ Igmp!Only(h).notify = "Nothing"
             /\ Igmp!Query(h).group = h /\ Igmp!Query(h).notify = "Nothing"
             /\ Igmp!Add(h).group = h /\ Igmp!Add(h).notify = "Add"
             /\ Igmp!Remove(h).group = Igmp!InState(h, "NoMembersPresent")
             /\ Igmp!Remove(h).notify = "Remove"
  BY DEF Igmp!Only, Igmp!Query, Igmp!Add, Igmp!Remove
<1>3. g \in G /\ G = GroupsWith(Igmp!States)
  OBVIOUS
<1>4. /\ Igmp!SetTimer(g) \in G /\ Igmp!SetTimer(g).state = g.state
      /\ Igmp!SetV1HostTimer(Igmp!SetTimer(g)) \in G
      /\ Igmp!SetV1HostTimer(Igmp!SetTimer(g)).state = g.state
      /\ Igmp!SetCheckingTimer(g) \in G /\ Igmp!SetCheckingTimer(g).state = g.state
      /\ Igmp!SetRetransmitTimer(Igmp!SetCheckingTimer(g)) \in G
      /\ Igmp!SetRetransmitTimer(Igmp!SetCheckingTimer(g)).state = g.state
      /\ Igmp!SetRetransmitTimer(g) \in G /\ Igmp!SetRetransmitTimer(g).state = g.state
      /\ [g EXCEPT !.retransmit_timer = 0] \in G
      /\ [g EXCEPT !.retransmit_timer = 0].state = g.state
  BY <1>1, <1>3
<1>5. \A h \in G, x \in Igmp!States :
                Igmp!InState(h, x) \in G /\ Igmp!InState(h, x).state = x
  BY <1>1
<1> HIDE DEF G
<1>6. CASE g.state = "NoMembersPresent"
  <2>1. o \in {Igmp!Only(g),
              Igmp!Add(Igmp!InState(Igmp!SetTimer(g), "MembersPresent")),
              Igmp!Add(
                Igmp!InState(Igmp!SetV1HostTimer(Igmp!SetTimer(g)), "Version1MembersPresent"))}
    BY <1>6 DEF Igmp!React, Igmp!QuerierNoMembersPresent, Igmp!NonQuerierNoMembersPresent
  <2> QED
    BY <1>2, <1>3, <1>4, <1>5, <1>6, <2>1 DEF Igmp!HasMembers, Igmp!States
<1>7. CASE g.state \in {"MembersPresent", "Version1MembersPresent"}
  <2>1. o \in {Igmp!Only(g),
              Igmp!Remove(g),
              Igmp!Only(Igmp!SetTimer(g)),
              Igmp!Only(Igmp!SetV1HostTimer(Igmp!SetTimer(g))),
              Igmp!Only(
                Igmp!InState(Igmp!SetV1HostTimer(Igmp!SetTimer(g)), "Version1MembersPresent")),
              Igmp!Only(Igmp!InState(g, "MembersPresent")),
              Igmp!Query(
                Igmp!InState(Igmp!SetRetransmitTimer(Igmp!SetCheckingTimer(g)), "CheckingMembership")),
              Igmp!Only(Igmp!InState(Igmp!SetCheckingTimer(g), "CheckingMembership"))}
    BY <1>7 DEF Igmp!React, Igmp!QuerierMembersPresent, Igmp!NonQuerierMembersPresent,
         Igmp!QuerierVersion1MembersPresent
  <2> QED
    BY <1>2, <1>3, <1>4, <1>5, <1>7, <2>1 DEF Igmp!HasMembers, Igmp!States
<1>8. CASE g.state = "CheckingMembership"
  <2>1. o \in {Igmp!Only(g),
              Igmp!Remove(g),
              Igmp!Remove([g EXCEPT !.retransmit_timer = 0]),
              Igmp!Query(Igmp!SetRetransmitTimer(g)),
              Igmp!Only(
                Igmp!InState(Igmp!SetV1HostTimer(Igmp!SetTimer(g)), "Version1MembersPresent")),
              Igmp!Only(Igmp!InState(Igmp!SetTimer(g), "MembersPresent"))}
    BY <1>8 DEF Igmp!React, Igmp!QuerierCheckingMembership,
         Igmp!NonQuerierCheckingMembership
  <2> QED
    BY <1>2, <1>3, <1>4, <1>5, <1>8, <2>1 DEF Igmp!HasMembers, Igmp!States
<1> QED
  BY <1>1, <1>3, <1>6, <1>7, <1>8 DEF Igmp!States

\* The same of MLD.
LEMMA MldReacts ==
  ASSUME NEW querier \in BOOLEAN, NEW g \in GroupsWith(Mld!States), NEW event,
         NEW o, o = Mld!React(querier, g, event)
  PROVE  /\ o.group \in GroupsWith(Mld!States)
         /\ o.notify \in {"Nothing", "Add", "Remove"}
         /\ o.notify = "Nothing" => (Mld!HasMembers(o.group) <=> Mld!HasMembers(g))
         /\ o.notify = "Add" => Mld!HasMembers(o.group)
         /\ o.notify = "Remove" => ~Mld!HasMembers(o.group)
<1> DEFINE G == GroupsWith(Mld!States)
<1>1. ASSUME NEW h \in G
      PROVE
        /\ Mld!SetTimer(h) \in G /\ Mld!SetTimer(h).state = h.state
        /\ Mld!SetCheckingTimer(h) \in G /\ Mld!SetCheckingTimer(h).state = h.state
        /\ Mld!SetRetransmitTimer(h) \in G /\ Mld!SetRetransmitTimer(h).state = h.state
        /\ [h EXCEPT !.retransmit_timer = 0] \in G
        /\ [h EXCEPT !.retransmit_timer = 0].state = h.state
        /\ \A s \in Mld!States : Mld!InState(h, s) \in G /\ Mld!InState(h, s).state = s
        /\ h.state \in Mld!States
  BY GroupFields, Intervals
     DEF Mld!SetTimer, Mld!SetCheckingTimer, Mld!SetRetransmitTimer, Mld!InState,
         Mld!LastListenerQueryCount
<1>2. \A h : /\ Mld!Only(h).group = h /\ Mld!Only(h).notify = "Nothing"
             /\ Mld!Query(h).group = h /\ Mld!Query(h).notify = "Nothing"
             /\ Mld!Add(h).group = h /\ Mld!Add(h).notify = "Add"
             /\ Mld!Remove(h).group = Mld!InState(h, "NoListenersPresent")
             /\ Mld!Remove(h).notify = "Remove"
  BY DEF Mld!Only, Mld!Query, Mld!Add, Mld!Remove
<1>3. g \in G /\ G = GroupsWith(Mld!States)
  OBVIOUS
<1>4. /\ Mld!SetTimer(g) \in G /\ Mld!SetTimer(g).state = g.state
      /\ [Mld!SetTimer(g) EXCEPT !.retransmit_timer = 0] \in G
      /\ [Mld!SetTimer(g) EXCEPT !.retransmit_timer = 0].state = g.state
      /\ Mld!SetCheckingTimer(g) \in G /\ Mld!SetCheckingTimer(g).state = g.state
      /\ Mld!SetRetransmitTimer(Mld!SetCheckingTimer(g)) \in G
      /\ Mld!SetRetransmitTimer(Mld!SetCheckingTimer(g)).state = g.state
      /\ Mld!SetRetransmitTimer(g) \in G /\ Mld!SetRetransmitTimer(g).state = g.state
      /\ [g EXCEPT !.retransmit_timer = 0] \in G
      /\ [g EXCEPT !.retransmit_timer = 0].state = g.state
  BY <1>1, <1>3
<1>5. \A h \in G, x \in Mld!States : Mld!InState(h, x) \in G /\ Mld!InState(h, x).state = x
  BY <1>1
<1> HIDE DEF G
<1>6. CASE g.state = "NoListenersPresent"
  <2>1. o \in {Mld!Only(g),
              Mld!Add(Mld!InState(Mld!SetTimer(g), "ListenersPresent"))}
    BY <1>6 DEF Mld!React, Mld!QuerierNoListenersPresent, Mld!NonQuerierNoListenersPresent
  <2> QED
    BY <1>2, <1>3, <1>4, <1>5, <1>6, <2>1 DEF Mld!HasMembers, Mld!States
<1>7. CASE g.state = "ListenersPresent"
  <2>1. o \in {Mld!Only(g),
              Mld!Remove(g),
              Mld!Only(Mld!SetTimer(g)),
              Mld!Query(Mld!InState(Mld!SetRetransmitTimer(Mld!SetCheckingTimer(g)), "CheckingListeners")),
              Mld!Only(Mld!InState(Mld!SetCheckingTimer(g), "CheckingListeners"))}
    BY <1>7 DEF Mld!React, Mld!QuerierListenersPresent, Mld!NonQuerierListenersPresent
  <2> QED
    BY <1>2, <1>3, <1>4, <1>5, <1>7, <2>1 DEF Mld!HasMembers, Mld!States
<1>8. CASE g.state = "CheckingListeners"
  <2>1. o \in {Mld!Only(g),
              Mld!Remove(g),
              Mld!Remove([g EXCEPT !.retransmit_timer = 0]),
              Mld!Query(Mld!SetRetransmitTimer(g)),
              Mld!Only(Mld!InState(Mld!SetTimer(g), "ListenersPresent")),
              Mld!Only(Mld!InState([Mld!SetTimer(g) EXCEPT !.retransmit_timer = 0], "ListenersPresent"))}
    BY <1>8 DEF Mld!React, Mld!QuerierCheckingListeners, Mld!NonQuerierCheckingListeners
  <2> QED
    BY <1>2, <1>3, <1>4, <1>5, <1>8, <2>1 DEF Mld!HasMembers, Mld!States
<1> QED
  BY <1>1, <1>3, <1>6, <1>7, <1>8 DEF Mld!States


-----------------------------------------------------------------------------
(* Packets *)

Packets == Queries \cup GroupPackets
Boxes == [Routers -> Seq(Packets)]

\* Whoever loses it, a packet is appended to what arrived.
LEMMA DeliverType ==
  ASSUME NEW box \in Boxes, NEW p \in Packets, NEW receivers, NEW lost,
         Deliver(box, p, receivers, lost)
  PROVE  arrived' \in Boxes
<1>1. \A r \in Routers : box[r] \in Seq(Packets) /\ Append(box[r], p) \in Seq(Packets)
  BY DEF Boxes
<1> QED
  BY <1>1 DEF Deliver, Boxes

LEMMA SendQueryType ==
  ASSUME NEW box \in Boxes, NEW p \in Queries, answer \in 0..QueryResponseInterval,
         SendQuery(box, p)
  PROVE  arrived' \in Boxes /\ answer' \in 0..QueryResponseInterval
<1>1. MaxResponseTime(p) \in 0..QueryResponseInterval
  BY MembershipAssumption DEF MaxResponseTime
<1>2. Sooner(answer, MaxResponseTime(p)) \in 0..QueryResponseInterval
  BY <1>1 DEF Sooner
<1>3. PICK lost : /\ Deliver(box, p, (enabled \ {p.src}) \cup {r \in {0} : members}, lost)
                  /\ answer' \in {answer, Sooner(answer, MaxResponseTime(p))}
  BY DEF SendQuery
<1> QED
  BY <1>2, <1>3, DeliverType DEF Packets

LEMMA SendByHostType ==
  ASSUME NEW type \in {"V1Report", "V2Report", "Report", "Leave"}, arrived \in Boxes,
         SendByHost(type)
  PROVE  arrived' \in Boxes
<1>1. [type |-> type] \in Packets
  BY DEF Packets, GroupPackets
<1> QED
  BY <1>1, DeliverType DEF SendByHost

LEMMA OwnQueries ==
  ASSUME NEW r \in Routers
  PROVE  GeneralQuery(r) \in Queries /\ GroupQuery(r) \in Queries
  BY DEF GeneralQuery, GroupQuery, Queries

-----------------------------------------------------------------------------
(* Parts of the invariant that a step leaves alone *)

\* The type invariant asks of a group what Groups says.
LEMMA GroupsAreTyped ==
  ASSUME NEW g \in Groups
  PROVE  /\ g.state \in IF IsIgmp THEN Igmp!States ELSE Mld!States
         /\ g.timer \in 0..Igmp!GroupMembershipInterval
         /\ g.v1_host_timer \in 0..Igmp!GroupMembershipInterval
         /\ g.retransmit_timer \in 0..LastMemberQueryInterval
  BY Intervals DEF Groups, GroupsWith

\* Where neither groups nor notifications nor trees change, the trees go on
\* following their groups.
LEMMA SameMembership ==
  ASSUME MembershipInv, UNCHANGED <<protocol, group, notifying, tree>>
  PROVE  /\ group' \in [Routers -> Groups'] /\ NotifyingIsTrue' /\ TreesFollowGroup'
         /\ Groups' = Groups
  BY DEF MembershipInv, NotifyingIsTrue, TreesFollowGroup, HasMembers, Groups, IsIgmp

\* A handler under the group's lock.
LEMMA HandleKeeps ==
  ASSUME MembershipInv, NEW r \in Routers, NEW event, NEW box \in Boxes,
         Handle(r, event, box), UNCHANGED <<protocol, tree>>
  PROVE  /\ group' \in [Routers -> Groups'] /\ NotifyingIsTrue' /\ TreesFollowGroup'
         /\ notifying' \in [Routers -> {"Nothing", "Add", "Remove"}]
         /\ arrived' \in Boxes /\ answer' \in 0..QueryResponseInterval
<1> DEFINE o == IF IsIgmp THEN Igmp!React(router[r].querier, group[r], event)
                ELSE Mld!React(router[r].querier, group[r], event)
<1>1. /\ router[r].querier \in BOOLEAN /\ group[r] \in Groups
      /\ Groups' = Groups /\ IsIgmp' = IsIgmp
  BY DEF MembershipInv, MembershipTypeOK, Groups, IsIgmp
<1>2. /\ o.group \in Groups /\ o.notify \in {"Nothing", "Add", "Remove"}
      /\ IsIgmp => /\ o.notify = "Nothing" => (Igmp!HasMembers(o.group) <=> HasMembers(r))
                   /\ o.notify = "Add" => Igmp!HasMembers(o.group)
                   /\ o.notify = "Remove" => ~Igmp!HasMembers(o.group)
      /\ ~IsIgmp => /\ o.notify = "Nothing" => (Mld!HasMembers(o.group) <=> HasMembers(r))
                    /\ o.notify = "Add" => Mld!HasMembers(o.group)
                    /\ o.notify = "Remove" => ~Mld!HasMembers(o.group)
  <2>1. CASE IsIgmp
    BY <1>1, <2>1, IgmpReacts DEF Groups, HasMembers
  <2>2. CASE ~IsIgmp
    BY <1>1, <2>2, MldReacts DEF Groups, HasMembers
  <2> QED
    BY <2>1, <2>2
<1>3. /\ notifying[r] = "Nothing"
      /\ group' = [group EXCEPT ![r] = o.group]
      /\ notifying' = [notifying EXCEPT ![r] = o.notify]
      /\ IF o.query THEN SendQuery(box, GroupQuery(r)) ELSE SendNothing(box)
  BY DEF Handle
<1> HIDE DEF o
<1>4. arrived' \in Boxes /\ answer' \in 0..QueryResponseInterval
  BY <1>3, OwnQueries, SendQueryType DEF SendNothing, MembershipInv, MembershipTypeOK
<1>5. /\ group' \in [Routers -> Groups']
      /\ notifying' \in [Routers -> {"Nothing", "Add", "Remove"}]
  BY <1>1, <1>2, <1>3 DEF MembershipInv, MembershipTypeOK
<1>6. \A q \in Routers : /\ q # r => /\ HasMembers(q)' = HasMembers(q)
                                     /\ notifying'[q] = notifying[q]
                         /\ q = r => notifying'[q] = o.notify
  BY <1>1, <1>3 DEF HasMembers, MembershipInv, MembershipTypeOK
<1>7. /\ o.notify = "Nothing" => (HasMembers(r)' <=> HasMembers(r))
      /\ o.notify = "Add" => HasMembers(r)'
      /\ o.notify = "Remove" => ~HasMembers(r)'
  <2>1. group'[r] = o.group
    BY <1>3 DEF MembershipInv
  <2> QED
    BY <1>1, <1>2, <2>1 DEF HasMembers
<1>8. NotifyingIsTrue'
  BY <1>6, <1>7 DEF NotifyingIsTrue, MembershipInv
<1>9. TreesFollowGroup'
  BY <1>3, <1>6, <1>7, MembershipAssumption DEF TreesFollowGroup, MembershipInv
<1> QED
  BY <1>4, <1>5, <1>8, <1>9


-----------------------------------------------------------------------------
(* The election *)

RouterStates ==
  [querier : BOOLEAN, general_query_timer : 0..QueryInterval,
   other_querier_present_timer : 0..Igmp!OtherQuerierPresentInterval]

LEMMA RouterTypes ==
  ASSUME NEW rs \in RouterStates, NEW src, NEW own
  PROVE  /\ Elected(rs, src, own) \in RouterStates
         /\ Igmp!GeneralQueryTimeout(rs) \in RouterStates
         /\ Mld!GeneralQueryTimeout(rs) \in RouterStates
         /\ Igmp!OtherQuerierPresentTimeout(rs) \in RouterStates
         /\ Mld!OtherQuerierPresentTimeout(rs) \in RouterStates
         /\ [rs EXCEPT !.general_query_timer = Less(@),
                       !.other_querier_present_timer = Less(@)] \in RouterStates
<1>1. /\ QueryInterval \in 0..QueryInterval
      /\ Igmp!OtherQuerierPresentInterval \in 0..Igmp!OtherQuerierPresentInterval
      /\ 0 \in 0..QueryInterval /\ 0 \in 0..Igmp!OtherQuerierPresentInterval
  BY Intervals
<1>2. /\ Igmp!GeneralQueryTimeout(rs) \in RouterStates
      /\ Mld!GeneralQueryTimeout(rs) \in RouterStates
      /\ Igmp!OtherQuerierPresentTimeout(rs) \in RouterStates
      /\ Mld!OtherQuerierPresentTimeout(rs) \in RouterStates
  BY <1>1 DEF RouterStates, Igmp!GeneralQueryTimeout, Mld!GeneralQueryTimeout,
              Igmp!OtherQuerierPresentTimeout, Mld!OtherQuerierPresentTimeout
<1>3. /\ Igmp!QuerierReceiveQuery(rs, src, own) \in RouterStates
      /\ Igmp!NonQuerierReceiveQuery(rs, src, own) \in RouterStates
      /\ Mld!QuerierReceiveQuery(rs, src, own) \in RouterStates
      /\ Mld!NonQuerierReceiveQuery(rs, src, own) \in RouterStates
  BY <1>1, Intervals
     DEF RouterStates, Igmp!QuerierReceiveQuery, Igmp!NonQuerierReceiveQuery,
         Mld!QuerierReceiveQuery, Mld!NonQuerierReceiveQuery
<1>4. \A x \in 0..QueryInterval : Less(x) \in 0..QueryInterval
  BY Intervals DEF Less
<1>5. \A x \in 0..Igmp!OtherQuerierPresentInterval :
        Less(x) \in 0..Igmp!OtherQuerierPresentInterval
  BY Intervals DEF Less
<1>6. [rs EXCEPT !.general_query_timer = Less(@),
                 !.other_querier_present_timer = Less(@)] \in RouterStates
  BY <1>4, <1>5 DEF RouterStates
<1> QED
  BY <1>2, <1>3, <1>6 DEF Elected

-----------------------------------------------------------------------------
(* The invariant *)

\* What a new RouterState and a new group are.
LEMMA NewTypes == NewGroup \in Groups /\ NewRouterState \in RouterStates
<1>1. /\ 0 \in 0..GroupInterval /\ 0 \in 0..LastMemberQueryInterval
      /\ 0 \in 0..Igmp!OtherQuerierPresentInterval /\ QueryInterval \in 0..QueryInterval
  BY Intervals
<1>2. Igmp!NewGroup \in GroupsWith(Igmp!States)
  BY <1>1 DEF GroupsWith, Igmp!NewGroup, Igmp!States
<1>3. Mld!NewGroup \in GroupsWith(Mld!States)
  BY <1>1 DEF GroupsWith, Mld!NewGroup, Mld!States
<1>4. NewRouterState \in RouterStates
  BY <1>1 DEF NewRouterState, RouterStates, Igmp!NewRouterState, Mld!NewRouterState
<1> QED
  BY <1>2, <1>3, <1>4 DEF NewGroup, Groups

LEMMA MembershipInvInit == MembershipInit => MembershipInv
<1> SUFFICES ASSUME MembershipInit PROVE MembershipInv
  OBVIOUS
<1>1. NewGroup \in Groups
  BY NewTypes
<1>2. group \in [Routers -> Groups]
  BY <1>1 DEF MembershipInit
<1>3. NewRouterState \in RouterStates
  BY NewTypes
<1>4. ASSUME NEW r \in Routers
      PROVE  SetToSeq({GeneralQuery(q) : q \in Routers \ {r}}) \in Seq(Packets)
  <2> DEFINE others == {GeneralQuery(q) : q \in Routers \ {r}}
  <2>1. IsFiniteSet(others)
    <3>1. IsFiniteSet(Routers \ {r})
      BY FS_RemoveElement, MembershipAssumption
    <3>2. [q \in Routers \ {r} |-> GeneralQuery(q)] \in Surjection(Routers \ {r}, others)
      BY DEF Surjection
    <3> QED
      BY <3>1, <3>2, FS_Surjection
  <2>2. Cardinality(others) \in Nat /\ ExistsBijection(1..Cardinality(others), others)
    BY <2>1, FS_CardinalityType
  <2>3. others \subseteq Packets
    BY OwnQueries DEF Packets
  <2> HIDE DEF others
  <2>4. \E f \in [1..Cardinality(others) -> others] : IsInjective(f)
    BY <2>2 DEF ExistsBijection, Bijection, Injection, IsInjective
  <2>5. SetToSeq(others) \in [1..Cardinality(others) -> others]
    BY <2>4 DEF SetToSeq
  <2>6. SetToSeq(others) \in Seq(others)
    BY <2>2, <2>5
  <2>7. SetToSeq(others) \in Seq(Packets)
    BY <2>3, <2>6
  <2> QED
    BY <2>7 DEF others
<1>5. arrived \in Boxes
  BY <1>4 DEF MembershipInit, Boxes
<1>6. answer \in 0..QueryResponseInterval
  BY Intervals DEF MembershipInit
<1>7. MembershipTypeOK
  BY <1>2, <1>3, <1>5, <1>6, GroupsAreTyped
     DEF MembershipInit, MembershipTypeOK, RouterStates, Boxes, Packets
<1>8. NotifyingIsTrue /\ TreesFollowGroup
  BY MembershipAssumption DEF MembershipInit, NotifyingIsTrue, TreesFollowGroup
<1> QED
  BY <1>2, <1>7, <1>8 DEF MembershipInv

\* What a step must establish, part by part.
LEMMA MembershipInvParts ==
  ASSUME protocol' = protocol, protocol \in Protocols, enabled' \subseteq Routers,
         router' \in [Routers -> RouterStates], group' \in [Routers -> Groups],
         notifying' \in [Routers -> {"Nothing", "Add", "Remove"}],
         tree' \in [TreeRouters -> {"Absent", "Unregistered", "NoInfo", "Include"}],
         expired' \in [Routers -> SUBSET (RouterTimeouts \cup GroupTimeouts)],
         arrived' \in Boxes, members' \in BOOLEAN, answer' \in 0..QueryResponseInterval,
         NotifyingIsTrue', TreesFollowGroup'
  PROVE  MembershipInv'
<1>1. Groups' = Groups /\ IsIgmp' = IsIgmp
  BY DEF Groups, IsIgmp
<1>2. \A r \in Routers : group'[r] \in Groups
  OBVIOUS
<1>3. MembershipTypeOK'
  BY <1>1, <1>2, GroupsAreTyped DEF MembershipTypeOK, RouterStates, Boxes, Packets
<1> QED
  BY <1>1, <1>3 DEF MembershipInv

\* A step that leaves the group and its trees alone keeps the types of the rest.
LEMMA LinkStep ==
  ASSUME MembershipInv, UNCHANGED <<protocol, group, notifying, tree>>,
         enabled' \subseteq Routers, router' \in [Routers -> RouterStates],
         expired' \in [Routers -> SUBSET (RouterTimeouts \cup GroupTimeouts)],
         arrived' \in Boxes, members' \in BOOLEAN, answer' \in 0..QueryResponseInterval
  PROVE  MembershipInv'
<1>1. /\ group' \in [Routers -> Groups] /\ NotifyingIsTrue' /\ TreesFollowGroup'
  BY SameMembership
<1> QED
  BY <1>1, MembershipInvParts DEF MembershipInv, MembershipTypeOK

\* What the invariant says of the state before a step.
LEMMA LinkTypes ==
  ASSUME MembershipInv
  PROVE  /\ protocol \in Protocols /\ enabled \subseteq Routers
         /\ router \in [Routers -> RouterStates] /\ group \in [Routers -> Groups]
         /\ notifying \in [Routers -> {"Nothing", "Add", "Remove"}]
         /\ tree \in [TreeRouters -> {"Absent", "Unregistered", "NoInfo", "Include"}]
         /\ expired \in [Routers -> SUBSET (RouterTimeouts \cup GroupTimeouts)]
         /\ arrived \in Boxes /\ members \in BOOLEAN /\ answer \in 0..QueryResponseInterval
  BY DEF MembershipInv, MembershipTypeOK, RouterStates, Boxes, Packets

\* A step that only registers or removes a tree.
LEMMA TreeStep ==
  ASSUME MembershipInv, NEW r \in TreeRouters, NEW x \in {"Absent", Registered(r)},
         tree' = [tree EXCEPT ![r] = x],
         UNCHANGED <<protocol, enabled, router, group, notifying, expired, arrived,
                     members, answer>>
  PROVE  MembershipInv'
<1>1. x \in {"Absent", "Unregistered", "NoInfo", "Include"}
  BY DEF Registered
<1>2. x \in {"NoInfo", "Include"} => (x = "Include" <=> HasMembers(r))
  BY DEF Registered
<1>3. NotifyingIsTrue' /\ \A q \in Routers : HasMembers(q)' = HasMembers(q)
  BY DEF MembershipInv, NotifyingIsTrue, HasMembers, IsIgmp
<1>4. TreesFollowGroup'
  BY <1>2, <1>3, LinkTypes, MembershipAssumption DEF MembershipInv, TreesFollowGroup
<1> QED
  BY <1>1, <1>3, <1>4, LinkTypes, MembershipInvParts

\* Every step keeps the invariant.
LEMMA MembershipInvNext == MembershipInv /\ [MembershipNext]_vars => MembershipInv'
<1> SUFFICES ASSUME MembershipInv, [MembershipNext]_vars
             PROVE  MembershipInv'
  OBVIOUS
<1> USE LinkTypes
<1>1. ASSUME NEW r \in Routers, arrived[r] # <<>>
      PROVE  Rest(r) \in Boxes
  <2>1. Tail(arrived[r]) \in Seq(Packets)
    BY <1>1 DEF Boxes
  <2> QED
    BY <2>1 DEF Rest, Boxes
<1>2. ASSUME NEW r \in Routers, ReceiveForGroup(r)
      PROVE  MembershipInv'
  <2>1. Rest(r) \in Boxes
    BY <1>1, <1>2 DEF ReceiveForGroup
  <2>2. Groups' = Groups
    BY <1>2 DEF ReceiveForGroup, Groups, IsIgmp
  <2> QED
    BY <1>2, <2>1, <2>2, HandleKeeps, MembershipInvParts DEF ReceiveForGroup
<1>3. ASSUME NEW r \in Routers, GroupTimeout(r)
      PROVE  MembershipInv'
  <2>1. Groups' = Groups
    BY <1>3 DEF GroupTimeout, Groups, IsIgmp
  <2>2. expired' \in [Routers -> SUBSET (RouterTimeouts \cup GroupTimeouts)]
    BY <1>3 DEF GroupTimeout
  <2> QED
    BY <1>3, <2>1, <2>2, HandleKeeps, MembershipInvParts DEF GroupTimeout
<1>4. ASSUME NEW r \in Routers, ReceiveQuery(r)
      PROVE  MembershipInv'
  <2>1. router' \in [Routers -> RouterStates]
    BY <1>4, RouterTypes DEF ReceiveQuery
  <2>2. [type |-> "SpecificQuery"] \in Packets
    BY DEF Packets, GroupPackets
  <2>3. arrived[r] \in Seq(Packets) /\ arrived[r] # <<>>
    BY <1>4 DEF ReceiveQuery, Boxes
  <2>4. [arrived[r] EXCEPT ![1] = [type |-> "SpecificQuery"]] \in Seq(Packets)
    BY <2>2, <2>3
  <2>5. [arrived EXCEPT ![r][1] = [type |-> "SpecificQuery"]] \in Boxes
    BY <2>4 DEF Boxes
  <2>6. arrived' \in Boxes /\ answer' = answer
    BY <1>1, <1>4, <2>3, <2>5 DEF ReceiveQuery, SendNothing
  <2> QED
    BY <1>4, <2>1, <2>6, LinkStep DEF ReceiveQuery
<1>5. ASSUME NEW r \in Routers, Notify(r)
      PROVE  MembershipInv'
  <2>1. /\ notifying' = [notifying EXCEPT ![r] = "Nothing"]
        /\ tree' = [q \in TreeRouters |->
             IF q # r \/ tree[q] \in {"Absent", "Unregistered"} THEN tree[q]
             ELSE IF notifying[r] = "Add" THEN "Include" ELSE "NoInfo"]
        /\ notifying[r] \in {"Add", "Remove"}
        /\ UNCHANGED <<protocol, enabled, router, group, expired, arrived, members, answer>>
    BY <1>5 DEF Notify
  <2>2. \A q \in Routers : HasMembers(q)' = HasMembers(q)
    BY <2>1 DEF HasMembers, IsIgmp
  <2>3. NotifyingIsTrue'
    BY <2>1, <2>2 DEF NotifyingIsTrue, MembershipInv
  <2>4. TreesFollowGroup'
    BY <2>1, <2>2, MembershipAssumption DEF TreesFollowGroup, NotifyingIsTrue, MembershipInv
  <2>5. tree' \in [TreeRouters -> {"Absent", "Unregistered", "NoInfo", "Include"}]
    BY <2>1
  <2> QED
    BY <2>1, <2>3, <2>4, <2>5, MembershipInvParts
<1>6. ASSUME NEW r \in Routers, GeneralQueryTimeout(r) \/ OtherQuerierPresentTimeout(r)
      PROVE  MembershipInv'
  <2>1. router' \in [Routers -> RouterStates]
    <3>1. \E rs \in RouterStates : router' = [router EXCEPT ![r] = rs]
      <4>1. router[r] \in RouterStates
        OBVIOUS
      <4>2. CASE GeneralQueryTimeout(r)
        BY <4>1, <4>2, RouterTypes DEF GeneralQueryTimeout
      <4>3. CASE OtherQuerierPresentTimeout(r)
        BY <4>1, <4>3, RouterTypes DEF OtherQuerierPresentTimeout
      <4> QED
        BY <1>6, <4>2, <4>3
    <3> QED
      BY <3>1
  <2>2. expired' \in [Routers -> SUBSET (RouterTimeouts \cup GroupTimeouts)]
    BY <1>6 DEF GeneralQueryTimeout, OtherQuerierPresentTimeout
  <2>3. arrived' \in Boxes /\ answer' \in 0..QueryResponseInterval
    BY <1>6, OwnQueries, SendQueryType
       DEF GeneralQueryTimeout, OtherQuerierPresentTimeout, SendNothing
  <2> QED
    BY <1>6, <2>1, <2>2, <2>3, LinkStep DEF GeneralQueryTimeout, OtherQuerierPresentTimeout
<1>7. CASE Answer \/ Join \/ LeaveSilently \/ \E last \in BOOLEAN : Leave(last)
  <2>1. Reports \subseteq {"V1Report", "V2Report", "Report", "Leave"}
    BY DEF Reports
  <2>2. arrived' \in Boxes
    BY <1>7, <2>1, SendByHostType DEF Answer, Join, LeaveSilently, Leave
  <2>3. members' \in BOOLEAN
    BY <1>7 DEF Answer, Join, LeaveSilently, Leave
  <2>4. answer' \in 0..QueryResponseInterval
    <3>1. 0 \in 0..QueryResponseInterval
      BY Intervals
    <3> QED
      BY <1>7, <3>1 DEF Answer, Join, LeaveSilently, Leave
  <2>5. UNCHANGED <<protocol, enabled, router, group, notifying, tree, expired>>
    BY <1>7 DEF Answer, Join, LeaveSilently, Leave
  <2> QED
    BY <2>2, <2>3, <2>4, <2>5, LinkStep
<1>8. ASSUME NEW r \in Routers, Start(r)
      PROVE  MembershipInv'
  <2>1. enabled' \subseteq Routers /\ router' \in [Routers -> RouterStates]
    BY <1>8, NewTypes DEF Start
  <2>2. arrived' \in Boxes /\ answer' \in 0..QueryResponseInterval
    BY <1>8, OwnQueries, SendQueryType DEF Start
  <2> QED
    BY <1>8, <2>1, <2>2, LinkStep DEF Start
<1>9. ASSUME NEW r \in Routers, Stop(r)
      PROVE  MembershipInv'
  <2>1. /\ enabled' = enabled \ {r}
        /\ router' = [router EXCEPT ![r] = NewRouterState]
        /\ group' = [group EXCEPT ![r] = NewGroup]
        /\ notifying' = [notifying EXCEPT ![r] = "Nothing"]
        /\ tree' = [q \in TreeRouters |->
             IF q = r /\ tree[q] # "Absent" THEN "Unregistered" ELSE tree[q]]
        /\ expired' = [expired EXCEPT ![r] = {}]
        /\ arrived' = [arrived EXCEPT ![r] = <<>>]
        /\ UNCHANGED <<protocol, members, answer>>
    BY <1>9 DEF Stop
  <2>2. NewGroup \in Groups /\ NewRouterState \in RouterStates
    BY NewTypes
  <2>3. \A q \in Routers \ {r} : HasMembers(q)' = HasMembers(q) /\ notifying'[q] = notifying[q]
    BY <2>1 DEF HasMembers, IsIgmp
  <2>4. NotifyingIsTrue' /\ TreesFollowGroup'
    BY <2>1, <2>3, MembershipAssumption DEF MembershipInv, NotifyingIsTrue, TreesFollowGroup
  <2>5. <<>> \in Seq(Packets)
    OBVIOUS
  <2>6. arrived' \in Boxes
    BY <2>1, <2>5 DEF Boxes
  <2>7. /\ router' \in [Routers -> RouterStates] /\ group' \in [Routers -> Groups]
        /\ notifying' \in [Routers -> {"Nothing", "Add", "Remove"}]
        /\ expired' \in [Routers -> SUBSET (RouterTimeouts \cup GroupTimeouts)]
        /\ tree' \in [TreeRouters -> {"Absent", "Unregistered", "NoInfo", "Include"}]
    BY <2>1, <2>2
  <2> QED
    BY <2>1, <2>4, <2>6, <2>7, MembershipInvParts
<1>10. ASSUME NEW r \in TreeRouters, AddTree(r) \/ RemoveTree(r) \/ RecheckMembership(r)
       PROVE  MembershipInv'
  BY <1>10, TreeStep DEF AddTree, RemoveTree, RecheckMembership
<1>11. CASE Tick
  <2>1. /\ \A r \in Routers : notifying[r] = "Nothing"
        /\ group' = [r \in Routers |->
             [group[r] EXCEPT !.timer = Less(@), !.v1_host_timer = Less(@),
                              !.retransmit_timer = Less(@)]]
        /\ UNCHANGED <<protocol, enabled, notifying, tree, arrived, members>>
        /\ answer' = Less(answer)
    BY <1>11 DEF Tick
  <2>2. /\ \A x \in 0..GroupInterval : Less(x) \in 0..GroupInterval
        /\ \A x \in 0..LastMemberQueryInterval : Less(x) \in 0..LastMemberQueryInterval
        /\ \A x \in 0..QueryResponseInterval : Less(x) \in 0..QueryResponseInterval
    BY Intervals DEF Less
  <2>3. ASSUME NEW r \in Routers
        PROVE  group'[r] \in Groups /\ group'[r].state = group[r].state
    <3>1. group[r] \in Groups
      OBVIOUS
    <3> QED
      BY <2>1, <2>2, <3>1 DEF Groups, GroupsWith
  <2>4. \A r \in Routers : HasMembers(r)' = HasMembers(r)
    BY <2>1, <2>3 DEF HasMembers, Igmp!HasMembers, Mld!HasMembers, IsIgmp
  <2>5. NotifyingIsTrue' /\ TreesFollowGroup'
    BY <2>1, <2>4, MembershipAssumption DEF MembershipInv, NotifyingIsTrue, TreesFollowGroup
  <2>6. router' \in [Routers -> RouterStates]
    <3>1. router' = [r \in Routers |-> IF r \in enabled
            THEN [router[r] EXCEPT !.general_query_timer = Less(@),
                                   !.other_querier_present_timer = Less(@)]
            ELSE router[r]]
      BY <1>11 DEF Tick
    <3> QED
      BY <3>1, RouterTypes
  <2>7. expired' \in [Routers -> SUBSET (RouterTimeouts \cup GroupTimeouts)]
    BY <1>11 DEF Tick, RunsOut
  <2>8. group' \in [Routers -> Groups]
    BY <2>1, <2>3
  <2> QED
    BY <2>1, <2>2, <2>5, <2>6, <2>7, <2>8, MembershipInvParts
<1>12. CASE UNCHANGED vars
  BY <1>12, LinkStep DEF vars
<1> QED
  BY <1>2, <1>3, <1>4, <1>5, <1>6, <1>7, <1>8, <1>9, <1>10, <1>11, <1>12, MembershipAssumption
     DEF MembershipNext, Progress, RouterStep, Environment

LEMMA MembershipInvIsInvariant == MembershipSpec => []MembershipInv
<1>1. MembershipInit => MembershipInv
  BY MembershipInvInit
<1>2. MembershipInv /\ [MembershipNext]_vars => MembershipInv'
  BY MembershipInvNext
<1> QED
  BY <1>1, <1>2, PTL DEF MembershipSpec

\* Whatever packets are lost and in which order callbacks find the group's lock,
\* the states of the routers, the groups and the trees are those the code has.
THEOREM MembershipTypeCorrect == MembershipSpec => []MembershipTypeOK
<1>1. MembershipInv => MembershipTypeOK
  BY DEF MembershipInv
<1> QED
  BY <1>1, MembershipInvIsInvariant, PTL

\* Between two handlers a registered tree knows what the group knows, whenever
\* it registered (add_multicast_routing_entry, notify_routing_add and _remove).
THEOREM TreesFollowTheirGroup == MembershipSpec => []TreesFollowGroup
<1>1. MembershipInv => TreesFollowGroup
  BY DEF MembershipInv
<1> QED
  BY <1>1, MembershipInvIsInvariant, PTL
=============================================================================
