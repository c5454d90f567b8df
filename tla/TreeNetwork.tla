---------------------------- MODULE TreeNetwork ----------------------------
(***************************************************************************)
(* One (Source, Group) tree over the routers of a network: the table of    *)
(* trees of each router (Kernel.py) with at most this one tree in it, what *)
(* each router knows of its neighbors (the tree state of Neighbor.py), the *)
(* sequenced messages in flight between them, and the threads that remove  *)
(* trees and report changes of the unicast routing table.                  *)
(*                                                                         *)
(* Synchronization and retransmission are those of NeighborSync and        *)
(* ReliableTransmission, by their promise: a Synced neighbor knows the     *)
(* snapshot, and of the messages after it the newest wins.  A tree's       *)
(* messages from one router to another are a sequence; receiving one drops *)
(* it and the older ones, so any message may be lost but the last.         *)
(*                                                                         *)
(* A definition X_Y, next to X, is X with the fault Y.                     *)
(***************************************************************************)
EXTENDS TreeEntry

CONSTANTS
  Routes,       \* Routes[n]: the routes to the source n may have
  HostLinks,    \* links with hosts that may be members of the group
  Removable,    \* Removable[n]: links of n whose interface may be removed
  Events,       \* the kinds of events that happen in this instance
  MaxEvents,    \* bound on the events, together
  LongLifetime, \* a source expires only when the network is quiet
  MaxInFlight   \* bound on the messages of a channel: older ones are lost

\* A route has a cost and an interface, if any; the one of a router in the source's
\* subnet leads there.
ASSUME RoutesAssumption ==
  /\ Routes \in [Routers -> SUBSET [rpc : Nat, direct : BOOLEAN, rif : Links \cup {None}]]
  /\ \A n \in Routers : \A r \in Routes[n] : r.direct => r.rif \in SourceLinks \cup {None}

ASSUME EventsAssumption ==
  /\ Events \subseteq {"fail", "reset", "interface", "route", "member", "source"}
  /\ MaxEvents \in Nat /\ MaxInFlight \in Nat \ {0} /\ LongLifetime \in BOOLEAN
  /\ HostLinks \subseteq Links
  /\ \A n \in Routers : Removable[n] \subseteq Links

VARIABLES
  entry,     \* entry[n]: n's entry for the tree, NoEntry when it has none
  view,      \* view[p]: what router p.at stores about its neighbor p.of
  adj,       \* adj[p]: the state of that Neighbor object
  chan,      \* chan[p]: messages from p.of that p.at has not received
  route,     \* route[n]: the route of n to the source
  pending,   \* routers whose unicast callback has not run yet
  hosts,     \* links on which a host is a member
  members,   \* members[n]: links on which n knows of a member
  up,        \* up[n]: links on which n runs the protocol
  sending,   \* the source sends
  removing,  \* removing[n]: threads of n that will remove the tree
  events     \* number of events so far

vars == <<entry, view, adj, chan, route, pending, hosts, members, up, sending, removing, events>>

-----------------------------------------------------------------------------
(* State *)

AttachedTo(n) == {Vifs[n][k] : k \in DOMAIN Vifs[n]}

\* Ordered pairs of routers that share a link.
Pairs == {p \in [link : Links, at : Routers, of : Routers] :
            p.at # p.of /\ p.link \in AttachedTo(p.at) \cap AttachedTo(p.of)}
Pair(l, n, m) == [link |-> l, at |-> n, of |-> m]
Mirror(p) == Pair(p.link, p.of, p.at)
NeighborsOf == [n \in Routers |-> [l \in Links |-> {p \in Pairs : p.link = l /\ p.at = n}]]

NoEntry == [router |-> None]
HasEntry(n) == entry[n] # NoEntry

\* What a Neighbor object stores about the tree (tree_metric_state and
\* tree_interest_state).
NoInfo == [kind |-> "NoInfo", metric |-> 0]
Views == [kind : {"NoInfo", "Interest", "NoInterest"}, metric : {0}]
           \cup [kind : {"IamUpstream"}, metric : Nat]

\* Types, and the shape of an entry: an interface for every vif, of which the
\* inbound one is the root interface and the others are not.
TreeTypeOK ==
  /\ \A n \in Routers : HasEntry(n) =>
       /\ entry[n].out = <<>> /\ entry[n].removals = 0
       /\ entry[n] \in Entry
       /\ \A l \in Links : /\ Present(entry[n], l) <=> l \in up[n]
                           /\ entry[n].ifs[l].role = "Root" <=> l = entry[n].inbound
  /\ view \in [Pairs -> Views]
  /\ adj \in [Pairs -> {"Down", "Syncing", "Synced"}]
  /\ \A p \in Pairs : chan[p] \in Seq(Messages) /\ Len(chan[p]) <= MaxInFlight
  /\ \A n \in Routers : route[n] \in Routes[n] /\ members[n] \subseteq up[n]
                        /\ up[n] \subseteq AttachedTo(n) /\ removing[n] \in Nat
  /\ hosts \subseteq HostLinks /\ pending \subseteq Routers /\ sending \in BOOLEAN /\ events \in 0 .. MaxEvents

\* Every neighbor is Synced, no tree exists yet; the source may send.
Init ==
  /\ entry = [n \in Routers |-> NoEntry]
  /\ view = [p \in Pairs |-> NoInfo]
  /\ adj = [p \in Pairs |-> "Synced"]
  /\ chan = [p \in Pairs |-> <<>>]
  /\ route \in {r \in [Routers -> UNION {Routes[n] : n \in Routers}] :
                  \A n \in Routers : r[n] \in Routes[n]}
  /\ pending = {}
  /\ hosts = HostLinks
  /\ members = [n \in Routers |-> HostLinks \cap AttachedTo(n)]
  /\ up = [n \in Routers |-> AttachedTo(n)]
  /\ sending = TRUE
  /\ removing = [n \in Routers |-> 0]
  /\ events = 0

Event(kind) == kind \in Events /\ events < MaxEvents /\ events' = events + 1

\* get_unicast_info: the interface of a route only counts while it is a vif.
UnicastInfo(n, r, vifs) ==
  [rpc |-> r.rpc, direct |-> r.direct, rif |-> IF r.rif \in vifs THEN r.rif ELSE None]
Route(n) == UnicastInfo(n, route[n], up[n])

-----------------------------------------------------------------------------
(* What the neighbors of a link say: get_tree_state *)

Metric(p, vw) == [ip |-> p.of, metric |-> vw[p].metric]

\* The Neighbor objects of n on link l that are read: only Synced ones.
Read(n, l, ad) == {p \in NeighborsOf[n][l] : ad[p] = "Synced"}

UpstreamState(n, l, vw, ad) ==
  LET ups == {Metric(p, vw) : p \in {q \in Read(n, l, ad) : vw[q].kind = "IamUpstream"}}
  IN  IF ups = {} THEN NoUpstream
      ELSE CHOOSE u \in ups : \A w \in ups \ {u} : IsBetterThan(u, w)

\* A neighbor that said nothing counts as interested (INITIAL_FLOOD_ENABLED).
InterestState(n, l, vw, ad) == \E p \in Read(n, l, ad) : vw[p].kind \in {"Interest", "NoInfo"}

\* remove_tree_state of the interfaces in ls: the interest is forgotten.
Forget(vw, n, ls) ==
  [p \in Pairs |-> IF p.at = n /\ p.link \in ls /\ vw[p].kind # "IamUpstream"
                   THEN NoInfo ELSE vw[p]]

\* create_entry
NewEntry(n, vw, ad) ==
  CreateEntry(n, Route(n), [l \in Links |-> UpstreamState(n, l, vw, ad)],
              [l \in Links |-> InterestState(n, l, vw, ad)], members[n], up[n])

-----------------------------------------------------------------------------
(* The end of a call: n has the entry e, and its messages leave *)

Clean(e) == IF e = NoEntry THEN e ELSE [e EXCEPT !.out = <<>>, !.removals = 0]
Out(e) == IF e = NoEntry THEN <<>> ELSE e.out

\* The messages of ms for the neighbor p.at of the sender.
Addressed(ms, p) ==
  FoldLeft(LAMBDA s, m : IF m.link = p.link /\ m.to \in {None, p.at} THEN Append(s, m) ELSE s,
           <<>>, ms)

Newest(ms) == SubSeq(ms, IF Len(ms) > MaxInFlight THEN Len(ms) - MaxInFlight + 1 ELSE 1, Len(ms))

Deliver(ch, ad, n, ms) ==
  [p \in Pairs |-> IF p.of = n /\ ad[p] # "Down" /\ ad[Mirror(p)] # "Down"
                   THEN Newest(ch[p] \o Addressed(ms, p)) ELSE ch[p]]

\* n has entry e; ch and ad are the messages in flight and the neighbors.
Became(n, e, ch, ad) ==
  /\ entry' = [entry EXCEPT ![n] = Clean(e)]
  /\ chan' = Deliver(ch, ad, n, Out(e))
  /\ adj' = ad
  /\ removing' = [removing EXCEPT ![n] = @ + IF e = NoEntry THEN 0 ELSE e.removals]

\* recv_upstream_msg and recheck_all_trees on link l, with the views vw.
Rechecked(n, l, vw, ad, fresh) ==
  LET u == UpstreamState(n, l, vw, ad)
  IN  IF HasEntry(n)
      THEN CheckInterfaceState(entry[n], l, u, InterestState(n, l, vw, ad), fresh)
      ELSE IF u # NoUpstream THEN NewEntry(n, vw, ad) ELSE NoEntry

-----------------------------------------------------------------------------
(* Messages *)

\* receive_i_am_upstream, receive_i_am_no_longer_upstream, receive_interest
\* and receive_no_interest.  Without an entry, what the message said about
\* interest is forgotten again.
StoredView(m) ==
  IF m.kind = "IamNoLongerUpstream" THEN NoInfo ELSE [kind |-> m.kind, metric |-> m.metric]

Receive(p, k) ==
  LET m    == chan[p][k]
      n    == p.at
      vw   == [view EXCEPT ![p] = StoredView(m)]
      left == [chan EXCEPT ![p] = SubSeq(@, k + 1, Len(@))]
      interest == m.kind \in {"Interest", "NoInterest"} /\ view[p].kind # "IamUpstream"
      e    == IF ~interest THEN Rechecked(n, p.link, vw, adj, p.of)
              ELSE IF ~HasEntry(n) THEN NoEntry
              ELSE CheckInterestState(entry[n], p.link, InterestState(n, p.link, vw, adj))
  IN  /\ k \in DOMAIN chan[p]
      /\ adj[p] # "Down"
      /\ view' = IF e = NoEntry THEN Forget(vw, n, {p.link}) ELSE vw
      /\ Became(n, e, left, adj)
      /\ UNCHANGED <<route, pending, hosts, members, up, sending, events>>

-----------------------------------------------------------------------------
(* Neighbors *)

\* get_interface_sync_state: n's part of a snapshot on link l.
SyncState(n, l) ==
  IF HasEntry(n) /\ l \notin SourceLinks
       /\ entry[n].ifs[l].role = "NonRoot" /\ entry[n].ifs[l].tree = "Active"
  THEN [kind |-> "IamUpstream", metric |-> entry[n].ifs[l].rpc]
  ELSE NoInfo

BothUp(p) == p.link \in up[p.at] \cap up[p.of]

\* A new synchronization: both routers take their snapshots, which the other
\* one installs; what was in flight is older than the snapshots.
Resync(p) ==
  /\ BothUp(p)
  /\ adj' = [adj EXCEPT ![p] = "Syncing", ![Mirror(p)] = "Syncing"]
  /\ view' = [view EXCEPT ![p] = SyncState(p.of, p.link),
                          ![Mirror(p)] = SyncState(p.at, p.link)]
  /\ chan' = [chan EXCEPT ![p] = <<>>, ![Mirror(p)] = <<>>]
  /\ UNCHANGED <<entry, route, pending, hosts, members, up, sending, removing>>

\* One of the two does not know the other: its next Hello starts it.
Discover(p) ==
  /\ "Down" \in {adj[p], adj[Mirror(p)]}
  /\ Resync(p)
  /\ UNCHANGED events

\* An adjacency reset: the interface of one of them took a new BootTime.
AdjacencyReset(p) ==
  /\ "Down" \notin {adj[p], adj[Mirror(p)]}
  /\ Resync(p)
  /\ Event("reset")

\* set_sync_state(Synced)
Synced(p) ==
  LET ad == [adj EXCEPT ![p] = "Synced"]
  IN  /\ adj[p] = "Syncing"
      /\ adj[Mirror(p)] # "Down"
      /\ Became(p.at, Rechecked(p.at, p.link, view, ad, p.of), chan, ad)
      /\ UNCHANGED <<view, route, pending, hosts, members, up, sending, events>>

\* remove_neighbor: the liveness timer expired, or the neighbor left messages
\* unacknowledged, or it said good bye.
RemoveNeighbor(p) ==
  LET ad == [adj EXCEPT ![p] = "Down"]
      vw == [view EXCEPT ![p] = NoInfo]
  IN  /\ adj[p] # "Down"
      /\ view' = vw
      /\ Became(p.at, Rechecked(p.at, p.link, vw, ad, None),
                [chan EXCEPT ![p] = <<>>, ![Mirror(p)] = <<>>], ad)
      /\ UNCHANGED <<route, pending, hosts, members, up, sending>>

NeighborFails(p) == RemoveNeighbor(p) /\ BothUp(p) /\ Event("fail")
NeighborGone(p) == RemoveNeighbor(p) /\ ~BothUp(p) /\ UNCHANGED events

-----------------------------------------------------------------------------
(* The source and the hosts *)

\* Packets make n do something while it has no entry, or one that waits.
DataDue(n) ==
  /\ sending /\ Route(n).direct /\ Route(n).rif # None
  /\ HasEntry(n) => /\ entry[n].originator /\ entry[n].inbound # None
                     /\ entry[n].tree = "Unsure"

\* A packet of the source reaches n, directly connected to it: the kernel has
\* no route and asks (igmpmsg_nocache_handler), or the root interface of the
\* originator receives it (recv_data_msg).
DataArrives(n) ==
  LET e == IF ~HasEntry(n) THEN NewEntry(n, view, adj)
           ELSE SourceActive(entry[n], TRUE)
  IN  /\ DataDue(n)
      /\ Became(n, e, chan, adj)
      /\ UNCHANGED <<view, route, pending, hosts, members, up, sending, events>>

SourceChanges == Event("source") /\ sending' = ~sending
                 /\ UNCHANGED <<entry, view, adj, chan, route, pending, hosts, members, up, removing>>

\* Nothing about the tree is in flight, and no thread will remove it.
Quiet == (\A p \in Pairs : chan[p] = <<>>) /\ (\A n \in Routers : removing[n] = 0)

ExpiryDue(n) ==
  /\ LongLifetime => Quiet
  /\ HasEntry(n) /\ ~sending /\ entry[n].originator /\ entry[n].sat /\ entry[n].inbound # None

\* source_active_timeout, 210 s (SOURCE_LIFETIME) after the last packet.
SourceExpires(n) ==
  /\ ExpiryDue(n)
  /\ Became(n, SourceActive(entry[n], FALSE), chan, adj)
  /\ UNCHANGED <<view, route, pending, hosts, members, up, sending, events>>

MembersChange(l) ==
  /\ Event("member")
  /\ hosts' = IF l \in hosts THEN hosts \ {l} ELSE hosts \cup {l}
  /\ UNCHANGED <<entry, view, adj, chan, route, pending, members, up, sending, removing>>

\* What n knows of the members of link l is not true any more.
MembershipDue(n, l) == l \in up[n] /\ (l \in hosts) # (l \in members[n])

\* IGMP or MLD at n hears of it and tells the tree.
MembershipChange(n, l) ==
  /\ MembershipDue(n, l)
  /\ members' = [members EXCEPT ![n] = IF l \in hosts THEN @ \cup {l} ELSE @ \ {l}]
  /\ Became(n, IF HasEntry(n) THEN NotifyMembership(entry[n], l, l \in hosts) ELSE NoEntry,
            chan, adj)
  /\ UNCHANGED <<view, route, pending, hosts, up, sending, events>>

HoldTimeout(n, l) ==
  /\ HasEntry(n) /\ entry[n].ifs[l].hold
  /\ Became(n, HoldForwardingTimeout(entry[n], l), chan, adj)
  /\ UNCHANGED <<view, route, pending, hosts, members, up, sending, events>>

-----------------------------------------------------------------------------
(* Unicast routes, interfaces, the thread that removes a tree *)

\* The unicast routing table changes; the callback that tells the kernel runs
\* later, and until then whoever asks gets the new route.
UnicastChange(n, r) ==
  /\ r # route[n]
  /\ Event("route")
  /\ route' = [route EXCEPT ![n] = r]
  /\ pending' = pending \cup {n}
  /\ UNCHANGED <<entry, view, adj, chan, hosts, members, up, sending, removing>>

NotifyUnicastChanges(n) ==
  /\ n \in pending
  /\ pending' = pending \ {n}
  /\ Became(n, IF HasEntry(n) THEN NetworkUpdate(entry[n], Route(n)) ELSE NoEntry, chan, adj)
  /\ UNCHANGED <<view, route, hosts, members, up, sending, events>>

\* remove_interface, then remove_virtual_interface
InterfaceDown(n, l) ==
  LET mine == NeighborsOf[n][l]
      ad   == [p \in Pairs |-> IF p \in mine THEN "Down" ELSE adj[p]]
  IN  /\ l \in up[n] \cap Removable[n]
      /\ Event("interface")
      /\ up' = [up EXCEPT ![n] = @ \ {l}]
      /\ members' = [members EXCEPT ![n] = @ \ {l}]
      /\ view' = [p \in Pairs |-> IF p \in mine THEN NoInfo ELSE view[p]]
      /\ Became(n, IF HasEntry(n) THEN RemoveInterface(entry[n], l) ELSE NoEntry,
                [p \in Pairs |-> IF p \in mine \/ Mirror(p) \in mine THEN <<>> ELSE chan[p]], ad)
      /\ UNCHANGED <<route, pending, hosts, sending>>

\* create_hpim_interface, with create_virtual_interface and recheck_all_trees
\* (no neighbor is known yet); nobody is a member yet.
InterfaceUp(n, l) ==
  /\ l \in AttachedTo(n) \ up[n]
  /\ \A p \in Pairs : p.link = l /\ n \in {p.at, p.of} => adj[p] = "Down"
  /\ up' = [up EXCEPT ![n] = @ \cup {l}]
  /\ Became(n, IF HasEntry(n)
               THEN CheckInterfaceState(
                      NewInterface(entry[n], l, UnicastInfo(n, route[n], up'[n]), FALSE),
                      l, NoUpstream, FALSE, None)
               ELSE NoEntry, chan, adj)
  /\ UNCHANGED <<view, route, pending, hosts, members, sending, events>>

\* _remove_multicast_route: whatever entry there is now, is removed.
RemoveTree_NotRecreated(n) ==
  /\ removing[n] > 0
  /\ entry' = [entry EXCEPT ![n] = NoEntry]
  /\ removing' = [removing EXCEPT ![n] = @ - 1]
  /\ UNCHANGED <<view, adj, chan, route, pending, hosts, members, up, sending, events>>
RemoveTree(n) ==
  LET known == \E p \in Pairs : p.at = n /\ adj[p] = "Synced" /\ view[p].kind = "IamUpstream"
      e     == IF HasEntry(n) /\ known THEN NewEntry(n, view, adj) ELSE NoEntry
  IN  /\ removing[n] > 0
      /\ view' = IF HasEntry(n) /\ ~known THEN Forget(view, n, Links) ELSE view
      /\ entry' = [entry EXCEPT ![n] = Clean(e)]
      /\ chan' = Deliver(chan, adj, n, Out(e))
      /\ removing' = [removing EXCEPT ![n] = @ - 1 + IF e = NoEntry THEN 0 ELSE e.removals]
      /\ UNCHANGED <<adj, route, pending, hosts, members, up, sending, events>>

-----------------------------------------------------------------------------
(* Specification *)

\* What the routers do by themselves.
Step ==
  \/ \E p \in Pairs : (\E k \in DOMAIN chan[p] : Receive(p, k))
                      \/ Discover(p) \/ Synced(p) \/ NeighborGone(p)
  \/ \E n \in Routers : \/ DataArrives(n) \/ SourceExpires(n)
                        \/ NotifyUnicastChanges(n) \/ RemoveTree(n)
                        \/ \E l \in Links : HoldTimeout(n, l) \/ InterfaceUp(n, l)
                                           \/ MembershipChange(n, l)

Environment ==
  \/ \E p \in Pairs : AdjacencyReset(p) \/ NeighborFails(p)
  \/ SourceChanges \/ \E l \in HostLinks : MembersChange(l)
  \/ \E n \in Routers : \/ \E r \in Routes[n] : UnicastChange(n, r)
                        \/ \E l \in Links : InterfaceDown(n, l)

Next == Step \/ Environment

Spec == Init /\ [][Next]_vars

\* Something of the routers is due: ENABLED <<Step>>_vars, as a predicate that
\* TLC evaluates quickly.
StepDue ==
  \/ \E p \in Pairs :
       \/ adj[p] # "Down" /\ (chan[p] # <<>> \/ ~BothUp(p))
       \/ adj[p] = "Syncing" /\ adj[Mirror(p)] # "Down"
       \/ adj[p] = "Down" /\ BothUp(p)
  \/ pending # {}
  \/ \E n \in Routers :
       \/ DataDue(n) \/ ExpiryDue(n) \/ removing[n] > 0
       \/ \E l \in Links : MembershipDue(n, l) \/ (HasEntry(n) /\ entry[n].ifs[l].hold)
       \/ \E l \in AttachedTo(n) \ up[n] :
            \A p \in Pairs : p.link = l /\ n \in {p.at, p.of} => adj[p] = "Down"

\* Weak fairness of Step and of every channel: messages, timers and threads get
\* their turn.
Received(p) == Len(chan'[p]) < Len(chan[p])
FairSpec ==
  /\ Spec
  /\ []<>~StepDue \/ []<><<Step>>_vars
  /\ \A p \in Pairs : []<>(chan[p] = <<>>) \/ []<><<Received(p)>>_vars

-----------------------------------------------------------------------------
(* Properties.  Most are about the network at rest: nothing is in flight   *)
(* and no thread or timer of it is due.                                    *)

AtRest ==
  /\ \A p \in Pairs : chan[p] = <<>> /\ adj[p] = IF BothUp(p) THEN "Synced" ELSE "Down"
  /\ pending = {}
  /\ \A n \in Routers : /\ removing[n] = 0 /\ up[n] = AttachedTo(n)
                        /\ ~DataDue(n) /\ ~ExpiryDue(n)
                        /\ \A l \in Links : ~MembershipDue(n, l)
                        /\ HasEntry(n) => \A l \in Links : ~entry[n].ifs[l].hold

Forwards(n, l) == HasEntry(n) /\ Forwarding(entry[n], l)
IsActive(n) == HasEntry(n) /\ entry[n].tree = "Active"

\* What a router stores of a neighbor that is, or that it believes to be,
\* UPSTREAM is what that neighbor would put in a snapshot now, RPC included:
\* every change of role, RPC and tree state was announced (tree_if_*.py).
ViewsAreTrue ==
  AtRest => \A p \in Pairs :
    "IamUpstream" \in {view[p].kind, SyncState(p.of, p.link).kind}
      => view[p] = SyncState(p.of, p.link)

\* The best UPSTREAM neighbor and the interest that an entry remembers for each
\* of its interfaces are those its neighbors state now, and a router whose
\* neighbor is UPSTREAM has an entry (get_tree_state, check_interface_state).
StateFollowsViews ==
  AtRest => \A n \in Routers : \A l \in AttachedTo(n) :
    IF HasEntry(n) THEN /\ entry[n].ups[l] = UpstreamState(n, l, view, adj)
                        /\ entry[n].int[l] = InterestState(n, l, view, adj)
    ELSE UpstreamState(n, l, view, adj) = NoUpstream

\* The AssertWinner of the root link of a router knows its interest: whether it
\* has somebody to forward to (evaluate_in_tree_change).
InterestIsTrue ==
  AtRest => \A n \in Routers : HasEntry(n) /\ ~entry[n].originator /\ entry[n].inbound # None =>
    LET l == entry[n].inbound
        u == entry[n].ups[l].ip
    IN  u # None => view[Pair(l, u, n)].kind = IF IsInTree(entry[n]) THEN "Interest" ELSE "NoInterest"

\* The router that forwards to a link from an Active tree is the only one that
\* forwards to it: no duplicates (AssertWinner election).  Routers with an Unsure
\* tree, whose routes lead to no UPSTREAM router, get no packets to forward.
OneForwarder ==
  AtRest => \A l \in Links : \A m, n \in Routers :
    m # n /\ Forwards(m, l) /\ Forwards(n, l) => ~IsActive(m)

\* Who needs the data gets it: the router that an interested router takes for
\* the AssertWinner forwards to their link.
InterestedAreServed ==
  AtRest => \A n \in Routers : IsActive(n) /\ ~entry[n].originator /\ IsInTree(entry[n]) =>
    Forwards(entry[n].ups[entry[n].inbound].ip, entry[n].inbound)

\* A link with a member on it, away from the source, has a forwarder when one
\* of its routers has the tree Active and reaches the source by another link.
MembersAreServed ==
  AtRest => \A n \in Routers : \A l \in members[n] \ SourceLinks :
    IsActive(n) /\ entry[n].ifs[l].role = "NonRoot" => \E m \in Routers : Forwards(m, l)

\* A tree lives only as long as an originator keeps it Active: no router keeps
\* the tree for ever because its neighbors do (check_tree_state).
NoOrphanTree ==
  AtRest => \A n \in Routers : HasEntry(n) =>
    \E m \in Routers : IsActive(m) /\ entry[m].originator /\ entry[m].sat

\* The multicast route in the kernel is the one the entry calls for: the root
\* interface, and the interfaces that forward (change, set_multicast_route).
RouteIsCurrent ==
  AtRest => \A n \in Routers : HasEntry(n) /\ entry[n].inbound # None =>
    entry[n].mfc = [iif |-> entry[n].inbound, oil |-> OutboundInterfaces(entry[n])]

\* The entry follows the unicast routing table, whichever thread created or
\* updated it (create_entry, network_update).
EntryFollowsRoute ==
  AtRest => \A n \in Routers : HasEntry(n) =>
    entry[n].inbound = Route(n).rif /\ entry[n].rpc = Route(n).rpc

\* The route of n leads to the source over neighbors that are nearer to it.
WellRouted[n \in Routers] ==
  LET r == Route(n)
  IN  r.rif # None /\ (r.direct \/ \E p \in NeighborsOf[n][r.rif] :
                         /\ Route(p.of).rif \notin {None, r.rif}
                         /\ Route(p.of).rpc < r.rpc /\ WellRouted[p.of])

\* As long as the source sends, the tree forms at every router that has a route
\* to it (CorrectnessTests.pdf, Tests 1, 3 and 7).
TreeForms == <>[](sending) => <>[](\A n \in Routers : WellRouted[n] => IsActive(n))

\* When the source stops the tree disappears from every router, loops of
\* routers that each hear of it from another included (Tests 5 and 8).
TreeDies == <>[](~sending) => <>[](\A n \in Routers : ~HasEntry(n))
=============================================================================
