----------------------------- MODULE TreeEntry -----------------------------
(***************************************************************************)
(* One tree at one router: KernelEntry.py with the interfaces it keeps     *)
(* (tree_if_root.py, tree_if_root_originator.py, tree_if_non_root.py), the *)
(* state of the tree (tree_state.py) and the AssertWinner election.        *)
(*                                                                         *)
(* An entry is a record, and every method of the code is an operator that  *)
(* returns the entry after the call.  The messages a call sends collect in *)
(* the field out, in the order of their sequence numbers; the threads it   *)
(* starts to remove the tree are counted in the field removals.            *)
(*                                                                         *)
(* A definition X_Y, next to X, is X with the fault Y.                     *)
(***************************************************************************)
EXTENDS Integers, FiniteSets, SequencesExt

CONSTANTS
  Routers,          \* a router is its IP address
  Links,            \* the links; a link is also the vif index of its routers
  Vifs,             \* Vifs[n]: the links of n, in the order of interface_state
  SourceLinks,      \* the links of the subnet of the source
  HoldForwarding    \* AL_HOLD_FORWARDING_STATE_ENABLED

None == 0   \* no router, no link

ASSUME TopologyAssumption ==
  /\ Routers \subseteq Nat \ {None} /\ IsFiniteSet(Routers) /\ Links \subseteq Nat \ {None}
  /\ SourceLinks \subseteq Links /\ HoldForwarding \in BOOLEAN
  /\ Vifs \in [Routers -> Seq(Links)]

\* An AssertMetric: who is UPSTREAM and with which RPC.  The administrative
\* distance and the cost of a route are one number, in their order.
NoUpstream == [ip |-> None, metric |-> 0]
AssertMetrics == [ip : Routers, metric : Nat] \cup {NoUpstream}

IsBetterThan(a, b) ==
  a.metric < b.metric \/ (a.metric = b.metric /\ a.ip > b.ip)

TreeStates == {"Active", "Unsure", "Inactive"}

Interface ==
  [role : {"Absent", "Root", "NonRoot"}, tree : TreeStates,
   winner : BOOLEAN, hold : BOOLEAN, rpc : Nat]

NoInterface ==
  [role |-> "Absent", tree |-> "Inactive", winner |-> FALSE, hold |-> FALSE, rpc |-> 0]

\* Only the message of an UPSTREAM router has a metric.
Messages ==
  [kind : {"IamUpstream"}, link : Links, to : Routers \cup {None}, metric : Nat]
    \cup [kind : {"IamNoLongerUpstream", "Interest", "NoInterest"}, link : Links,
          to : Routers \cup {None}, metric : {0}]

Entry ==
  [router : Routers, originator : BOOLEAN, tree : TreeStates,
   rpc : Nat, inbound : Links \cup {None},
   ups : [Links -> AssertMetrics],     \* _upstream_interface_state
   int : [Links -> BOOLEAN],           \* _interest_interface_state
   ifs : [Links -> Interface],         \* interface_state
   local : SUBSET Links,               \* _local_membership_state
   was_in_tree : BOOLEAN, sat : BOOLEAN,
   mfc : [iif : Links \cup {None}, oil : SUBSET Links],
   out : Seq(Messages), removals : Nat]

\* No multicast route was set yet.
NoRoute == [iif |-> None, oil |-> {}]

-----------------------------------------------------------------------------
(* Messages, the multicast route, the interest of the router *)

Send(e, i, kind) ==
  [e EXCEPT !.out = Append(@,
     [kind |-> kind, link |-> i,
      to |-> IF kind \in {"Interest", "NoInterest"} THEN e.ups[i].ip ELSE None,
      metric |-> IF kind = "IamUpstream" THEN e.ifs[i].rpc ELSE 0])]

\* is_forwarding of a NonRoot interface; a Root interface never forwards.
Forwarding_EveryLoser(e, i) ==
  /\ e.ifs[i].role = "NonRoot"
  /\ i \in e.local \/ e.int[i]
  /\ i \notin SourceLinks
Forwarding(e, i) ==
  /\ e.ifs[i].role = "NonRoot"
  /\ i \in e.local \/ e.int[i]
  /\ e.ifs[i].winner \/ e.ifs[i].hold
  /\ i \notin SourceLinks

OutboundInterfaces(e) == {i \in Links : Forwarding(e, i)}
IsInTree(e) == OutboundInterfaces(e) # {}

Change(e) ==
  IF e.inbound # None /\ e.tree # "Inactive"
  THEN [e EXCEPT !.mfc = [iif |-> e.inbound, oil |-> OutboundInterfaces(e)]]
  ELSE e

SendMyInterest(e, i) == Send(e, i, IF IsInTree(e) THEN "Interest" ELSE "NoInterest")

\* evaluate_in_tree_change; an originator has nobody to tell.
EvaluateInTree_NotToldToRoot(e) == [e EXCEPT !.was_in_tree = IsInTree(e)]
EvaluateInTree(e) ==
  LET told == [e EXCEPT !.was_in_tree = IsInTree(e)]
  IN  IF e.originator THEN e
      ELSE IF /\ e.was_in_tree # IsInTree(e)
              /\ e.inbound # None /\ e.ups[e.inbound] # NoUpstream
           THEN SendMyInterest(told, e.inbound)
           ELSE told

Present(e, i) == e.ifs[i].role # "Absent"

\* for interface in interface_state.values()
ForEachInterface(e, Op(_, _)) ==
  FoldLeft(LAMBDA f, i : IF Present(f, i) THEN Op(f, i) ELSE f, e, Vifs[e.router])

-----------------------------------------------------------------------------
(* The AssertWinner election *)

\* calculate_assert_winner: in an Unsure tree any UPSTREAM neighbor wins.
WinsAssert(e, i) ==
  CASE e.ifs[i].tree = "Inactive" -> TRUE
    [] e.ifs[i].tree = "Unsure"   -> e.ups[i] = NoUpstream
    [] e.ifs[i].tree = "Active"   ->
         \/ e.ups[i] = NoUpstream
         \/ IsBetterThan([ip |-> e.router, metric |-> e.ifs[i].rpc], e.ups[i])

\* set_assert_state, with the result of calculate_assert_winner: a loser holds
\* its forwarding state for a while.
ElectedInterface_NeverRegained(e, i) ==
  IF WinsAssert(e, i) THEN e
  ELSE [e EXCEPT !.ifs[i].winner = FALSE,
                 !.ifs[i].hold = HoldForwarding /\ e.ifs[i].winner]
ElectedInterface(e, i) ==
  IF e.ifs[i].winner = WinsAssert(e, i) THEN e
  ELSE [e EXCEPT !.ifs[i].winner = ~@,
                 !.ifs[i].hold = HoldForwarding /\ ~WinsAssert(e, i)]

CalculateAssertWinner(e, i) ==
  IF e.ifs[i].winner = WinsAssert(e, i) THEN e
  ELSE EvaluateInTree(Change(ElectedInterface(e, i)))

\* hold_forwarding_state_timeout
HoldForwardingTimeout_RouteKept(e, i) == EvaluateInTree([e EXCEPT !.ifs[i].hold = FALSE])
HoldForwardingTimeout(e, i) == EvaluateInTree(Change([e EXCEPT !.ifs[i].hold = FALSE]))

-----------------------------------------------------------------------------
(* The state of the tree *)

SetInterfaceTree(e, i, t) == [e EXCEPT !.ifs[i].tree = t]

\* tree_transition_to_active of each kind of interface
InterfaceToActive(e, i) ==
  IF e.ifs[i].role = "Root" THEN SetInterfaceTree(e, i, "Active")
  ELSE IF e.ifs[i].tree = "Active" \/ i \in SourceLinks THEN e
  ELSE Send(CalculateAssertWinner(SetInterfaceTree(e, i, "Active"), i), i, "IamUpstream")

\* tree_transition_to_unsure: what a NonRoot interface sends first
SendBeforeUnsure(e, i) ==
  LET left == IF e.ifs[i].tree = "Active" THEN Send(e, i, "IamNoLongerUpstream") ELSE e
  IN  IF e.ifs[i].tree # "Unsure" /\ e.ups[i] # NoUpstream
      THEN Send(left, i, "NoInterest") ELSE left

InterfaceToUnsure(e, i) ==
  IF e.ifs[i].role = "Root" THEN SetInterfaceTree(e, i, "Unsure")
  ELSE IF e.ifs[i].tree = "Unsure" THEN e
  ELSE CalculateAssertWinner(SetInterfaceTree(SendBeforeUnsure(e, i), i, "Unsure"), i)

SendBeforeInactive(e, i) ==
  IF e.ifs[i].tree = "Active" THEN Send(e, i, "IamNoLongerUpstream") ELSE e

InterfaceToInactive(e, i) ==
  IF e.ifs[i].role = "Root" THEN SetInterfaceTree(e, i, "Inactive")
  ELSE IF e.ifs[i].tree = "Inactive" THEN e
  ELSE CalculateAssertWinner(SetInterfaceTree(SendBeforeInactive(e, i), i, "Inactive"), i)

InterfaceTo(e, i, t) ==
  CASE t = "Active"   -> InterfaceToActive(e, i)
    [] t = "Unsure"   -> InterfaceToUnsure(e, i)
    [] t = "Inactive" -> InterfaceToInactive(e, i)

\* transition_to_active, _unsure and _inactive of tree_state.py; the last one
\* starts the thread that removes the tree.
Transition(e, t) ==
  LET entered == ForEachInterface([e EXCEPT !.tree = t], LAMBDA f, i : InterfaceTo(f, i, t))
  IN  IF e.tree = t THEN e
      ELSE IF t = "Inactive" THEN [entered EXCEPT !.removals = @ + 1]
      ELSE EvaluateInTree(Change(entered))

HasInterface(e) == \E i \in Links : Present(e, i)
SomeUpstream(e) == \E i \in Links : e.ups[i] # NoUpstream
UpstreamAt(e, i) == IF i = None THEN NoUpstream ELSE e.ups[i]

\* The neighbor at the root link has a strictly better RPC than the router:
\* what keeps trees out of loops.
FeasibleUpstream_EqualRpc(u, rpc) == u # NoUpstream /\ u.metric <= rpc
FeasibleUpstream(u, rpc) == u # NoUpstream /\ u.metric < rpc

\* check_tree_state of the two kinds of entries
OriginatorTreeState_SatIgnored(e) ==
  IF e.inbound # None /\ HasInterface(e) THEN "Active"
  ELSE IF ~HasInterface(e) \/ ~SomeUpstream(e) THEN "Inactive" ELSE "Unsure"
OriginatorTreeState(e) ==
  IF e.inbound # None /\ e.sat /\ HasInterface(e) THEN "Active"
  ELSE IF ~HasInterface(e) \/ (~e.sat /\ ~SomeUpstream(e)) THEN "Inactive"
  ELSE "Unsure"

NonOriginatorTreeState(e) ==
  IF HasInterface(e) /\ FeasibleUpstream(UpstreamAt(e, e.inbound), e.rpc) THEN "Active"
  ELSE IF HasInterface(e) /\ SomeUpstream(e) THEN "Unsure"
  ELSE "Inactive"

CheckTreeState(e) ==
  Transition(e, IF e.originator THEN OriginatorTreeState(e) ELSE NonOriginatorTreeState(e))

\* sat_expires and sat_running of an originator
SourceActive(e, running) == CheckTreeState([e EXCEPT !.sat = running])

-----------------------------------------------------------------------------
(* What the neighbors of a link say *)

\* change_best_upstream_neighbor_state: u is the best UPSTREAM neighbor now;
\* fresh is the neighbor whose metric object was just replaced, so that the
\* code's "is not" holds although nothing changed.
ChangeBestUpstream(e, i, u, fresh) ==
  LET reelected == u # NoUpstream /\ (u # e.ups[i] \/ u.ip = fresh)
      known     == [e EXCEPT !.ups[i] = u]
      elected   == CalculateAssertWinner(known, i)
  IN  IF e.ifs[i].role = "Root"
      THEN IF reelected /\ ~e.originator THEN SendMyInterest(known, i) ELSE known
      ELSE IF reelected /\ e.ifs[i].tree = "Unsure" THEN Send(elected, i, "NoInterest")
           ELSE elected

CheckInterestState(e, i, interested) ==
  IF ~Present(e, i) \/ e.tree = "Inactive" \/ e.int[i] = interested THEN e
  ELSE LET known == [e EXCEPT !.int[i] = interested]
       IN  IF e.ifs[i].role = "NonRoot" THEN EvaluateInTree(Change(known)) ELSE known

CheckInterfaceState(e, i, u, interested, fresh) ==
  IF ~Present(e, i) \/ e.tree = "Inactive" THEN e
  ELSE CheckTreeState(CheckInterestState(ChangeBestUpstream(e, i, u, fresh), i, interested))

\* notify_membership and check_membership_state of a tree interface
NotifyMembership(e, i, members) ==
  LET known == [e EXCEPT !.local = IF members THEN @ \cup {i} ELSE @ \ {i}]
  IN  IF ~Present(e, i) \/ (i \in e.local) = members THEN e
      ELSE EvaluateInTree(Change(known))

-----------------------------------------------------------------------------
(* Interfaces that are created, removed or change roles *)

\* TreeInterfaceNonRoot.__init__, events 1 to 6 and 9
AddNonRoot(e, i, rpc, wasRoot, previous, current) ==
  LET made    == ElectedInterface(
                   [e EXCEPT !.ifs[i] = [role |-> "NonRoot", tree |-> current,
                                         winner |-> TRUE, hold |-> FALSE, rpc |-> rpc]], i)
      someone == e.ups[i] # NoUpstream
      lost    == previous = "Active" /\ current = "Unsure"
      left    == IF \/ lost /\ (~someone \/ ~wasRoot)
                    \/ previous = "Active" /\ current = "Inactive"
                 THEN Send(made, i, "IamNoLongerUpstream") ELSE made
  IN  IF current = "Active" /\ i \notin SourceLinks /\ (wasRoot \/ previous # "Active")
      THEN Send(made, i, "IamUpstream")
      ELSE IF someone /\ (lost \/ (previous = "Inactive" /\ current = "Unsure"))
           THEN Send(left, i, "NoInterest") ELSE left

RootInterface(tree) ==
  [role |-> "Root", tree |-> tree, winner |-> FALSE, hold |-> FALSE, rpc |-> 0]

\* TreeInterfaceRoot.__init__, events 1 to 6.  It sends the interest of the
\* router before it takes the place of the interface it replaces.
AddRoot(e, i, wasNonRoot, previous, current) ==
  LET someone == e.ups[i] # NoUpstream
      left == IF wasNonRoot /\ previous = "Active" /\ current # "Inactive"
              THEN Send(e, i, "IamNoLongerUpstream") ELSE e
      told == IF /\ someone
                 /\ \/ ~wasNonRoot
                    \/ previous # "Inactive" /\ current # "Inactive"
              THEN SendMyInterest(left, i) ELSE left
  IN  [told EXCEPT !.ifs[i] = RootInterface(current)]

\* delete of the interface that another one replaces
ReplaceInterface(e, i) == IF i = None THEN e ELSE [e EXCEPT !.ifs[i].hold = FALSE]

\* notify_rpc_change of a NonRoot interface, and of every interface
InterfaceToRpc_NotAnnounced(e, i, rpc) ==
  IF e.ifs[i].role # "NonRoot" \/ e.ifs[i].rpc = rpc THEN e
  ELSE CalculateAssertWinner([e EXCEPT !.ifs[i].rpc = rpc], i)
InterfaceToRpc(e, i, rpc) ==
  LET known == [e EXCEPT !.ifs[i].rpc = rpc]
      told  == IF e.ifs[i].tree = "Active" /\ i \notin SourceLinks
               THEN Send(known, i, "IamUpstream") ELSE known
  IN  IF e.ifs[i].role # "NonRoot" \/ e.ifs[i].rpc = rpc THEN e
      ELSE CalculateAssertWinner(told, i)

NotifyRpcChange(e, rpc) == ForEachInterface(e, LAMBDA f, i : InterfaceToRpc(f, i, rpc))

SetRpc_OldRpcKept(e, rpc) == NotifyRpcChange(CheckTreeState(e), rpc)
SetRpc(e, rpc) == NotifyRpcChange(CheckTreeState([e EXCEPT !.rpc = rpc]), rpc)

-----------------------------------------------------------------------------
(* Changes of the unicast routing table: network_update.  A route is       *)
(* [rpc, direct, rif]: rif is the vif of the route, None if it is no vif.  *)

NonOriginatorUpdate(e, route) ==
  LET up  == UpstreamAt(e, route.rif)
      new == CASE e.tree = "Active" -> IF FeasibleUpstream(up, route.rpc) THEN "Active" ELSE "Unsure"
               [] e.tree = "Unsure" -> IF FeasibleUpstream(up, route.rpc) THEN "Active" ELSE "Unsure"
               [] e.tree = "Inactive" -> "Inactive"
      old   == ReplaceInterface(e, route.rif)
      down  == IF e.inbound = None THEN old
               ELSE AddNonRoot(old, e.inbound, route.rpc, TRUE, e.tree, new)
      root  == IF route.rif = None THEN down
               ELSE AddRoot(down, route.rif, TRUE, e.tree, new)
      moved == [root EXCEPT !.inbound = route.rif]
  IN  IF route.direct THEN Transition(e, "Inactive")
      ELSE IF route.rif # e.inbound
      THEN EvaluateInTree(Change(IF e.rpc # route.rpc THEN SetRpc(moved, route.rpc)
                                 ELSE CheckTreeState(moved)))
      ELSE IF e.rpc # route.rpc THEN SetRpc(e, route.rpc)
      ELSE e

OriginatorUpdate(e, route) ==
  LET new   == IF route.rif = None THEN "Unsure" ELSE "Active"
      down  == IF e.inbound = None THEN e
               ELSE AddNonRoot(e, e.inbound, e.rpc, TRUE, e.tree, new)
      root  == IF route.rif = None THEN down
               ELSE [down EXCEPT !.ifs[route.rif] = RootInterface(new)]
      moved == [root EXCEPT !.inbound = route.rif, !.sat = (route.rif # None)]
      done  == IF route.rif = e.inbound THEN e ELSE Change(CheckTreeState(moved))
  IN  IF ~route.direct THEN Transition(e, "Inactive")
      ELSE IF e.rpc # route.rpc
      THEN NotifyRpcChange([done EXCEPT !.rpc = route.rpc], route.rpc)
      ELSE done

NetworkUpdate(e, route) ==
  IF e.originator THEN OriginatorUpdate(e, route) ELSE NonOriginatorUpdate(e, route)

-----------------------------------------------------------------------------
(* new_interface and remove_interface *)

NonOriginatorNewInterface(e, i, route) ==
  LET new == IF e.tree = "Active" THEN "Unsure" ELSE e.tree
  IN  IF route.rif # i THEN AddNonRoot(e, i, e.rpc, FALSE, e.tree, e.tree)
      ELSE IF e.inbound = None
      THEN AddRoot([e EXCEPT !.inbound = i], i, FALSE, e.tree, e.tree)
      ELSE [AddRoot(AddNonRoot(e, e.inbound, e.rpc, TRUE, e.tree, new),
                    i, TRUE, e.tree, new) EXCEPT !.inbound = i]

OriginatorNewInterface(e, i, route) ==
  LET down == IF e.inbound = None THEN e
              ELSE AddNonRoot(e, e.inbound, e.rpc, TRUE, e.tree, e.tree)
  IN  IF route.rif # i THEN AddNonRoot(e, i, e.rpc, FALSE, e.tree, e.tree)
      ELSE [down EXCEPT !.ifs[i] = RootInterface(e.tree), !.inbound = i, !.sat = TRUE]

\* An originator does not check the state of the tree here.
NewInterface(e, i, route, members) ==
  LET clean == [e EXCEPT !.ups[i] = NoUpstream, !.int[i] = FALSE,
                         !.local = IF members THEN @ \cup {i} ELSE @ \ {i}]
  IN  IF Present(e, i) THEN e
      ELSE IF e.originator THEN Change(OriginatorNewInterface(clean, i, route))
      ELSE CheckTreeState(EvaluateInTree(Change(NonOriginatorNewInterface(clean, i, route))))

RemoveInterface_InboundKept(e, i) ==
  LET gone == [e EXCEPT !.ups[i] = NoUpstream, !.int[i] = FALSE,
                        !.local = @ \ {i}, !.ifs[i] = NoInterface]
  IN  IF ~Present(e, i) THEN e ELSE CheckTreeState(EvaluateInTree(Change(gone)))
RemoveInterface(e, i) ==
  LET gone == [e EXCEPT !.inbound = IF @ = i THEN None ELSE @,
                        !.ups[i] = NoUpstream, !.int[i] = FALSE,
                        !.local = @ \ {i}, !.ifs[i] = NoInterface]
      checked == CheckTreeState(EvaluateInTree(Change(gone)))
  IN  IF ~Present(e, i) THEN e
      ELSE IF e.originator /\ checked.inbound = None THEN SourceActive(checked, FALSE)
      ELSE checked

-----------------------------------------------------------------------------
(* A new entry: KernelEntryOriginator and KernelEntryNonOriginator.        *)
(* ups and int are what the neighbors of each link say; vifs the vifs.     *)

BlankEntry(n, route, ups, int, members, vifs) ==
  [router |-> n, originator |-> route.direct, tree |-> "Inactive",
   rpc |-> route.rpc, inbound |-> route.rif, ups |-> ups, int |-> int,
   ifs |-> [i \in Links |-> NoInterface], local |-> members \cap vifs,
   was_in_tree |-> FALSE, sat |-> FALSE, mfc |-> NoRoute,
   out |-> <<>>, removals |-> 0]

\* The constructor's loop over vif_index_to_name_dic, root interface apart.
AddAllNonRoots(e, vifs) ==
  FoldLeft(LAMBDA f, i : IF i \in vifs /\ i # e.inbound
                         THEN AddNonRoot(f, i, f.rpc, FALSE, "Inactive", f.tree) ELSE f,
           e, Vifs[e.router])

CreateOriginator(blank, vifs) ==
  LET started == [blank EXCEPT !.sat = (blank.inbound # None),
                    !.tree = IF blank.inbound # None THEN "Active" ELSE "Unsure"]
      downs   == AddAllNonRoots(started, vifs)
      root    == IF blank.inbound = None THEN downs
                 ELSE [downs EXCEPT !.ifs[blank.inbound] = RootInterface(downs.tree)]
  IN  CheckTreeState(Change(root))

CreateNonOriginator(blank, vifs) ==
  LET first == [blank EXCEPT !.tree =
                  IF FeasibleUpstream(UpstreamAt(blank, blank.inbound), blank.rpc) THEN "Active"
                  ELSE IF SomeUpstream(blank) THEN "Unsure" ELSE "Inactive"]
      downs == AddAllNonRoots(first, vifs)
      known == [downs EXCEPT !.was_in_tree = IsInTree(downs)]
      root  == IF blank.inbound = None THEN known
               ELSE AddRoot(known, blank.inbound, FALSE, "Inactive", known.tree)
  IN  EvaluateInTree(Change(root))

CreateEntry(n, route, ups, int, members, vifs) ==
  LET blank == BlankEntry(n, route, ups, int, members, vifs)
  IN  IF route.direct THEN CreateOriginator(blank, vifs) ELSE CreateNonOriginator(blank, vifs)
=============================================================================
