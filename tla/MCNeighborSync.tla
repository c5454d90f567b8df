-------------------------- MODULE MCNeighborSync --------------------------
(***************************************************************************)
(* Instances of NeighborSync for TLC, in two scenarios with bounds of      *)
(* their own:                                                              *)
(*   "updates"  both routers are UPSTREAM, of up to two trees that change  *)
(*              MaxUpdates times in all, from the discovery on             *)
(*   "restart"  one of them is, of one tree, and one restart or one        *)
(*              expired liveness timer meets the synchronization           *)
(***************************************************************************)
EXTENDS NeighborSync, TLC

CONSTANTS tree1, tree2, MaxUpdates

VARIABLE scenario

mcVars == <<vars, scenario>>

Updates == {p \in msgs : p.type = "Upstream"}

WithinBounds ==
  IF scenario = "updates"
  THEN faults = 0 /\ Cardinality(Updates) <= MaxUpdates
  ELSE /\ \A n \in Routers : boot[n] <= 2 /\ sequencer[n] <= 3
       /\ \A p \in Updates : p.src = 2 /\ p.tree = tree1

ScenarioInit == Init /\ scenario \in {"updates", "restart"}

ScenarioNext == Next /\ UNCHANGED scenario /\ WithinBounds'

ScenarioSpec == ScenarioInit /\ [][ScenarioNext]_mcVars /\ Fairness

\* Once tree changes are over every router ends up Synced with every other and
\* knows its trees (Neighbor.py, class by class): the bounds of "updates" leave
\* room for every reset that is needed, those of "restart" do not.
UpdatesEndConsistent == scenario = "updates" => EventuallyConsistent
=============================================================================
