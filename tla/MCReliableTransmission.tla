---------------------- MODULE MCReliableTransmission ----------------------
(***************************************************************************)
(* Instances of ReliableTransmission for TLC.  A run goes through several  *)
(* scenarios, each with bounds of its own on what the environment does:    *)
(*   "updates"   two routers, both UPSTREAM, from the discovery on         *)
(*   "failures"  two routers, one neighbor may be declared failed          *)
(*   "restart"   two routers, a restart or a wrap of the counter           *)
(*   "silence"   two routers, as many failures as a router can have        *)
(*   "multicast" three routers that are Synced, one UPSTREAM               *)
(***************************************************************************)
EXTENDS ReliableTransmission, TLC

CONSTANTS tree1, Scenarios

VARIABLE scenario

mcVars == <<allVars, scenario>>

Bounds ==
  [updates   |-> [upstreams |-> {1, 2}, sn |-> 5, updateSN |-> 3, boot |-> 1, faults |-> 0],
   failures  |-> [upstreams |-> {1},    sn |-> 3, updateSN |-> 2, boot |-> 1, faults |-> 1],
   restart   |-> [upstreams |-> {1},    sn |-> 2, updateSN |-> 1, boot |-> 2, faults |-> 1],
   silence   |-> [upstreams |-> {1},    sn |-> 2, updateSN |-> 2, boot |-> 1, faults |-> 4],
   multicast |-> [upstreams |-> {1},    sn |-> 8, updateSN |-> 3, boot |-> 1, faults |-> 0]]

WithinBounds ==
  LET b == Bounds[scenario]
  IN  /\ faults <= b.faults
      /\ \A n \in Routers : sequencer[n] <= b.sn /\ boot[n] <= b.boot
      /\ \A p \in msgs : p.type = "Upstream" => p.src \in b.upstreams /\ p.sn <= b.updateSN
      /\ \A p \in interests : p.sn <= b.updateSN

\* Only the multicasts need a third router on the link.
Present == IF scenario = "multicast" THEN Routers ELSE {1, 2}

-----------------------------------------------------------------------------
(* A start after the discovery: every router has taken one snapshot, without *)
(* trees, for each neighbor in the order of addresses, all are Synced, and   *)
(* no packet of the handshakes is under way any more.                        *)

Others(n) == Routers \ {n}

SnapshotFor(n, m) == Cardinality({k \in Others(n) : k <= m})

SyncedNeighbor(n, m) ==
  [NoNeighbor EXCEPT
     !.state = "Synced", !.time_of_boot = 1, !.current_sync_sn = 1,
     !.neighbor_snapshot_sn = SnapshotFor(m, n),
     !.my_snapshot_boot_time = 1, !.my_snapshot_sequencer = SnapshotFor(n, m)]

EstablishedInit ==
  /\ boot = [n \in Routers |-> 1]
  /\ sequencer = [n \in Routers |-> Cardinality(Others(n))]
  /\ mrt = [n \in Routers |-> <<>>]
  /\ nbr = [n \in Routers |-> [m \in Routers |->
               IF m = n THEN NoNeighbor ELSE SyncedNeighbor(n, m)]]
  /\ msgs = {}
  /\ snapshots = UNION {{[owner |-> n, boot |-> 1, sn |-> SnapshotFor(n, m), trees |-> <<>>] :
                           m \in Others(n)} : n \in Routers}
  /\ faults = 0
  /\ buffer = [n \in Routers |-> [t \in Trees |-> NoMessages]]
  /\ interests = {} /\ acks = {}
  /\ hellos = {CheckpointHello(n) : n \in Routers}
  /\ checkpoint_sn = [n \in Routers |-> [m \in Routers |-> 0]]
  /\ delivered = [n \in Routers |-> [m \in Routers |-> [t \in Trees |-> 0]]]

-----------------------------------------------------------------------------
ScenarioInit ==
  /\ scenario \in Scenarios
  /\ IF scenario = "multicast" THEN EstablishedInit ELSE TransmissionInit

\* TransmissionNext, with the bounds where TLC can drop a step early.
ScenarioNext ==
  /\ TransmissionStep(Present)
  /\ UNCHANGED scenario
  /\ WithinBounds'
  /\ SendHellos

ScenarioSpec == ScenarioInit /\ [][ScenarioNext]_mcVars

ScenarioFairSpec == ScenarioSpec /\ TransmissionFairness

\* Whatever the neighbors do, no message is retransmitted for ever: who does not
\* acknowledge is declared failed (retransmission_timeout).  "silence" is the
\* scenario whose bounds forbid none of these failures.
SilenceIsNotWaitedFor == scenario = "silence" => NothingOutstandingForEver
=============================================================================
