--------------------------- MODULE NeighborSync ---------------------------
(***************************************************************************)
(* The neighbor state machine of HPIM-DM: discovery by Hello, the Sync     *)
(* handshake that copies a snapshot of the trees a router is UPSTREAM of,  *)
(* and the filter on the sequenced messages that follow the snapshot       *)
(* (Neighbor.py, the receive_* handlers of InterfaceHPIM.py).              *)
(*                                                                         *)
(* The routers share one link.  A packet that was sent stays in msgs for   *)
(* ever and a router may receive it at any later time, any number of times *)
(* or never, so loss, duplication and reordering need no actions of their  *)
(* own.  A packet whose reception changes nothing is not received.         *)
(*                                                                         *)
(* A definition X_Y, next to X, is X with the fault Y: no action uses it,  *)
(* it is put in the place of X to see which property notices the fault.    *)
(***************************************************************************)
EXTENDS Integers, SequencesExt

CONSTANTS
  Routers,            \* the routers of the link; a router is its IP address
  Upstreams,          \* the routers that may be UPSTREAM of trees
  Trees,              \* the (Source, Group) pairs
  SyncFragmentation,  \* trees per Sync message (sync_fragmentation)
  MaxSequenceNumber,  \* MAX_SEQUENCE_NUMBER: the counter wraps there
  MaxUpdateSN,        \* bound: tree changes take SNs up to this one
  MaxBootTime,        \* bound on the BootTimes of an interface
  MaxFaults           \* bound on restarts and on expired liveness timers

ASSUME RoutersAssumption == Routers \subseteq Nat /\ Upstreams \subseteq Routers
ASSUME FragmentationAssumption == SyncFragmentation \in Nat \ {0}
ASSUME SequenceAssumption == MaxSequenceNumber \in Nat /\ MaxSequenceNumber > 2
ASSUME BoundsAssumption == MaxBootTime \in Nat \ {0} /\ MaxUpdateSN \in Nat /\ MaxFaults \in Nat

VARIABLES
  boot,       \* boot[n]: time_of_boot of n's interface
  sequencer,  \* sequencer[n]: the last sequence number n used
  mrt,        \* mrt[n]: the trees n is UPSTREAM of on the link, in the
              \* order in which the kernel enumerates them
  nbr,        \* nbr[n][m]: the Neighbor object n keeps for m
  msgs,       \* every packet sent so far
  snapshots,  \* history: every snapshot taken so far
  faults      \* number of restarts and liveness expirations so far

vars == <<boot, sequencer, mrt, nbr, msgs, snapshots, faults>>

-----------------------------------------------------------------------------
(* Types *)

\* "Absent" stands for an address that is not in InterfaceHPIM.neighbors.
\* Unknown never outlives the call that creates the object.
States == {"Absent", "Slave", "Master", "Synced"}

Neighbor ==
  [state : States,
   time_of_boot : Nat,
   neighbor_snapshot_sn : Nat,
   current_sync_sn : Nat,
   my_snapshot_boot_time : Nat,
   my_snapshot_sequencer : Nat,
   my_snapshot_mrt : Seq(Trees),
   tree_metric_state : SUBSET Trees,
   last_sequence_number : [Trees -> Nat]]

HelloMsgs == [type : {"Hello"}, src : Routers, boot : Nat, removed : BOOLEAN]

SyncMsgs ==
  [type : {"Sync"}, src : Routers, dst : Routers, boot : Nat,
   my_snapshot_sn : Nat, neighbor_snapshot_sn : Nat, neighbor_boot_time : Nat,
   sync_sn : Nat, trees : SUBSET Trees, master : BOOLEAN, more : BOOLEAN]

UpstreamMsgs ==
  [type : {"Upstream"}, src : Routers, boot : Nat, sn : Nat, tree : Trees,
   upstream : BOOLEAN]

Snapshots == [owner : Routers, boot : Nat, sn : Nat, trees : Seq(Trees)]

TypeOK ==
  /\ boot \in [Routers -> Nat]
  /\ sequencer \in [Routers -> Nat]
  /\ mrt \in [Routers -> Seq(Trees)]
  /\ nbr \in [Routers -> [Routers -> Neighbor]]
  /\ msgs \subseteq HelloMsgs \cup SyncMsgs \cup UpstreamMsgs
  /\ snapshots \subseteq Snapshots
  /\ faults \in Nat

-----------------------------------------------------------------------------
(* Packets and state changes shared by the handlers *)

NoNeighbor ==
  [state |-> "Absent", time_of_boot |-> 0, neighbor_snapshot_sn |-> 0,
   current_sync_sn |-> 0, my_snapshot_boot_time |-> 0,
   my_snapshot_sequencer |-> 0, my_snapshot_mrt |-> <<>>,
   tree_metric_state |-> {}, last_sequence_number |-> [t \in Trees |-> 0]]

\* The k-th slice of a snapshot, and the more bit sent with it.
Fragment(table, k) ==
  {table[i] : i \in {j \in DOMAIN table :
                       k * SyncFragmentation < j /\ j <= (k + 1) * SyncFragmentation}}

MoreBit_OneSliceShort(table, k) == Len(table) > (k + 1) * SyncFragmentation
MoreBit(table, k) == Len(table) > k * SyncFragmentation

Farewell(n) == [type |-> "Hello", src |-> n, boot |-> boot[n], removed |-> TRUE]

\* The Sync that n, whose object for m is r, sends for slice k.  A packet
\* without the more bit carries Hello options in place of trees.
Sync(n, m, r, k, master) ==
  [type |-> "Sync", src |-> n, dst |-> m, boot |-> r.my_snapshot_boot_time,
   my_snapshot_sn |-> r.my_snapshot_sequencer,
   neighbor_snapshot_sn |-> r.neighbor_snapshot_sn,
   neighbor_boot_time |-> r.time_of_boot, sync_sn |-> k,
   trees |-> IF MoreBit(r.my_snapshot_mrt, k)
             THEN Fragment(r.my_snapshot_mrt, k) ELSE {},
   master |-> master, more |-> MoreBit(r.my_snapshot_mrt, k)]

Send(packets) == msgs' = msgs \cup packets

SetNeighbor(n, m, r) == nbr' = [nbr EXCEPT ![n][m] = r]

\* get_sequence_number: the next sequence number, under a new BootTime when
\* the counter reaches its maximum.
Wraps(n) == sequencer[n] + 1 = MaxSequenceNumber
NextSequenceNumber(n) == IF Wraps(n) THEN 1 ELSE sequencer[n] + 1
NextBootTime(n) == IF Wraps(n) THEN boot[n] + 1 ELSE boot[n]

GetSequenceNumber(n) ==
  /\ NextBootTime(n) <= MaxBootTime
  /\ sequencer' = [sequencer EXCEPT ![n] = NextSequenceNumber(n)]
  /\ boot' = [boot EXCEPT ![n] = NextBootTime(n)]

\* start_snapshot, and the object cleared around it.
CleanNeighbor(n, state, neighbor_boot) ==
  [state |-> state, time_of_boot |-> neighbor_boot, neighbor_snapshot_sn |-> 0,
   current_sync_sn |-> 0, my_snapshot_boot_time |-> NextBootTime(n),
   my_snapshot_sequencer |-> NextSequenceNumber(n), my_snapshot_mrt |-> mrt[n],
   tree_metric_state |-> {}, last_sequence_number |-> [t \in Trees |-> 0]]

StartSnapshot(n) ==
  /\ GetSequenceNumber(n)
  /\ snapshots' = snapshots \cup
       {[owner |-> n, boot |-> NextBootTime(n), sn |-> NextSequenceNumber(n),
         trees |-> mrt[n]]}

\* new_neighbor_or_adjacency_reset: n starts a new Sync process with m as the
\* one that asks (its state says the neighbor is the Slave).
AdjacencyReset(n, m, neighbor_boot) ==
  LET r == CleanNeighbor(n, "Slave", neighbor_boot)
  IN  /\ StartSnapshot(n)
      /\ SetNeighbor(n, m, r)
      /\ Send({Sync(n, m, r, 0, TRUE)})

\* install_tree_state: a sequenced message fresher than the snapshot wins.
InstallTreeState_Overwrites(r, trees) ==
  [r EXCEPT !.tree_metric_state = @ \cup trees]
InstallTreeState(r, trees) ==
  [r EXCEPT !.tree_metric_state = @ \cup
     {t \in trees : r.last_sequence_number[t] <= r.neighbor_snapshot_sn}]

\* set_sync_state(Synced), and the snapshot that is no longer needed.
FinishSync(r) == [r EXCEPT !.state = "Synced", !.my_snapshot_mrt = <<>>]

-----------------------------------------------------------------------------
(* Reception of Sync packets *)

\* Master.recv_sync once the packet p is known to be the awaited one.
MasterAnswers(n, m, r, p) ==
  LET k == r.current_sync_sn
      r1 == InstallTreeState(r, p.trees)
      done == k > 0 /\ ~p.more /\ ~MoreBit(r.my_snapshot_mrt, k)
  IN  /\ Send({Sync(n, m, r, k, FALSE)})
      /\ SetNeighbor(n, m, IF done THEN FinishSync(r1)
                           ELSE [r1 EXCEPT !.current_sync_sn = k + 1])

\* Slave.recv_sync for the awaited answer p of the other router.
SlaveAdvances(n, m, r, p) ==
  LET k == r.current_sync_sn
      r1 == InstallTreeState([r EXCEPT !.current_sync_sn = k + 1], p.trees)
  IN  IF k > 0 /\ ~MoreBit(r.my_snapshot_mrt, k) /\ ~p.more
      THEN SetNeighbor(n, m, FinishSync(r)) /\ UNCHANGED msgs
      ELSE SetNeighbor(n, m, r1) /\ Send({Sync(n, m, r1, k + 1, TRUE)})

\* receive_sync drops a Sync meant for an earlier BootTime of n.
ReceivableSync(n, m, p) ==
  /\ p.type = "Sync" /\ p.src = m /\ p.dst = n /\ m # n
  /\ p.neighbor_boot_time = boot[n]

\* A Sync from an address that is not a neighbor: the new object is Unknown
\* and answers a first Sync as Master, whatever the addresses.
ReceiveSyncUnknown(n, m) ==
  /\ nbr[n][m].state = "Absent"
  /\ \E p \in msgs :
       /\ ReceivableSync(n, m, p)
       /\ IF p.sync_sn = 0 /\ p.master
          THEN LET r == [CleanNeighbor(n, "Master", p.boot) EXCEPT
                           !.neighbor_snapshot_sn = p.my_snapshot_sn]
               IN  StartSnapshot(n) /\ MasterAnswers(n, m, r, p)
          ELSE AdjacencyReset(n, m, p.boot)
  /\ UNCHANGED <<mrt, faults>>

\* The snapshot SN against which p is compared: the first one heard is adopted.
Adopted(r, p) ==
  IF r.state \in {"Slave", "Master"} /\ r.current_sync_sn = 0
       /\ r.neighbor_snapshot_sn = 0
  THEN [r EXCEPT !.neighbor_snapshot_sn = p.my_snapshot_sn]
  ELSE r

\* Neighbor.recv_sync and the recv_sync of each state, for a Sync that shows a
\* newer boot or snapshot of m, or an older snapshot of n's own.
ReceiveSyncReset(n, m) ==
  /\ nbr[n][m].state # "Absent"
  /\ \E p \in msgs :
       LET r == nbr[n][m]
       IN  /\ ReceivableSync(n, m, p)
           /\ \/ /\ \/ p.boot > r.time_of_boot
                    \/ p.boot = r.time_of_boot /\ boot[n] > r.my_snapshot_boot_time
                 /\ AdjacencyReset(n, m, p.boot)
              \/ /\ p.boot = r.time_of_boot /\ boot[n] <= r.my_snapshot_boot_time
                 /\ p.my_snapshot_sn > Adopted(r, p).neighbor_snapshot_sn
                 /\ AdjacencyReset(n, m, r.time_of_boot)
  /\ UNCHANGED <<mrt, faults>>

\* Whether the sender of p knows n's current snapshot.
EchoesMySnapshot_Unchecked(r, p) == TRUE
EchoesMySnapshot(r, p) == p.neighbor_snapshot_sn = r.my_snapshot_sequencer

\* Of two routers that both ask, the lower address becomes the one that answers.
YieldsTo_Nobody(n, m) == FALSE
YieldsTo(n, m) == n < m

\* A Sync of the snapshot that n is synchronizing with.
CurrentSync(n, m, r, p) ==
  /\ ReceivableSync(n, m, p)
  /\ p.boot = r.time_of_boot /\ boot[n] <= r.my_snapshot_boot_time
  /\ p.my_snapshot_sn = r.neighbor_snapshot_sn

ReceiveSyncSlave(n, m) ==
  /\ nbr[n][m].state = "Slave"
  /\ \E p \in msgs :
       LET r == Adopted(nbr[n][m], p)
       IN  /\ CurrentSync(n, m, r, p)
           /\ \/ /\ p.sync_sn = r.current_sync_sn /\ p.sync_sn = 0 /\ p.master
                 /\ IF YieldsTo(n, m)
                    THEN MasterAnswers(n, m, [r EXCEPT !.state = "Master"], p)
                    ELSE SetNeighbor(n, m, r) /\ Send({Sync(n, m, r, 0, TRUE)})
              \/ /\ p.sync_sn = r.current_sync_sn /\ ~p.master
                 /\ EchoesMySnapshot(r, p)
                 /\ SlaveAdvances(n, m, r, p)
              \/ /\ \/ p.sync_sn # r.current_sync_sn
                    \/ ~p.master /\ ~EchoesMySnapshot(r, p)
                    \/ p.master /\ p.sync_sn # 0
                 /\ SetNeighbor(n, m, r) /\ UNCHANGED msgs
  /\ UNCHANGED <<boot, sequencer, mrt, snapshots, faults>>

ReceiveSyncMaster(n, m) ==
  /\ nbr[n][m].state = "Master"
  /\ \E p \in msgs :
       LET r == nbr[n][m]
       IN  /\ CurrentSync(n, m, r, p)
           /\ p.sync_sn = r.current_sync_sn /\ p.master
           /\ p.sync_sn > 0 => EchoesMySnapshot(r, p)
           /\ MasterAnswers(n, m, r, p)
  /\ UNCHANGED <<boot, sequencer, mrt, snapshots, faults>>

\* Synced.recv_sync has no action: an older snapshot and another sync_sn are
\* ignored, a newer snapshot is a ReceiveSyncReset, and for a repetition of the
\* last Sync the constructor of the answer raises before anything is sent (it
\* gets no upstream_trees), so that the packet is dropped.

-----------------------------------------------------------------------------
(* Timers *)

\* The slice that sync_timer_expires of each state sends again.
RetransmittedSN_OneForBoth(state, r) == r.current_sync_sn - 1
RetransmittedSN(state, r) ==
  IF state = "Slave" THEN r.current_sync_sn ELSE r.current_sync_sn - 1

\* sync_timeout: the last Sync is sent again, with the SNs known by now.
SyncTimeout(n, m) ==
  LET r == nbr[n][m]
  IN  /\ r.state \in {"Slave", "Master"}
      /\ Send({Sync(n, m, r, RetransmittedSN(r.state, r), r.state = "Slave")})
      /\ UNCHANGED <<boot, sequencer, mrt, nbr, snapshots, faults>>

\* The liveness timer, or a neighbor declared failed after missed Acks.
RemoveNeighbor(n, m) ==
  /\ nbr[n][m].state # "Absent"
  /\ faults < MaxFaults /\ faults' = faults + 1
  /\ SetNeighbor(n, m, NoNeighbor)
  /\ UNCHANGED <<boot, sequencer, mrt, msgs, snapshots>>

-----------------------------------------------------------------------------
(* Hello *)

\* Every interface sends Hellos periodically, so those of every BootTime that m
\* has had may be under way; farewell Hellos are in msgs.
Hellos(m) ==
  [type : {"Hello"}, src : {m}, boot : 1 .. boot[m], removed : {FALSE}]
    \cup {p \in msgs : p.type = "Hello" /\ p.src = m}

\* receive_hello.  A farewell from an unknown address creates a neighbor too.
\* The other packets that carry a BootTime (Interest, NoInterest, Ack) of an
\* unknown or restarted sender reset the adjacency exactly as its Hello does.
ReceiveHello(n, m) ==
  LET r == nbr[n][m]
  IN  /\ m # n
      /\ \E p \in Hellos(m) :
           \/ /\ r.state = "Absent" \/ p.boot > r.time_of_boot
              /\ AdjacencyReset(n, m, p.boot)
           \/ /\ r.state # "Absent" /\ p.boot = r.time_of_boot /\ p.removed
              /\ SetNeighbor(n, m, NoNeighbor)
              /\ UNCHANGED <<boot, sequencer, msgs, snapshots>>
      /\ UNCHANGED <<mrt, faults>>

-----------------------------------------------------------------------------
(* Trees: IamUpstream and IamNoLongerUpstream *)

\* n announces, under a new SN, that it is or is not UPSTREAM of t any more.
SendUpstream(n, t, upstream) ==
  /\ sequencer[n] < MaxUpdateSN
  /\ GetSequenceNumber(n)
  /\ Send({[type |-> "Upstream", src |-> n, boot |-> NextBootTime(n),
            sn |-> NextSequenceNumber(n), tree |-> t, upstream |-> upstream]})
  /\ UNCHANGED <<nbr, snapshots, faults>>

BecomeUpstream(n, t) ==
  /\ n \in Upstreams /\ t \notin ToSet(mrt[n])
  /\ mrt' = [mrt EXCEPT ![n] = Append(@, t)]
  /\ SendUpstream(n, t, TRUE)

StopUpstream(n, t) ==
  /\ \E i \in DOMAIN mrt[n] :
       /\ mrt[n][i] = t
       /\ mrt' = [mrt EXCEPT ![n] = RemoveAt(@, i)]
  /\ SendUpstream(n, t, FALSE)

\* recv_reliable_packet: no sequenced message is interpreted before the
\* snapshot SN of its sender is certain, nor one the snapshot already covers.
IsNews(r, p) ==
  /\ r.current_sync_sn > 0
  /\ p.sn > r.neighbor_snapshot_sn
  /\ p.sn > r.last_sequence_number[p.tree]

ReceiveUpstream(n, m) ==
  LET r == nbr[n][m]
  IN  /\ m # n
      /\ \E p \in msgs :
           /\ p.type = "Upstream" /\ p.src = m
           /\ \/ /\ r.state = "Absent" \/ p.boot > r.time_of_boot
                 /\ AdjacencyReset(n, m, p.boot)
              \/ /\ r.state # "Absent" /\ p.boot = r.time_of_boot
                 /\ IsNews(r, p)
                 /\ SetNeighbor(n, m,
                      [r EXCEPT !.last_sequence_number[p.tree] = p.sn,
                                !.tree_metric_state =
                                   IF p.upstream THEN @ \cup {p.tree}
                                   ELSE @ \ {p.tree}])
                 /\ UNCHANGED <<boot, sequencer, msgs, snapshots>>
      /\ UNCHANGED <<mrt, faults>>

-----------------------------------------------------------------------------
(* Restart of a router's interface *)

\* The interface goes away, with a farewell Hello when it is removed on
\* purpose (InterfaceHPIM.remove) and without when the process dies, and a new
\* one is created at a later second.
Restart_SameBoot(n, farewell) ==
  /\ faults < MaxFaults /\ faults' = faults + 1
  /\ sequencer' = [sequencer EXCEPT ![n] = 0]
  /\ mrt' = [mrt EXCEPT ![n] = <<>>]
  /\ nbr' = [nbr EXCEPT ![n] = [m \in Routers |-> NoNeighbor]]
  /\ Send(IF farewell THEN {Farewell(n)} ELSE {})
  /\ UNCHANGED <<boot, snapshots>>
Restart(n, farewell) ==
  /\ faults < MaxFaults /\ faults' = faults + 1
  /\ boot[n] < MaxBootTime
  /\ boot' = [boot EXCEPT ![n] = @ + 1]
  /\ sequencer' = [sequencer EXCEPT ![n] = 0]
  /\ mrt' = [mrt EXCEPT ![n] = <<>>]
  /\ nbr' = [nbr EXCEPT ![n] = [m \in Routers |-> NoNeighbor]]
  /\ Send(IF farewell THEN {Farewell(n)} ELSE {})
  /\ UNCHANGED snapshots

-----------------------------------------------------------------------------
Init ==
  /\ boot = [n \in Routers |-> 1]
  /\ sequencer = [n \in Routers |-> 0]
  /\ mrt = [n \in Routers |-> <<>>]
  /\ nbr = [n \in Routers |-> [m \in Routers |-> NoNeighbor]]
  /\ msgs = {}
  /\ snapshots = {}
  /\ faults = 0

Receive(n, m) ==
  \/ ReceiveSyncUnknown(n, m)
  \/ ReceiveSyncReset(n, m)
  \/ ReceiveSyncSlave(n, m)
  \/ ReceiveSyncMaster(n, m)
  \/ ReceiveHello(n, m)
  \/ ReceiveUpstream(n, m)

Next ==
  \/ \E n, m \in Routers :
       Receive(n, m) \/ SyncTimeout(n, m) \/ RemoveNeighbor(n, m)
  \/ \E n \in Routers :
       \/ \E t \in Trees : BecomeUpstream(n, t) \/ StopUpstream(n, t)
       \/ \E farewell \in BOOLEAN : Restart(n, farewell)

Spec == Init /\ [][Next]_vars

\* What was sent is finally received, and the Sync timer of a synchronization
\* in progress keeps expiring.
Fairness ==
  \A n, m \in Routers : WF_vars(Receive(n, m)) /\ WF_vars(SyncTimeout(n, m))

FairSpec == Spec /\ Fairness

-----------------------------------------------------------------------------
(* What the protocol promises *)

\* The tree state that n holds for the UPSTREAM state of m: the given trees of a
\* snapshot, corrected by the last sequenced message received about each tree.
ViewFollows(r, m, trees) ==
  \A t \in Trees :
    IF r.last_sequence_number[t] > r.neighbor_snapshot_sn
    THEN \E p \in msgs :
           /\ p.type = "Upstream" /\ p.src = m /\ p.boot = r.time_of_boot
           /\ p.tree = t /\ p.sn = r.last_sequence_number[t]
           /\ p.upstream = (t \in r.tree_metric_state)
    ELSE t \in r.tree_metric_state <=> t \in trees

\* A router that is Synced with a neighbor has the whole of one snapshot of
\* that neighbor, neither a tree more nor a tree less, whatever Syncs were
\* lost, repeated, reordered or cut short by a reset, and the sequenced
\* messages that arrived during the synchronization were not overwritten by
\* it (Neighbor.install_tree_state, recv_sync of each state).
SyncedHasSnapshot ==
  \A n, m \in Routers :
    LET r == nbr[n][m]
    IN  r.state = "Synced" =>
          \E s \in snapshots :
            /\ s.owner = m /\ s.boot = r.time_of_boot
            /\ s.sn = r.neighbor_snapshot_sn
            /\ ViewFollows(r, m, ToSet(s.trees))

\* When nothing m said about t after the snapshot is still to be received by
\* n, n knows whether m is UPSTREAM of t now.  A message filtered out as old
\* by recv_reliable_packet therefore never carried news.
SyncedViewIsCurrent ==
  \A n, m \in Routers : \A t \in Trees :
    LET r == nbr[n][m]
    IN  /\ r.state = "Synced" /\ r.time_of_boot = boot[m]
        /\ \A p \in msgs :
             p.type = "Upstream" /\ p.src = m /\ p.boot = boot[m] /\ p.tree = t
               => p.sn <= r.neighbor_snapshot_sn \/ p.sn <= r.last_sequence_number[t]
        => (t \in r.tree_metric_state <=> t \in ToSet(mrt[m]))

\* Two routers that are Synced with each other, each under the BootTime the
\* other knows, agree on both snapshot SNs.  Without it recv_ack would refuse
\* every Ack of the neighbor and the neighbor would finally be declared failed.
SyncedPairsAgree ==
  \A n, m \in Routers :
    LET r == nbr[n][m]
        q == nbr[m][n]
    IN  /\ r.state = "Synced" /\ q.state = "Synced"
        /\ r.time_of_boot = q.my_snapshot_boot_time
        /\ q.time_of_boot = r.my_snapshot_boot_time
        => /\ r.neighbor_snapshot_sn = q.my_snapshot_sequencer
           /\ q.neighbor_snapshot_sn = r.my_snapshot_sequencer

\* Once restarts, expired timers and tree changes are over, every router ends
\* up Synced with every other and knows its trees: no combination of roles,
\* stale Syncs and resets leaves two routers waiting on each other.
EventuallyConsistent ==
  \A n, m \in Routers :
    n # m => <>[](/\ nbr[n][m].state = "Synced"
                  /\ nbr[n][m].tree_metric_state = ToSet(mrt[m]))
=============================================================================
