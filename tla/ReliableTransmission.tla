----------------------- MODULE ReliableTransmission -----------------------
(***************************************************************************)
(* The reliable transmission of sequenced messages, on top of NeighborSync:*)
(* Acks, retransmission, failed neighbors, the CheckpointSN of Hellos, and *)
(* the snapshots that count as Acks (ReliableMsgTransmission.py, with its  *)
(* callers in InterfaceHPIM.py and Neighbor.py).                           *)
(*                                                                         *)
(* IamUpstream and IamNoLongerUpstream are multicast to all neighbors;     *)
(* Interest and NoInterest go to one neighbor that is UPSTREAM.  Which of  *)
(* the two latter was sent plays no role here: a message is its number.    *)
(*                                                                         *)
(* A packet may be received at any time after it was sent, so that sending *)
(* it again changes nothing but the counts of missed Acks.                 *)
(***************************************************************************)
EXTENDS NeighborSync

CONSTANT AckFailureThreshold  \* ACK_FAILURE_THRESHOLD

ASSUME ThresholdAssumption == AckFailureThreshold \in Nat \ {0}

VARIABLES
  buffer,        \* buffer[n][t]: n's ReliableMessageTransmission for tree t
  interests,     \* every Interest or NoInterest sent so far
  acks,          \* every Ack sent so far
  hellos,        \* every Hello with a CheckpointSN that may be under way
  checkpoint_sn, \* checkpoint_sn[n][m]: of n's Neighbor object for m
  delivered      \* history: delivered[n][m][t] is the SN of the last message
                 \* of m about t that n's object for m passed on

transmission == <<buffer, interests, acks, hellos, checkpoint_sn, delivered>>
allVars == <<vars, transmission>>

-----------------------------------------------------------------------------
(* Types *)

Outstanding == [boot : Nat, sn : Nat]

Buffer ==
  [multicast : Outstanding, unicast : [Routers -> Outstanding],
   neighbors_that_acked : SUBSET Routers, failed_acks : [Routers -> Nat]]

InterestMsgs ==
  [type : {"Interest"}, src : Routers, dst : Routers, boot : Nat, sn : Nat, tree : Trees]

AckMsgs ==
  [type : {"Ack"}, src : Routers, dst : Routers, boot : Nat, neighbor_boot_time : Nat,
   my_snapshot_sn : Nat, neighbor_snapshot_sn : Nat, sn : Nat, tree : Trees]

CheckpointMsgs == [type : {"Hello"}, src : Routers, boot : Nat, checkpoint_sn : Nat]

TransmissionTypeOK ==
  /\ TypeOK
  /\ buffer \in [Routers -> [Trees -> Buffer]]
  /\ interests \subseteq InterestMsgs
  /\ acks \subseteq AckMsgs
  /\ hellos \subseteq CheckpointMsgs
  /\ checkpoint_sn \in [Routers -> [Routers -> Nat]]
  /\ delivered \in [Routers -> [Routers -> [Trees -> Nat]]]

-----------------------------------------------------------------------------
(* One ReliableMessageTransmission *)

Nothing == [boot |-> 0, sn |-> 0]

\* cancel_all_messages; also a new buffer.
NoMessages ==
  [multicast |-> Nothing, unicast |-> [m \in Routers |-> Nothing],
   neighbors_that_acked |-> {}, failed_acks |-> [m \in Routers |-> 0]]

IsOutstanding(b) ==
  b.multicast # Nothing \/ \E m \in Routers : b.unicast[m] # Nothing

\* cancel_messsage_multicast: counts remain for outstanding unicast messages.
CancelMulticast(b) ==
  [b EXCEPT !.multicast = Nothing, !.neighbors_that_acked = {},
            !.failed_acks = [m \in Routers |-> IF b.unicast[m] = Nothing THEN 0 ELSE @[m]]]

CancelUnicast(b, m) == [b EXCEPT !.unicast[m] = Nothing, !.failed_acks[m] = 0]

\* Whether an Ack or a snapshot <bt; sn> acknowledges msg.
Covers(bt, sn, msg) == bt > msg.boot \/ (bt = msg.boot /\ sn >= msg.sn)

\* did_all_neighbors_acked
AllAcked(b, neighbors) == neighbors \subseteq b.neighbors_that_acked

\* receive_ack, for the neighbors known at that moment.
AckedBy(b, m, bt, sn, neighbors) ==
  LET noted == [b EXCEPT !.neighbors_that_acked = @ \cup {m}]
      b1 == IF b.multicast # Nothing /\ Covers(bt, sn, b.multicast)
            THEN IF AllAcked(noted, neighbors) THEN CancelMulticast(noted) ELSE noted
            ELSE b
  IN  IF b.unicast[m] # Nothing /\ Covers(bt, sn, b.unicast[m])
      THEN CancelUnicast(b1, m) ELSE b1

Neighbors(n) == {m \in Routers : nbr[n][m].state # "Absent"}

\* The message that get_sequence_number numbers for n.
NewMessage(n) == [boot |-> NextBootTime(n), sn |-> NextSequenceNumber(n)]

\* n's buffers once it has a new number: a new BootTime clears them all.
Renumbered(n) == IF Wraps(n) THEN [t \in Trees |-> NoMessages] ELSE buffer[n]

-----------------------------------------------------------------------------
(* Adjacencies: what resets and snapshots do to buffers and checkpoints *)

ForgetNumbers(n, m) ==
  /\ checkpoint_sn' = [checkpoint_sn EXCEPT ![n][m] = 0]
  /\ delivered' = [delivered EXCEPT ![n][m] = [t \in Trees |-> 0]]

\* neighbor_start_synchronization: all that n sent before its new snapshot for m
\* counts as acknowledged by m, which is in n's table by now.
SnapshotAcks(n, m) ==
  buffer' = [buffer EXCEPT ![n] =
    [t \in Trees |-> AckedBy(Renumbered(n)[t], m, NextBootTime(n),
                             NextSequenceNumber(n), Neighbors(n) \cup {m})]]

\* The part of a step of NeighborSync between n and m that happens in the
\* objects of this module.
AdjacencyStep(n, m) ==
  /\ IF sequencer'[n] # sequencer[n]
     THEN SnapshotAcks(n, m) ELSE UNCHANGED buffer
  /\ IF sequencer'[n] # sequencer[n] \/ nbr'[n][m].state = "Absent"
     THEN ForgetNumbers(n, m) ELSE UNCHANGED <<checkpoint_sn, delivered>>
  /\ UNCHANGED <<interests, acks>>

Synchronize(n, m) ==
  /\ \/ ReceiveSyncUnknown(n, m)
     \/ ReceiveSyncReset(n, m)
     \/ ReceiveSyncSlave(n, m)
     \/ ReceiveSyncMaster(n, m)
     \/ ReceiveHello(n, m)
     \/ SyncTimeout(n, m)
     \/ RemoveNeighbor(n, m)
  /\ AdjacencyStep(n, m)

RestartInterface(n, farewell) ==
  /\ Restart(n, farewell)
  /\ buffer' = [buffer EXCEPT ![n] = [t \in Trees |-> NoMessages]]
  /\ checkpoint_sn' = [checkpoint_sn EXCEPT ![n] = [m \in Routers |-> 0]]
  /\ delivered' = [delivered EXCEPT ![n] = [m \in Routers |-> [t \in Trees |-> 0]]]
  /\ UNCHANGED <<interests, acks>>

-----------------------------------------------------------------------------
(* Sending *)

\* send_i_am_upstream, send_i_am_no_longer_upstream: whatever was outstanding
\* about t is superseded.
Announce(n, t) ==
  /\ BecomeUpstream(n, t) \/ StopUpstream(n, t)
  /\ buffer' = [buffer EXCEPT ![n] =
       [Renumbered(n) EXCEPT ![t] = [NoMessages EXCEPT !.multicast = NewMessage(n)]]]
  /\ UNCHANGED <<interests, acks, checkpoint_sn, delivered>>

\* send_interest, send_no_interest, from the root interface to the neighbor m
\* that it knows as UPSTREAM.  m need not acknowledge an outstanding multicast.
SendInterest(n, m, t) ==
  LET b == CancelUnicast(Renumbered(n)[t], m)
  IN  /\ t \notin ToSet(mrt[n])
      /\ nbr[n][m].state = "Synced" /\ t \in nbr[n][m].tree_metric_state
      /\ sequencer[n] < MaxUpdateSN
      /\ GetSequenceNumber(n)
      /\ interests' = interests \cup
           {[type |-> "Interest", src |-> n, dst |-> m, boot |-> NextBootTime(n),
             sn |-> NextSequenceNumber(n), tree |-> t]}
      /\ buffer' = [buffer EXCEPT ![n] = [Renumbered(n) EXCEPT ![t] =
           [b EXCEPT !.unicast[m] = NewMessage(n),
                     !.neighbors_that_acked =
                        IF b.multicast # Nothing THEN @ \cup {m} ELSE @]]]
      /\ UNCHANGED <<mrt, nbr, msgs, snapshots, faults, acks, checkpoint_sn, delivered>>

-----------------------------------------------------------------------------
(* Receiving *)

\* The sequenced messages of m that may reach n.
SequencedFrom(n, m) ==
  {p \in msgs : p.type = "Upstream" /\ p.src = m}
    \cup {p \in interests : p.src = m /\ p.dst = n}

\* recv_reliable_packet: p is new or the last message again, and neither the
\* snapshot nor a checkpoint covers it.
IsAcknowledged(r, checkpoint, p) ==
  /\ r.current_sync_sn > 0
  /\ p.sn > r.neighbor_snapshot_sn
  /\ p.sn > checkpoint
  /\ p.sn >= r.last_sequence_number[p.tree]

Ack(n, m, r, p) ==
  [type |-> "Ack", src |-> n, dst |-> m, boot |-> boot[n], neighbor_boot_time |-> p.boot,
   my_snapshot_sn |-> r.my_snapshot_sequencer,
   neighbor_snapshot_sn |-> r.neighbor_snapshot_sn, sn |-> p.sn, tree |-> p.tree]

\* An Interest or NoInterest says, too, that its sender is not UPSTREAM.
Deliver(n, m, r, p) ==
  LET isUpstream == p.type = "Upstream" /\ p.upstream
  IN  /\ SetNeighbor(n, m,
           [r EXCEPT !.last_sequence_number[p.tree] = p.sn,
                     !.tree_metric_state =
                        IF isUpstream THEN @ \cup {p.tree} ELSE @ \ {p.tree}])
      /\ delivered' = [delivered EXCEPT ![n][m][p.tree] = p.sn]

ReceiveSequenced(n, m) ==
  LET r == nbr[n][m]
  IN  /\ m # n
      /\ \E p \in SequencedFrom(n, m) :
           \/ /\ r.state = "Absent" \/ p.boot > r.time_of_boot
              /\ AdjacencyReset(n, m, p.boot)
              /\ AdjacencyStep(n, m)
           \/ /\ r.state # "Absent" /\ p.boot = r.time_of_boot
              /\ IsAcknowledged(r, checkpoint_sn[n][m], p)
              /\ acks' = acks \cup {Ack(n, m, r, p)}
              /\ IF p.sn > r.last_sequence_number[p.tree]
                 THEN Deliver(n, m, r, p) ELSE UNCHANGED <<nbr, delivered>>
              /\ UNCHANGED <<boot, sequencer, msgs, snapshots,
                             buffer, interests, checkpoint_sn>>
      /\ UNCHANGED <<mrt, faults>>

\* recv_ack: both sides speak of the same pair of snapshots.
MatchesSnapshots_BootOnly(r, p) ==
  /\ r.current_sync_sn > 0
  /\ p.boot = r.time_of_boot /\ p.neighbor_boot_time = r.my_snapshot_boot_time
MatchesSnapshots(r, p) ==
  /\ r.current_sync_sn > 0
  /\ p.boot = r.time_of_boot /\ p.neighbor_boot_time = r.my_snapshot_boot_time
  /\ p.my_snapshot_sn = r.neighbor_snapshot_sn
  /\ p.neighbor_snapshot_sn = r.my_snapshot_sequencer

ReceiveAck(n, m) ==
  LET r == nbr[n][m]
  IN  /\ \E p \in acks :
           /\ p.src = m /\ p.dst = n
           /\ \/ /\ r.state = "Absent" \/ p.boot > r.time_of_boot
                 /\ AdjacencyReset(n, m, p.boot)
                 /\ AdjacencyStep(n, m)
              \/ /\ r.state # "Absent" /\ MatchesSnapshots(r, p)
                 /\ buffer' = [buffer EXCEPT ![n][p.tree] =
                      AckedBy(@, m, p.neighbor_boot_time, p.sn, Neighbors(n))]
                 /\ UNCHANGED <<boot, sequencer, nbr, msgs, snapshots,
                                interests, acks, checkpoint_sn, delivered>>
      /\ UNCHANGED <<mrt, faults>>

-----------------------------------------------------------------------------
(* Retransmission *)

\* The neighbors that owe n an Ack of an outstanding message of b.
Owing(n, b) ==
  {m \in Neighbors(n) : \/ b.multicast # Nothing /\ m \notin b.neighbors_that_acked
                        \/ b.unicast[m] # Nothing}

\* The messages that are still outstanding when the timer has rechecked who is
\* a neighbor and who has acknowledged.
RecheckedMulticast(n, b) ==
  IF b.multicast # Nothing /\ AllAcked(b, Neighbors(n)) THEN CancelMulticast(b) ELSE b

Rechecked_MulticastOnly(n, b) == RecheckedMulticast(n, b)
Rechecked(n, b) ==
  LET b1 == RecheckedMulticast(n, b)
      gone == {m \in Routers \ Neighbors(n) : b.unicast[m] # Nothing}
  IN  [b1 EXCEPT !.unicast = [m \in Routers |-> IF m \in gone THEN Nothing ELSE @[m]],
                 !.failed_acks = [m \in Routers |-> IF m \in gone THEN 0 ELSE @[m]]]

\* retransmission_timeout.  A neighbor that misses too many Acks is declared
\* failed (force_neighbor_failure); MaxFaults bounds how often.  The trees that
\* change when it goes are rechecked by actions of their own.
Failed(count) == count > AckFailureThreshold

RetransmissionTimeout(n, t) ==
  LET b == Rechecked(n, buffer[n][t])
      missed == [m \in Routers |-> b.failed_acks[m] + (IF m \in Owing(n, b) THEN 1 ELSE 0)]
      failed == {m \in Routers : Failed(missed[m])}
  IN  /\ IsOutstanding(buffer[n][t])
      /\ IF failed = {} THEN UNCHANGED faults
         ELSE faults < MaxFaults /\ faults' = faults + 1
      /\ buffer' = [buffer EXCEPT ![n][t] =
           [b EXCEPT !.failed_acks = [m \in Routers |-> IF m \in failed THEN 0 ELSE missed[m]]]]
      /\ nbr' = [nbr EXCEPT ![n] = [m \in Routers |-> IF m \in failed THEN NoNeighbor ELSE @[m]]]
      /\ checkpoint_sn' = [checkpoint_sn EXCEPT ![n] =
           [m \in Routers |-> IF m \in failed THEN 0 ELSE @[m]]]
      /\ delivered' = [delivered EXCEPT ![n] =
           [m \in Routers |-> IF m \in failed THEN [u \in Trees |-> 0] ELSE @[m]]]
      /\ UNCHANGED <<boot, sequencer, mrt, msgs, snapshots, interests, acks>>

-----------------------------------------------------------------------------
(* CheckpointSN *)

\* ReliableMessageTransmission.get_sequence_number: the last number before each
\* outstanding message of a buffer.
CheckpointsOf_NotLess(n, b) ==
  {msg.sn : msg \in {x \in {b.multicast} \cup {b.unicast[m] : m \in Routers} :
                           x # Nothing /\ x.boot = boot[n]}}
CheckpointsOf(n, b) ==
  {msg.sn - 1 : msg \in {x \in {b.multicast} \cup {b.unicast[m] : m \in Routers} :
                           x # Nothing /\ x.boot = boot[n]}}

\* get_checkpoint_sn
CheckpointSN_Less(n) ==
  Min({sequencer[n]} \cup UNION {CheckpointsOf_NotLess(n, buffer[n][t]) : t \in Trees}) - 1
CheckpointSN(n) ==
  Min({sequencer[n]} \cup UNION {CheckpointsOf(n, buffer[n][t]) : t \in Trees})

\* send_hello.  Hellos are sent periodically, so one with the CheckpointSN of any
\* moment may be under way.
CheckpointHello(n) ==
  [type |-> "Hello", src |-> n, boot |-> boot[n], checkpoint_sn |-> CheckpointSN(n)]

SendHellos == hellos' = hellos \cup {CheckpointHello(n)' : n \in Routers}

\* set_checkpoint_sn, by a Hello of a Synced neighbor: the numbers up to the
\* checkpoint are not needed any more.
Forgotten(last, checkpoint) == IF last <= checkpoint THEN 0 ELSE last

ReceiveCheckpoint(n, m) ==
  LET r == nbr[n][m]
  IN  /\ r.state = "Synced"
      /\ \E p \in hellos :
           /\ p.src = m /\ p.boot = r.time_of_boot
           /\ p.checkpoint_sn > checkpoint_sn[n][m]
           /\ checkpoint_sn' = [checkpoint_sn EXCEPT ![n][m] = p.checkpoint_sn]
           /\ SetNeighbor(n, m, [r EXCEPT !.last_sequence_number =
                [t \in Trees |-> Forgotten(@[t], p.checkpoint_sn)]])
      /\ UNCHANGED <<boot, sequencer, mrt, msgs, snapshots, faults,
                     buffer, interests, acks, delivered>>

-----------------------------------------------------------------------------
TransmissionInit ==
  /\ Init
  /\ buffer = [n \in Routers |-> [t \in Trees |-> NoMessages]]
  /\ interests = {} /\ acks = {}
  /\ hellos = {CheckpointHello(n) : n \in Routers}
  /\ checkpoint_sn = [n \in Routers |-> [m \in Routers |-> 0]]
  /\ delivered = [n \in Routers |-> [m \in Routers |-> [t \in Trees |-> 0]]]

\* What the routers of a set do among themselves.
TransmissionStep(routers) ==
  \/ \E n, m \in routers :
       \/ Synchronize(n, m)
       \/ ReceiveSequenced(n, m)
       \/ ReceiveAck(n, m)
       \/ ReceiveCheckpoint(n, m)
       \/ \E t \in Trees : SendInterest(n, m, t)
  \/ \E n \in routers :
       \/ \E t \in Trees : Announce(n, t) \/ RetransmissionTimeout(n, t)
       \/ \E farewell \in BOOLEAN : RestartInterface(n, farewell)

TransmissionNext == TransmissionStep(Routers) /\ SendHellos

TransmissionSpec == TransmissionInit /\ [][TransmissionNext]_allVars

\* The retransmission timer is set again as long as a message is outstanding.
\* Nothing is assumed of the neighbors or of the channel.
TransmissionFairness ==
  \A n \in Routers : \A t \in Trees : WF_allVars(RetransmissionTimeout(n, t) /\ SendHellos)

TransmissionFairSpec == TransmissionSpec /\ TransmissionFairness

-----------------------------------------------------------------------------
(* What reliable transmission promises *)

\* n's table for m is of m's present snapshot for n.
HoldsPresentSnapshot(n, m) ==
  LET r == nbr[n][m]
      q == nbr[m][n]
  IN  /\ n # m /\ r.state = "Synced" /\ q.state # "Absent"
      /\ r.time_of_boot = boot[m] /\ q.my_snapshot_boot_time = boot[m]
      /\ r.neighbor_snapshot_sn = q.my_snapshot_sequencer

\* The number of the last message of m's present BootTime about t, for n.
LastSent(n, m, t) ==
  Max({0} \cup {p.sn : p \in {x \in SequencedFrom(n, m) : x.tree = t /\ x.boot = boot[m]}})

\* n has been passed the last word of m about t, or has it from the snapshot.
IsUpToDate(n, m, t) ==
  /\ \/ LastSent(n, m, t) <= nbr[n][m].neighbor_snapshot_sn
     \/ delivered[n][m][t] = LastSent(n, m, t)
  /\ t \in nbr[n][m].tree_metric_state <=> t \in ToSet(mrt[m])

\* When m no longer waits for an Ack of n about t, n knows all that m said about
\* t: no Ack, snapshot, removal or superseding message makes m stop before
\* (receive_ack, neighbor_start_synchronization, cancel_*), and n's filter
\* drops nothing but repetitions, even after a checkpoint has made it forget.
SettledIsKnown ==
  \A n, m \in Routers : \A t \in Trees :
    HoldsPresentSnapshot(n, m) /\ n \notin Owing(m, buffer[m][t]) => IsUpToDate(n, m, t)

\* A CheckpointSN received from m hides from n no message that is still news
\* (get_checkpoint_sn, set_checkpoint_sn).
CheckpointHidesNoNews ==
  \A n, m \in Routers : \A t \in Trees :
    HoldsPresentSnapshot(n, m) /\ LastSent(n, m, t) <= checkpoint_sn[n][m]
      => IsUpToDate(n, m, t)

\* Whatever the neighbors do, no message is retransmitted for ever: who does not
\* acknowledge is declared failed and not waited for (retransmission_timeout).
NothingOutstandingForEver ==
  \A n \in Routers : \A t \in Trees : []<>~IsOutstanding(buffer[n][t])
=============================================================================
