------------------------ MODULE NeighborSyncProofs ------------------------
(***************************************************************************)
(* Proofs about NeighborSync, for any routers, trees, fragmentation and    *)
(* bounds:                                                                 *)
(*                                                                         *)
(*   - type correctness;                                                   *)
(*   - a router that is Synced with a neighbor holds exactly one snapshot  *)
(*     of it, corrected by the sequenced messages that came after;         *)
(*   - as soon as none of these is still to be received, it knows of which *)
(*     trees the neighbor is UPSTREAM now;                                 *)
(*   - two routers that are Synced with each other agree on both snapshot  *)
(*     SNs.                                                                *)
(*                                                                         *)
(* The predicates about one object or one packet take the messages M and   *)
(* the snapshots S as parameters: they are used for the state before and   *)
(* after a step, and they only gain from larger M and S.                   *)
(***************************************************************************)
EXTENDS NeighborSync, TLAPS

-----------------------------------------------------------------------------
(* Type correctness *)

\* A router whose object says Master has answered at least one Sync, so the
\* slice that Master.sync_timer_expires sends again exists (it never slices
\* the table at index -1).
MasterHasAnswered ==
  \A n, m \in Routers :
    nbr[n][m].state = "Master" => nbr[n][m].current_sync_sn > 0

\* The type invariant is inductive together with the fact that a Master has
\* answered a Sync, since its timer sends slice current_sync_sn - 1.
TypeInv == TypeOK /\ MasterHasAnswered

\* A received packet has the type of its kind.
LEMMA PacketTypes ==
  ASSUME TypeOK, NEW p \in msgs
  PROVE  /\ p.type = "Sync" => p \in SyncMsgs
         /\ p.type = "Upstream" => p \in UpstreamMsgs
         /\ p.type = "Hello" => p \in HelloMsgs
<1>1. p \in HelloMsgs \/ p \in SyncMsgs \/ p \in UpstreamMsgs
  BY DEF TypeOK
<1>2. p \in HelloMsgs => p.type = "Hello"
  BY DEF HelloMsgs
<1>3. p \in SyncMsgs => p.type = "Sync"
  BY DEF SyncMsgs
<1>4. p \in UpstreamMsgs => p.type = "Upstream"
  BY DEF UpstreamMsgs
<1> QED
  BY <1>1, <1>2, <1>3, <1>4

\* get_sequence_number yields numbers.
LEMMA SequenceTypes ==
  ASSUME TypeOK, NEW n \in Routers
  PROVE  /\ NextSequenceNumber(n) \in Nat /\ NextBootTime(n) \in Nat
         /\ GetSequenceNumber(n) =>
              boot' \in [Routers -> Nat] /\ sequencer' \in [Routers -> Nat]
<1>1. boot[n] \in Nat /\ sequencer[n] \in Nat
  BY DEF TypeOK
<1>2. NextSequenceNumber(n) \in Nat /\ NextBootTime(n) \in Nat
  BY <1>1 DEF NextSequenceNumber, NextBootTime, Wraps
<1> QED
  BY <1>2 DEF TypeOK, GetSequenceNumber

\* A cleared object is well formed.
LEMMA CleanNeighborType ==
  ASSUME TypeOK, NEW n \in Routers, NEW state \in States, NEW b \in Nat
  PROVE  CleanNeighbor(n, state, b) \in Neighbor
<1>1. mrt[n] \in Seq(Trees)
  BY DEF TypeOK
<1> QED
  BY <1>1, SequenceTypes DEF CleanNeighbor, Neighbor

LEMMA NoNeighborType == NoNeighbor \in Neighbor
<1>1. <<>> \in Seq(Trees)
  OBVIOUS
<1> QED
  BY <1>1 DEF NoNeighbor, Neighbor, States

\* A slice of a table of trees is a set of trees.
LEMMA SliceTypes ==
  ASSUME NEW table \in Seq(Trees), NEW k \in Int
  PROVE  Fragment(table, k) \subseteq Trees /\ MoreBit(table, k) \in BOOLEAN
<1>1. \A i \in DOMAIN table : table[i] \in Trees
  OBVIOUS
<1> QED
  BY <1>1 DEF Fragment, MoreBit

\* A Sync built from a well formed object is well formed.
LEMMA SyncType ==
  ASSUME NEW n \in Routers, NEW m \in Routers, NEW r \in Neighbor,
         NEW k \in Nat, NEW master \in BOOLEAN
  PROVE  Sync(n, m, r, k, master) \in SyncMsgs
<1>1. r.my_snapshot_mrt \in Seq(Trees)
  BY DEF Neighbor
<1>2. /\ Fragment(r.my_snapshot_mrt, k) \subseteq Trees
      /\ MoreBit(r.my_snapshot_mrt, k) \in BOOLEAN
  BY <1>1, SliceTypes
<1> QED
  BY <1>2 DEF Sync, SyncMsgs, Neighbor

LEMMA InstallType ==
  ASSUME NEW r \in Neighbor, NEW trees \in SUBSET Trees
  PROVE  InstallTreeState(r, trees) \in Neighbor
  BY DEF InstallTreeState, Neighbor

LEMMA AdvanceType ==
  ASSUME NEW r \in Neighbor, NEW k \in Nat
  PROVE  /\ [r EXCEPT !.current_sync_sn = k] \in Neighbor
         /\ [r EXCEPT !.current_sync_sn = k].current_sync_sn = k
  BY DEF Neighbor

LEMMA FinishType ==
  ASSUME NEW r \in Neighbor
  PROVE  FinishSync(r) \in Neighbor
<1>1. <<>> \in Seq(Trees)
  OBVIOUS
<1> QED
  BY <1>1 DEF FinishSync, Neighbor, States

\* What remains to be shown of a step once its neighbor object r and its
\* packets are known to be well formed.
LEMMA SetNeighborType ==
  ASSUME TypeInv, NEW n \in Routers, NEW m \in Routers, NEW r \in Neighbor,
         r.state = "Master" => r.current_sync_sn > 0, SetNeighbor(n, m, r)
  PROVE  nbr' \in [Routers -> [Routers -> Neighbor]] /\ MasterHasAnswered'
  BY DEF TypeInv, TypeOK, SetNeighbor, MasterHasAnswered

LEMMA SendType ==
  ASSUME TypeOK, NEW p \in HelloMsgs \cup SyncMsgs \cup UpstreamMsgs, Send({p})
  PROVE  (msgs \subseteq HelloMsgs \cup SyncMsgs \cup UpstreamMsgs)'
  BY DEF TypeOK, Send

LEMMA StartSnapshotType ==
  ASSUME TypeOK, NEW n \in Routers, StartSnapshot(n)
  PROVE  /\ boot' \in [Routers -> Nat] /\ sequencer' \in [Routers -> Nat]
         /\ (snapshots \subseteq Snapshots)'
<1> DEFINE s == [owner |-> n, boot |-> NextBootTime(n),
                 sn |-> NextSequenceNumber(n), trees |-> mrt[n]]
<1>1. mrt[n] \in Seq(Trees)
  BY DEF TypeOK
<1>2. s \in Snapshots
  BY <1>1, SequenceTypes DEF Snapshots
<1>3. GetSequenceNumber(n) /\ snapshots' = snapshots \cup {s}
  BY DEF StartSnapshot
<1> QED
  BY <1>2, <1>3, SequenceTypes DEF TypeOK

LEMMA AdjacencyResetType ==
  ASSUME TypeInv, NEW n \in Routers, NEW m \in Routers, NEW b \in Nat,
         AdjacencyReset(n, m, b), UNCHANGED <<mrt, faults>>
  PROVE  TypeInv'
<1> DEFINE r == CleanNeighbor(n, "Slave", b)
<1>1. TypeOK
  BY DEF TypeInv
<1>2. r \in Neighbor /\ r.state = "Slave"
  <2>1. "Slave" \in States
    BY DEF States
  <2> QED
    BY <1>1, <2>1, CleanNeighborType DEF CleanNeighbor
<1>3. StartSnapshot(n) /\ SetNeighbor(n, m, r) /\ Send({Sync(n, m, r, 0, TRUE)})
  BY DEF AdjacencyReset
<1>4. Sync(n, m, r, 0, TRUE) \in SyncMsgs
  BY <1>2, SyncType
<1>5. nbr' \in [Routers -> [Routers -> Neighbor]] /\ MasterHasAnswered'
  BY <1>2, <1>3, SetNeighborType
<1>6. (msgs \subseteq HelloMsgs \cup SyncMsgs \cup UpstreamMsgs)'
  BY <1>1, <1>3, <1>4, SendType
<1>7. /\ boot' \in [Routers -> Nat] /\ sequencer' \in [Routers -> Nat]
      /\ (snapshots \subseteq Snapshots)'
  BY <1>1, <1>3, StartSnapshotType
<1> QED
  BY <1>1, <1>5, <1>6, <1>7 DEF TypeInv, TypeOK

LEMMA MasterAnswersType ==
  ASSUME TypeInv, NEW n \in Routers, NEW m \in Routers, NEW r \in Neighbor,
         NEW p \in SyncMsgs, MasterAnswers(n, m, r, p)
  PROVE  /\ nbr' \in [Routers -> [Routers -> Neighbor]] /\ MasterHasAnswered'
         /\ (msgs \subseteq HelloMsgs \cup SyncMsgs \cup UpstreamMsgs)'
<1> DEFINE k == r.current_sync_sn
           r1 == InstallTreeState(r, p.trees)
           r2 == [r1 EXCEPT !.current_sync_sn = k + 1]
<1>1. TypeOK
  BY DEF TypeInv
<1>2. k \in Nat /\ p.trees \in SUBSET Trees
  BY DEF Neighbor, SyncMsgs
<1>3. r1 \in Neighbor
  BY <1>2, InstallType
<1>4. r2 \in Neighbor /\ r2.current_sync_sn > 0
  <2>1. k + 1 \in Nat /\ k + 1 > 0
    BY <1>2
  <2> HIDE DEF r1, k
  <2> QED
    BY <2>1, <1>3, AdvanceType
<1>5. FinishSync(r1) \in Neighbor /\ FinishSync(r1).state = "Synced"
  <2>1. FinishSync(r1) \in Neighbor
    BY <1>3, FinishType
  <2> QED
    BY <2>1, <1>3 DEF FinishSync, Neighbor
<1>6. Sync(n, m, r, k, FALSE) \in SyncMsgs
  BY <1>2, SyncType
<1>7. Send({Sync(n, m, r, k, FALSE)})
  BY DEF MasterAnswers
<1>8. SetNeighbor(n, m, FinishSync(r1)) \/ SetNeighbor(n, m, r2)
  BY DEF MasterAnswers
<1>9. nbr' \in [Routers -> [Routers -> Neighbor]] /\ MasterHasAnswered'
  BY <1>4, <1>5, <1>8, SetNeighborType
<1> QED
  BY <1>1, <1>6, <1>7, <1>9, SendType

LEMMA SlaveAdvancesType ==
  ASSUME TypeInv, NEW n \in Routers, NEW m \in Routers, NEW r \in Neighbor,
         NEW p \in SyncMsgs, SlaveAdvances(n, m, r, p)
  PROVE  /\ nbr' \in [Routers -> [Routers -> Neighbor]] /\ MasterHasAnswered'
         /\ (msgs \subseteq HelloMsgs \cup SyncMsgs \cup UpstreamMsgs)'
<1> DEFINE k == r.current_sync_sn
           r0 == [r EXCEPT !.current_sync_sn = k + 1]
           r1 == InstallTreeState(r0, p.trees)
<1>1. TypeOK
  BY DEF TypeInv
<1>2. k \in Nat /\ p.trees \in SUBSET Trees
  BY DEF Neighbor, SyncMsgs
<1>3. r0 \in Neighbor /\ r0.current_sync_sn > 0
  BY <1>2, AdvanceType
<1>4. r1 \in Neighbor /\ r1.current_sync_sn > 0
  <2>1. r1 \in Neighbor
    BY <1>2, <1>3, InstallType
  <2> QED
    BY <2>1, <1>3 DEF InstallTreeState, Neighbor
<1>5. FinishSync(r) \in Neighbor /\ FinishSync(r).state = "Synced"
  <2>1. FinishSync(r) \in Neighbor
    BY FinishType
  <2> QED
    BY <2>1 DEF FinishSync, Neighbor
<1>6. CASE SetNeighbor(n, m, FinishSync(r)) /\ UNCHANGED msgs
  <2>1. nbr' \in [Routers -> [Routers -> Neighbor]] /\ MasterHasAnswered'
    BY <1>5, <1>6, SetNeighborType
  <2> QED
    BY <1>1, <1>6, <2>1 DEF TypeOK
<1>7. CASE SetNeighbor(n, m, r1) /\ Send({Sync(n, m, r1, k + 1, TRUE)})
  <2>1. nbr' \in [Routers -> [Routers -> Neighbor]] /\ MasterHasAnswered'
    BY <1>4, <1>7, SetNeighborType
  <2>2. k + 1 \in Nat
    BY <1>2
  <2>3. Sync(n, m, r1, k + 1, TRUE) \in SyncMsgs
    BY <2>2, <1>4, SyncType
  <2> QED
    BY <1>1, <1>7, <2>1, <2>3, SendType
<1> QED
  BY <1>6, <1>7 DEF SlaveAdvances

\* Adopting the first snapshot SN heard changes nothing else.
LEMMA AdoptedType ==
  ASSUME NEW r \in Neighbor, NEW p \in SyncMsgs
  PROVE  /\ Adopted(r, p) \in Neighbor
         /\ Adopted(r, p).state = r.state
         /\ Adopted(r, p).current_sync_sn = r.current_sync_sn
  BY DEF Adopted, Neighbor, SyncMsgs

\* The state of an object is one of its own kind.
LEMMA NeighborTypes ==
  ASSUME TypeOK, NEW n \in Routers, NEW m \in Routers
  PROVE  /\ nbr[n][m] \in Neighbor
         /\ nbr[n][m].current_sync_sn \in Nat /\ nbr[n][m].time_of_boot \in Nat
  BY DEF TypeOK, Neighbor

LEMMA ReceiveSyncUnknownType ==
  ASSUME TypeInv, NEW n \in Routers, NEW m \in Routers, ReceiveSyncUnknown(n, m)
  PROVE  TypeInv'
<1>1. TypeOK
  BY DEF TypeInv
<1>2. PICK p \in msgs :
        /\ ReceivableSync(n, m, p)
        /\ IF p.sync_sn = 0 /\ p.master
           THEN LET r == [CleanNeighbor(n, "Master", p.boot) EXCEPT
                            !.neighbor_snapshot_sn = p.my_snapshot_sn]
                IN  StartSnapshot(n) /\ MasterAnswers(n, m, r, p)
           ELSE AdjacencyReset(n, m, p.boot)
  BY DEF ReceiveSyncUnknown
<1>3. p \in SyncMsgs /\ p.boot \in Nat /\ p.my_snapshot_sn \in Nat
  BY <1>1, <1>2, PacketTypes DEF ReceivableSync, SyncMsgs
<1>4. UNCHANGED <<mrt, faults>>
  BY DEF ReceiveSyncUnknown
<1> DEFINE c == CleanNeighbor(n, "Master", p.boot)
           r == [c EXCEPT !.neighbor_snapshot_sn = p.my_snapshot_sn]
<1>5. CASE StartSnapshot(n) /\ MasterAnswers(n, m, r, p)
  <2>1. "Master" \in States
    BY DEF States
  <2>2. c \in Neighbor
    BY <1>1, <1>3, <2>1, CleanNeighborType
  <2>3. r \in Neighbor
    BY <1>3, <2>2 DEF Neighbor
  <2>4. /\ nbr' \in [Routers -> [Routers -> Neighbor]] /\ MasterHasAnswered'
        /\ (msgs \subseteq HelloMsgs \cup SyncMsgs \cup UpstreamMsgs)'
    BY <1>3, <1>5, <2>3, MasterAnswersType
  <2>5. /\ boot' \in [Routers -> Nat] /\ sequencer' \in [Routers -> Nat]
        /\ (snapshots \subseteq Snapshots)'
    BY <1>1, <1>5, StartSnapshotType
  <2> QED
    BY <1>1, <1>4, <2>4, <2>5 DEF TypeInv, TypeOK
<1>6. CASE AdjacencyReset(n, m, p.boot)
  BY <1>3, <1>4, <1>6, AdjacencyResetType
<1> QED
  BY <1>2, <1>5, <1>6

LEMMA ReceiveSyncResetType ==
  ASSUME TypeInv, NEW n \in Routers, NEW m \in Routers, ReceiveSyncReset(n, m)
  PROVE  TypeInv'
<1>1. TypeOK
  BY DEF TypeInv
<1>2. PICK p \in msgs :
        /\ ReceivableSync(n, m, p)
        /\ \/ AdjacencyReset(n, m, p.boot)
           \/ AdjacencyReset(n, m, nbr[n][m].time_of_boot)
  BY DEF ReceiveSyncReset
<1>3. p.boot \in Nat /\ nbr[n][m].time_of_boot \in Nat
  BY <1>1, <1>2, PacketTypes, NeighborTypes DEF ReceivableSync, SyncMsgs
<1>4. UNCHANGED <<mrt, faults>>
  BY DEF ReceiveSyncReset
<1> QED
  BY <1>2, <1>3, <1>4, AdjacencyResetType

LEMMA ReceiveSyncSlaveType ==
  ASSUME TypeInv, NEW n \in Routers, NEW m \in Routers, ReceiveSyncSlave(n, m)
  PROVE  TypeInv'
<1>1. TypeOK
  BY DEF TypeInv
<1>2. PICK p \in msgs :
        LET r == Adopted(nbr[n][m], p)
        IN  /\ ReceivableSync(n, m, p)
            /\ \/ MasterAnswers(n, m, [r EXCEPT !.state = "Master"], p)
               \/ SetNeighbor(n, m, r) /\ Send({Sync(n, m, r, 0, TRUE)})
               \/ SlaveAdvances(n, m, r, p)
               \/ SetNeighbor(n, m, r) /\ UNCHANGED msgs
  BY DEF ReceiveSyncSlave, CurrentSync
<1> DEFINE r == Adopted(nbr[n][m], p)
<1>3. p \in SyncMsgs
  BY <1>1, <1>2, PacketTypes DEF ReceivableSync
<1>4. r \in Neighbor /\ r.state = "Slave"
  BY <1>1, <1>3, NeighborTypes, AdoptedType DEF ReceiveSyncSlave
<1>5. UNCHANGED <<boot, sequencer, mrt, snapshots, faults>>
  BY DEF ReceiveSyncSlave
<1>6. SUFFICES /\ nbr' \in [Routers -> [Routers -> Neighbor]] /\ MasterHasAnswered'
               /\ (msgs \subseteq HelloMsgs \cup SyncMsgs \cup UpstreamMsgs)'
  BY <1>1, <1>5 DEF TypeInv, TypeOK
<1> HIDE DEF r
<1>7. CASE MasterAnswers(n, m, [r EXCEPT !.state = "Master"], p)
  <2>1. [r EXCEPT !.state = "Master"] \in Neighbor
    BY <1>4 DEF Neighbor, States
  <2> QED
    BY <1>3, <1>7, <2>1, MasterAnswersType
<1>8. CASE SetNeighbor(n, m, r) /\ Send({Sync(n, m, r, 0, TRUE)})
  <2>1. Sync(n, m, r, 0, TRUE) \in SyncMsgs
    BY <1>4, SyncType
  <2> QED
    BY <1>1, <1>4, <1>8, <2>1, SetNeighborType, SendType
<1>9. CASE SlaveAdvances(n, m, r, p)
  BY <1>3, <1>4, <1>9, SlaveAdvancesType
<1>10. CASE SetNeighbor(n, m, r) /\ UNCHANGED msgs
  <2>1. nbr' \in [Routers -> [Routers -> Neighbor]] /\ MasterHasAnswered'
    BY <1>4, <1>10, SetNeighborType
  <2> QED
    BY <1>1, <1>10, <2>1 DEF TypeOK
<1> QED
  BY <1>2, <1>7, <1>8, <1>9, <1>10 DEF r

LEMMA ReceiveSyncMasterType ==
  ASSUME TypeInv, NEW n \in Routers, NEW m \in Routers, ReceiveSyncMaster(n, m)
  PROVE  TypeInv'
<1>1. TypeOK
  BY DEF TypeInv
<1>2. PICK p \in msgs : ReceivableSync(n, m, p) /\ MasterAnswers(n, m, nbr[n][m], p)
  BY DEF ReceiveSyncMaster, CurrentSync
<1>3. p \in SyncMsgs /\ nbr[n][m] \in Neighbor
  BY <1>1, <1>2, PacketTypes, NeighborTypes DEF ReceivableSync
<1>4. /\ nbr' \in [Routers -> [Routers -> Neighbor]] /\ MasterHasAnswered'
      /\ (msgs \subseteq HelloMsgs \cup SyncMsgs \cup UpstreamMsgs)'
  BY <1>2, <1>3, MasterAnswersType
<1> QED
  BY <1>1, <1>4 DEF ReceiveSyncMaster, TypeInv, TypeOK

LEMMA HelloTypes ==
  ASSUME TypeOK, NEW m \in Routers, NEW p \in Hellos(m)
  PROVE  p.boot \in Nat
<1>1. boot[m] \in Nat
  BY DEF TypeOK
<1>2. CASE p \in [type : {"Hello"}, src : {m}, boot : 1 .. boot[m], removed : {FALSE}]
  BY <1>1, <1>2
<1>3. CASE p \in msgs /\ p.type = "Hello"
  BY <1>3, PacketTypes DEF HelloMsgs
<1> QED
  BY <1>2, <1>3 DEF Hellos

LEMMA ReceiveHelloType ==
  ASSUME TypeInv, NEW n \in Routers, NEW m \in Routers, ReceiveHello(n, m)
  PROVE  TypeInv'
<1>1. TypeOK
  BY DEF TypeInv
<1>2. PICK p \in Hellos(m) :
        \/ AdjacencyReset(n, m, p.boot)
        \/ /\ SetNeighbor(n, m, NoNeighbor)
           /\ UNCHANGED <<boot, sequencer, msgs, snapshots>>
  BY DEF ReceiveHello
<1>3. UNCHANGED <<mrt, faults>>
  BY DEF ReceiveHello
<1>4. p.boot \in Nat
  BY <1>1, HelloTypes
<1>5. CASE AdjacencyReset(n, m, p.boot)
  BY <1>3, <1>4, <1>5, AdjacencyResetType
<1>6. CASE /\ SetNeighbor(n, m, NoNeighbor)
           /\ UNCHANGED <<boot, sequencer, msgs, snapshots>>
  <2>1. nbr' \in [Routers -> [Routers -> Neighbor]] /\ MasterHasAnswered'
    BY <1>6, NoNeighborType, SetNeighborType DEF NoNeighbor
  <2> QED
    BY <1>1, <1>3, <1>6, <2>1 DEF TypeInv, TypeOK
<1> QED
  BY <1>2, <1>5, <1>6

LEMMA ReceiveUpstreamType ==
  ASSUME TypeInv, NEW n \in Routers, NEW m \in Routers, ReceiveUpstream(n, m)
  PROVE  TypeInv'
<1>1. TypeOK
  BY DEF TypeInv
<1> DEFINE r == nbr[n][m]
           Updated(p) ==
             [r EXCEPT !.last_sequence_number[p.tree] = p.sn,
                       !.tree_metric_state = IF p.upstream THEN @ \cup {p.tree}
                                             ELSE @ \ {p.tree}]
<1>2. PICK p \in msgs :
        /\ p.type = "Upstream"
        /\ \/ AdjacencyReset(n, m, p.boot)
           \/ /\ IsNews(r, p) /\ SetNeighbor(n, m, Updated(p))
              /\ UNCHANGED <<boot, sequencer, msgs, snapshots>>
  BY DEF ReceiveUpstream
<1>3. p \in UpstreamMsgs /\ p.boot \in Nat
  BY <1>1, <1>2, PacketTypes DEF UpstreamMsgs
<1>4. UNCHANGED <<mrt, faults>>
  BY DEF ReceiveUpstream
<1>5. CASE AdjacencyReset(n, m, p.boot)
  BY <1>3, <1>4, <1>5, AdjacencyResetType
<1>6. CASE /\ IsNews(r, p) /\ SetNeighbor(n, m, Updated(p))
           /\ UNCHANGED <<boot, sequencer, msgs, snapshots>>
  <2>1. r \in Neighbor /\ r.current_sync_sn > 0
    BY <1>1, <1>6, NeighborTypes DEF IsNews
  <2>2. Updated(p) \in Neighbor /\ Updated(p).current_sync_sn > 0
    BY <1>3, <2>1 DEF Neighbor, UpstreamMsgs
  <2>3. nbr' \in [Routers -> [Routers -> Neighbor]] /\ MasterHasAnswered'
    BY <1>6, <2>2, SetNeighborType
  <2> QED
    BY <1>1, <1>4, <1>6, <2>3 DEF TypeInv, TypeOK
<1> QED
  BY <1>2, <1>5, <1>6

LEMMA RetransmittedType ==
  ASSUME TypeInv, NEW n \in Routers, NEW m \in Routers,
         nbr[n][m].state \in {"Slave", "Master"}
  PROVE  RetransmittedSN(nbr[n][m].state, nbr[n][m]) \in Nat
<1>1. nbr[n][m].current_sync_sn \in Nat
  BY NeighborTypes DEF TypeInv
<1>2. nbr[n][m].state = "Master" => nbr[n][m].current_sync_sn > 0
  BY DEF TypeInv, MasterHasAnswered
<1> QED
  BY <1>1, <1>2 DEF RetransmittedSN

LEMMA SyncTimeoutType ==
  ASSUME TypeInv, NEW n \in Routers, NEW m \in Routers, SyncTimeout(n, m)
  PROVE  TypeInv'
<1> DEFINE r == nbr[n][m]
           k == RetransmittedSN(r.state, r)
<1>1. TypeOK
  BY DEF TypeInv
<1>2. Send({Sync(n, m, r, k, r.state = "Slave")}) /\ k \in Nat
  BY RetransmittedType DEF SyncTimeout
<1>3. UNCHANGED <<boot, sequencer, mrt, nbr, snapshots, faults>>
  BY DEF SyncTimeout
<1>4. r \in Neighbor /\ (r.state = "Slave") \in BOOLEAN
  BY <1>1, NeighborTypes
<1> HIDE DEF k, r
<1>5. Sync(n, m, r, k, r.state = "Slave") \in SyncMsgs
  BY <1>2, <1>4, SyncType
<1>6. (msgs \subseteq HelloMsgs \cup SyncMsgs \cup UpstreamMsgs)'
  BY <1>1, <1>2, <1>5, SendType
<1> QED
  BY <1>1, <1>3, <1>6 DEF TypeInv, TypeOK, MasterHasAnswered

LEMMA RemoveNeighborType ==
  ASSUME TypeInv, NEW n \in Routers, NEW m \in Routers, RemoveNeighbor(n, m)
  PROVE  TypeInv'
<1>1. nbr' \in [Routers -> [Routers -> Neighbor]] /\ MasterHasAnswered'
  BY NoNeighborType, SetNeighborType DEF NoNeighbor, RemoveNeighbor
<1> QED
  BY <1>1 DEF RemoveNeighbor, TypeInv, TypeOK

\* Appending a tree to the enumeration, or removing one, keeps it a sequence.
LEMMA TableTypes ==
  ASSUME NEW table \in Seq(Trees)
  PROVE  /\ \A t \in Trees : Append(table, t) \in Seq(Trees)
         /\ \A i \in DOMAIN table : RemoveAt(table, i) \in Seq(Trees)
<1>1. \A t \in Trees : Append(table, t) \in Seq(Trees)
  OBVIOUS
<1>2. ASSUME NEW i \in DOMAIN table
      PROVE  RemoveAt(table, i) \in Seq(Trees)
  <2>1. i \in 1 .. Len(table) /\ Len(table) \in Nat
    OBVIOUS
  <2>2. SubSeq(table, 1, i - 1) \in Seq(Trees)
    BY <2>1
  <2>3. SubSeq(table, i + 1, Len(table)) \in Seq(Trees)
    BY <2>1
  <2> QED
    BY <2>2, <2>3 DEF RemoveAt
<1> QED
  BY <1>1, <1>2

LEMMA SendUpstreamType ==
  ASSUME TypeInv, NEW n \in Routers, NEW t \in Trees, NEW upstream \in BOOLEAN,
         SendUpstream(n, t, upstream), mrt' \in [Routers -> Seq(Trees)]
  PROVE  TypeInv'
<1> DEFINE p == [type |-> "Upstream", src |-> n, boot |-> NextBootTime(n),
                 sn |-> NextSequenceNumber(n), tree |-> t, upstream |-> upstream]
<1>1. TypeOK
  BY DEF TypeInv
<1>2. GetSequenceNumber(n) /\ Send({p}) /\ UNCHANGED <<nbr, snapshots, faults>>
  BY DEF SendUpstream
<1>3. p \in UpstreamMsgs
  BY <1>1, SequenceTypes DEF UpstreamMsgs
<1>4. (msgs \subseteq HelloMsgs \cup SyncMsgs \cup UpstreamMsgs)'
  BY <1>1, <1>2, <1>3, SendType
<1>5. boot' \in [Routers -> Nat] /\ sequencer' \in [Routers -> Nat]
  BY <1>1, <1>2, SequenceTypes
<1> QED
  BY <1>1, <1>2, <1>4, <1>5 DEF TypeInv, TypeOK, MasterHasAnswered

LEMMA BecomeUpstreamType ==
  ASSUME TypeInv, NEW n \in Routers, NEW t \in Trees, BecomeUpstream(n, t)
  PROVE  TypeInv'
<1>1. mrt \in [Routers -> Seq(Trees)] /\ mrt[n] \in Seq(Trees)
  BY DEF TypeInv, TypeOK
<1>2. Append(mrt[n], t) \in Seq(Trees)
  BY <1>1, TableTypes
<1>3. mrt' = [mrt EXCEPT ![n] = Append(@, t)] /\ SendUpstream(n, t, TRUE)
  BY DEF BecomeUpstream
<1>4. mrt' \in [Routers -> Seq(Trees)]
  BY <1>1, <1>2, <1>3
<1> QED
  BY <1>3, <1>4, SendUpstreamType

LEMMA StopUpstreamType ==
  ASSUME TypeInv, NEW n \in Routers, NEW t \in Trees, StopUpstream(n, t)
  PROVE  TypeInv'
<1>1. mrt \in [Routers -> Seq(Trees)] /\ mrt[n] \in Seq(Trees)
  BY DEF TypeInv, TypeOK
<1>2. PICK i \in DOMAIN mrt[n] : mrt' = [mrt EXCEPT ![n] = RemoveAt(@, i)]
  BY DEF StopUpstream
<1>3. RemoveAt(mrt[n], i) \in Seq(Trees)
  BY <1>1, TableTypes
<1>4. mrt' \in [Routers -> Seq(Trees)]
  BY <1>1, <1>2, <1>3
<1> QED
  BY <1>4, SendUpstreamType DEF StopUpstream

LEMMA RestartType ==
  ASSUME TypeInv, NEW n \in Routers, NEW farewell \in BOOLEAN, Restart(n, farewell)
  PROVE  TypeInv'
<1>1. TypeOK /\ boot[n] \in Nat /\ faults \in Nat
  BY DEF TypeInv, TypeOK
<1>2. <<>> \in Seq(Trees)
  OBVIOUS
<1>3. nbr' \in [Routers -> [Routers -> Neighbor]] /\ MasterHasAnswered'
  BY <1>1, NoNeighborType DEF TypeInv, TypeOK, Restart, MasterHasAnswered, NoNeighbor
<1>4. Farewell(n) \in HelloMsgs
  BY <1>1 DEF Farewell, HelloMsgs
<1>5. (msgs \subseteq HelloMsgs \cup SyncMsgs \cup UpstreamMsgs)'
  BY <1>1, <1>4 DEF TypeOK, Restart, Send
<1>6. /\ boot' \in [Routers -> Nat] /\ sequencer' \in [Routers -> Nat]
      /\ mrt' \in [Routers -> Seq(Trees)] /\ (snapshots \subseteq Snapshots)'
      /\ faults' \in Nat
  BY <1>1, <1>2 DEF TypeOK, Restart
<1> QED
  BY <1>3, <1>5, <1>6 DEF TypeInv, TypeOK

\* TypeInv is an inductive invariant.
LEMMA TypeInvInit == Init => TypeInv
<1> SUFFICES ASSUME Init PROVE TypeInv
  OBVIOUS
<1>1. /\ \A n, m \in Routers : nbr[n][m] = NoNeighbor
      /\ nbr \in [Routers -> [Routers -> Neighbor]]
  BY NoNeighborType DEF Init
<1>2. NoNeighbor.state = "Absent"
  BY DEF NoNeighbor
<1>3. mrt \in [Routers -> Seq(Trees)]
  <2>1. <<>> \in Seq(Trees)
    OBVIOUS
  <2> QED
    BY <2>1 DEF Init
<1>4. /\ boot \in [Routers -> Nat] /\ sequencer \in [Routers -> Nat]
      /\ msgs \subseteq HelloMsgs \cup SyncMsgs \cup UpstreamMsgs
      /\ snapshots \subseteq Snapshots /\ faults \in Nat
  BY DEF Init
<1> QED
  BY <1>1, <1>2, <1>3, <1>4 DEF TypeInv, TypeOK, MasterHasAnswered

LEMMA TypeInvNext == TypeInv /\ [Next]_vars => TypeInv'
<1> SUFFICES ASSUME TypeInv, [Next]_vars PROVE TypeInv'
  OBVIOUS
<1>1. ASSUME NEW n \in Routers, NEW m \in Routers, Receive(n, m)
      PROVE  TypeInv'
  BY <1>1, ReceiveSyncUnknownType, ReceiveSyncResetType, ReceiveSyncSlaveType,
     ReceiveSyncMasterType, ReceiveHelloType, ReceiveUpstreamType DEF Receive
<1>2. ASSUME NEW n \in Routers, NEW m \in Routers, SyncTimeout(n, m)
      PROVE  TypeInv'
  BY <1>2, SyncTimeoutType
<1>3. ASSUME NEW n \in Routers, NEW m \in Routers, RemoveNeighbor(n, m)
      PROVE  TypeInv'
  BY <1>3, RemoveNeighborType
<1>4. ASSUME NEW n \in Routers, NEW t \in Trees,
             BecomeUpstream(n, t) \/ StopUpstream(n, t)
      PROVE  TypeInv'
  BY <1>4, BecomeUpstreamType, StopUpstreamType
<1>5. ASSUME NEW n \in Routers, NEW farewell \in BOOLEAN, Restart(n, farewell)
      PROVE  TypeInv'
  BY <1>5, RestartType
<1>6. CASE UNCHANGED vars
  BY <1>6 DEF TypeInv, TypeOK, MasterHasAnswered, vars
<1> QED
  BY <1>1, <1>2, <1>3, <1>4, <1>5, <1>6 DEF Next

\* Every variable always has its type, for any routers, trees, bounds and
\* fragmentation; in particular no handler leaves an ill-formed object or
\* packet, and a Master's timer never slices its snapshot at index -1.
THEOREM TypeCorrect == Spec => []TypeOK
<1>1. Init => TypeInv
  BY TypeInvInit
<1>2. TypeInv /\ [Next]_vars => TypeInv'
  BY TypeInvNext
<1>3. TypeInv => TypeOK
  BY DEF TypeInv
<1> QED
  BY <1>1, <1>2, <1>3, PTL DEF Spec

-----------------------------------------------------------------------------
(* What a Synced router holds: the inductive invariant *)

Synchronizing == {"Slave", "Master"}

\* The trees of the first k slices of a table.
Covered(table, k) == {table[i] : i \in {j \in DOMAIN table : j <= k * SyncFragmentation}}

\* A snapshot is known by its owner and the pair <BootTime; SnapshotSN>.
SnapshotOf(s, owner, b, sn) == s.owner = owner /\ s.boot = b /\ s.sn = sn

\* Whether o has issued the sequence number sn of BootTime b, for the BootTimes B
\* and the counters Q.
Past(B, Q, o, b, sn) == b < B[o] \/ (b = B[o] /\ sn <= Q[o])

\* No snapshot is ahead of its owner, hence a new one differs from all others.
SnapshotsArePast == \A s \in snapshots : Past(boot, sequencer, s.owner, s.boot, s.sn)
SnapshotsAreUnique ==
  \A s, u \in snapshots : SnapshotOf(s, u.owner, u.boot, u.sn) => s = u

\* Every Sync under way, however old, carries a slice of the snapshot it names.
GoodSync(p, S) ==
  \E s \in S : /\ SnapshotOf(s, p.src, p.boot, p.my_snapshot_sn)
               /\ p.trees = Fragment(s.trees, p.sync_sn)
               /\ p.more = MoreBit(s.trees, p.sync_sn)
GoodSyncs == \A p \in msgs : p.type = "Sync" => GoodSync(p, snapshots)

\* The snapshot that n sends to the neighbor of object r.
OwnSnapshot(n, r) ==
  [owner |-> n, boot |-> r.my_snapshot_boot_time, sn |-> r.my_snapshot_sequencer,
   trees |-> r.my_snapshot_mrt]

\* ViewFollows, for the messages M.
Follows(r, m, trees, M) ==
  \A t \in Trees :
    IF r.last_sequence_number[t] > r.neighbor_snapshot_sn
    THEN \E p \in M :
           /\ p.type = "Upstream" /\ p.src = m /\ p.boot = r.time_of_boot
           /\ p.tree = t /\ p.sn = r.last_sequence_number[t]
           /\ p.upstream = (t \in r.tree_metric_state)
    ELSE t \in r.tree_metric_state <=> t \in trees

\* The object of n for m: while it synchronizes, its own snapshot is kept as it
\* was taken, nothing is stored before slice 0 was answered, and after k slices
\* exactly the first k slices of one snapshot of m are stored; the whole of it
\* in the end.
GoodObject(n, m, r, M, S) ==
  /\ r.state \in Synchronizing => OwnSnapshot(n, r) \in S
  /\ r.state \in Synchronizing /\ r.current_sync_sn = 0 =>
       /\ r.tree_metric_state = {}
       /\ \A t \in Trees : r.last_sequence_number[t] = 0
  /\ r.state \in Synchronizing /\ r.current_sync_sn > 0 =>
       \E s \in S : /\ SnapshotOf(s, m, r.time_of_boot, r.neighbor_snapshot_sn)
                    /\ Follows(r, m, Covered(s.trees, r.current_sync_sn), M)
  /\ r.state = "Synced" =>
       \E s \in S : /\ SnapshotOf(s, m, r.time_of_boot, r.neighbor_snapshot_sn)
                    /\ Follows(r, m, ToSet(s.trees), M)
GoodObjects ==
  \A n, m \in Routers : GoodObject(n, m, nbr[n][m], msgs, snapshots)

SnapshotsAreSound ==
  /\ TypeInv
  /\ SnapshotsArePast
  /\ SnapshotsAreUnique
  /\ GoodSyncs

SnapshotInv == SnapshotsAreSound /\ GoodObjects

-----------------------------------------------------------------------------
(* Slices of a table *)

\* The slices follow each other without gap, and the more bit is false exactly
\* from the first slice that lies beyond the table: the last slice is empty.
LEMMA SliceLemma ==
  ASSUME NEW table \in Seq(Trees), NEW k \in Nat
  PROVE  /\ Covered(table, 0) = {}
         /\ Covered(table, k + 1) = Covered(table, k) \cup Fragment(table, k)
         /\ ~MoreBit(table, k) => Fragment(table, k) = {}
         /\ ~MoreBit(table, k) => Covered(table, k) = ToSet(table)
<1> DEFINE F == SyncFragmentation
           a == k * F
<1>1. F \in Nat /\ F > 0
  BY FragmentationAssumption
<1>2. a \in Nat /\ (k + 1) * F = a + F /\ 0 * F = 0
  BY <1>1
<1>3. DOMAIN table = 1 .. Len(table) /\ Len(table) \in Nat
  OBVIOUS
<1> HIDE DEF a, F
<1>4. Covered(table, 0) = {}
  BY <1>2, <1>3 DEF Covered, F
<1>5. \A j \in DOMAIN table : j <= a + F <=> j <= a \/ (a < j /\ j <= a + F)
  BY <1>1, <1>2, <1>3
<1>6. Covered(table, k + 1) = {table[i] : i \in {j \in DOMAIN table : j <= a + F}}
  BY <1>2 DEF Covered, F
<1>7. Covered(table, k) = {table[i] : i \in {j \in DOMAIN table : j <= a}}
  BY DEF Covered, F, a
<1>8. Fragment(table, k) = {table[i] : i \in {j \in DOMAIN table : a < j /\ j <= a + F}}
  BY <1>2 DEF Fragment, F, a
<1>9. Covered(table, k + 1) = Covered(table, k) \cup Fragment(table, k)
  BY <1>5, <1>6, <1>7, <1>8
<1>10. ASSUME ~MoreBit(table, k)
       PROVE  Fragment(table, k) = {} /\ Covered(table, k) = ToSet(table)
  <2>1. Len(table) <= a
    BY <1>2, <1>3, <1>10 DEF MoreBit, a, F
  <2>2. \A j \in DOMAIN table : j <= a /\ ~(a < j)
    BY <1>2, <1>3, <2>1
  <2> QED
    BY <1>7, <1>8, <2>2 DEF ToSet
<1> QED
  BY <1>4, <1>9, <1>10

-----------------------------------------------------------------------------
(* Objects and packets, one at a time *)

\* More messages and more snapshots do no harm.
LEMMA GoodGrows ==
  ASSUME NEW M, NEW M2, M \subseteq M2, NEW S, NEW S2, S \subseteq S2
  PROVE  /\ \A n, m, r : GoodObject(n, m, r, M, S) => GoodObject(n, m, r, M2, S2)
         /\ \A p : GoodSync(p, S) => GoodSync(p, S2)
<1>1. \A r, m, trees : Follows(r, m, trees, M) => Follows(r, m, trees, M2)
  BY DEF Follows
<1>2. \A p : GoodSync(p, S) => GoodSync(p, S2)
  BY DEF GoodSync
<1>3. ASSUME NEW n, NEW m, NEW r, GoodObject(n, m, r, M, S)
      PROVE  GoodObject(n, m, r, M2, S2)
  BY <1>1, <1>3 DEF GoodObject
<1> QED
  BY <1>2, <1>3

\* A cleared object holds nothing, and only needs its own snapshot.
LEMMA CleanIsGood ==
  ASSUME TypeOK, NEW n \in Routers, NEW m \in Routers, NEW b \in Nat,
         NEW state \in Synchronizing, NEW sn \in Nat, NEW M, NEW S, NEW r,
         r = [CleanNeighbor(n, state, b) EXCEPT !.neighbor_snapshot_sn = sn],
         OwnSnapshot(n, CleanNeighbor(n, state, b)) \in S
  PROVE  GoodObject(n, m, r, M, S)
<1>1. state \in States /\ state # "Synced"
  BY DEF States, Synchronizing
<1>2. CleanNeighbor(n, state, b) \in Neighbor
  BY <1>1, CleanNeighborType
<1>3. /\ r.state = state /\ r.current_sync_sn = 0 /\ r.tree_metric_state = {}
      /\ r.last_sequence_number = [t \in Trees |-> 0]
      /\ OwnSnapshot(n, r) = OwnSnapshot(n, CleanNeighbor(n, state, b))
  BY <1>2 DEF CleanNeighbor, Neighbor, OwnSnapshot
<1> QED
  BY <1>1, <1>3 DEF GoodObject

\* A Sync built from an object that kept its snapshot carries a slice of it.
LEMMA OwnSyncIsGood ==
  ASSUME NEW n \in Routers, NEW m \in Routers, NEW r \in Neighbor, NEW k \in Nat,
         NEW master \in BOOLEAN, NEW S, OwnSnapshot(n, r) \in S
  PROVE  GoodSync(Sync(n, m, r, k, master), S)
<1> DEFINE p == Sync(n, m, r, k, master)
           s == OwnSnapshot(n, r)
<1>1. r.my_snapshot_mrt \in Seq(Trees)
  BY DEF Neighbor
<1>2. ~MoreBit(r.my_snapshot_mrt, k) => Fragment(r.my_snapshot_mrt, k) = {}
  BY <1>1, SliceLemma
<1>3. /\ p.trees = Fragment(s.trees, p.sync_sn) /\ p.more = MoreBit(s.trees, p.sync_sn)
      /\ SnapshotOf(s, p.src, p.boot, p.my_snapshot_sn)
  BY <1>2 DEF Sync, OwnSnapshot, SnapshotOf
<1> QED
  BY <1>3 DEF GoodSync

\* install_tree_state adds the trees, where nothing fresher is known.
LEMMA InstallFollows ==
  ASSUME NEW r \in Neighbor, NEW m, NEW X, NEW trees \in SUBSET Trees, NEW M,
         Follows(r, m, X, M)
  PROVE  Follows(InstallTreeState(r, trees), m, X \cup trees, M)
<1> DEFINE r1 == InstallTreeState(r, trees)
<1>1. /\ r1.last_sequence_number = r.last_sequence_number
      /\ r1.neighbor_snapshot_sn = r.neighbor_snapshot_sn
      /\ r1.time_of_boot = r.time_of_boot
      /\ r1.tree_metric_state = r.tree_metric_state \cup
           {t \in trees : r.last_sequence_number[t] <= r.neighbor_snapshot_sn}
  BY DEF InstallTreeState, Neighbor
<1> HIDE DEF r1
<1>2. SUFFICES ASSUME NEW t \in Trees
               PROVE  IF r1.last_sequence_number[t] > r1.neighbor_snapshot_sn
                      THEN \E p \in M :
                             /\ p.type = "Upstream" /\ p.src = m
                             /\ p.boot = r1.time_of_boot
                             /\ p.tree = t /\ p.sn = r1.last_sequence_number[t]
                             /\ p.upstream = (t \in r1.tree_metric_state)
                      ELSE t \in r1.tree_metric_state <=> t \in X \cup trees
  BY DEF Follows, r1
<1>3. r.last_sequence_number[t] \in Nat /\ r.neighbor_snapshot_sn \in Nat
  BY DEF Neighbor
<1>4. CASE r.last_sequence_number[t] > r.neighbor_snapshot_sn
  <2>1. t \in r1.tree_metric_state <=> t \in r.tree_metric_state
    BY <1>1, <1>3, <1>4
  <2> QED
    BY <1>1, <1>4, <2>1 DEF Follows
<1>5. CASE r.last_sequence_number[t] <= r.neighbor_snapshot_sn
  <2>1. t \in r1.tree_metric_state <=> t \in r.tree_metric_state \/ t \in trees
    BY <1>1, <1>5
  <2>2. t \in r.tree_metric_state <=> t \in X
    BY <1>3, <1>5 DEF Follows
  <2> QED
    BY <1>1, <1>3, <1>5, <2>1, <2>2
<1> QED
  BY <1>3, <1>4, <1>5

\* What p brings is the slice that r waits for, of the snapshot r holds.
ExpectedSlice(m, r, p, s, S) ==
  /\ s \in S
  /\ SnapshotOf(s, m, r.time_of_boot, r.neighbor_snapshot_sn)
  /\ p.trees = Fragment(s.trees, r.current_sync_sn)
  /\ p.more = MoreBit(s.trees, r.current_sync_sn)

Unique(S) == \A s, u \in S : SnapshotOf(s, u.owner, u.boot, u.sn) => s = u

\* An object that waits for slice k holds the first k slices of the snapshot
\* it hears of, for k = 0 as well.
LEMMA HeldSlices ==
  ASSUME NEW n \in Routers, NEW m \in Routers, NEW r \in Neighbor,
         r.state \in Synchronizing, NEW M, NEW S, S \subseteq Snapshots, Unique(S),
         GoodObject(n, m, r, M, S),
         NEW s \in S, SnapshotOf(s, m, r.time_of_boot, r.neighbor_snapshot_sn)
  PROVE  Follows(r, m, Covered(s.trees, r.current_sync_sn), M)
<1>1. s.trees \in Seq(Trees) /\ r.current_sync_sn \in Nat
  BY DEF Snapshots, Neighbor
<1>2. CASE r.current_sync_sn = 0
  <2>1. /\ r.tree_metric_state = {}
        /\ \A t \in Trees : ~(r.last_sequence_number[t] > r.neighbor_snapshot_sn)
    BY <1>2 DEF GoodObject, Neighbor
  <2>2. Covered(s.trees, r.current_sync_sn) = {}
    BY <1>1, <1>2, SliceLemma
  <2> QED
    BY <2>1, <2>2 DEF Follows
<1>3. CASE r.current_sync_sn > 0
  <2>1. PICK u \in S : /\ SnapshotOf(u, m, r.time_of_boot, r.neighbor_snapshot_sn)
                       /\ Follows(r, m, Covered(u.trees, r.current_sync_sn), M)
    BY <1>3 DEF GoodObject
  <2>2. u = s
    BY <2>1 DEF Unique, SnapshotOf
  <2> QED
    BY <2>1, <2>2
<1> QED
  BY <1>1, <1>2, <1>3

\* Installing the expected slice and counting it keeps the object good.
LEMMA AdvanceIsGood ==
  ASSUME NEW n \in Routers, NEW m \in Routers, NEW r \in Neighbor,
         r.state \in Synchronizing, NEW M, NEW S, S \subseteq Snapshots, Unique(S),
         GoodObject(n, m, r, M, S), NEW p \in SyncMsgs, NEW s,
         ExpectedSlice(m, r, p, s, S), NEW r2,
         r2 = [InstallTreeState(r, p.trees) EXCEPT
                 !.current_sync_sn = r.current_sync_sn + 1]
  PROVE  GoodObject(n, m, r2, M, S)
<1> DEFINE k == r.current_sync_sn
           r1 == InstallTreeState(r, p.trees)
<1>1. k \in Nat /\ k + 1 > 0 /\ k + 1 # 0 /\ p.trees \in SUBSET Trees
  BY DEF Neighbor, SyncMsgs
<1>2. s \in S /\ s.trees \in Seq(Trees)
      /\ SnapshotOf(s, m, r.time_of_boot, r.neighbor_snapshot_sn)
      /\ p.trees = Fragment(s.trees, k)
  BY DEF ExpectedSlice, Snapshots
<1>3. Follows(r, m, Covered(s.trees, k), M)
  BY <1>2, HeldSlices
<1>4. Follows(r1, m, Covered(s.trees, k + 1), M)
  BY <1>1, <1>2, <1>3, InstallFollows, SliceLemma
<1>5. /\ r2.state = r.state /\ r2.current_sync_sn = k + 1
      /\ r2.time_of_boot = r.time_of_boot /\ r1.time_of_boot = r.time_of_boot
      /\ r2.neighbor_snapshot_sn = r.neighbor_snapshot_sn
      /\ r1.neighbor_snapshot_sn = r.neighbor_snapshot_sn
      /\ r2.tree_metric_state = r1.tree_metric_state
      /\ r2.last_sequence_number = r1.last_sequence_number
      /\ OwnSnapshot(n, r2) = OwnSnapshot(n, r)
  BY DEF InstallTreeState, Neighbor, OwnSnapshot
<1> HIDE DEF r1, k
<1>6. Follows(r2, m, Covered(s.trees, k + 1), M)
  BY <1>4, <1>5 DEF Follows
<1>7. r2.state # "Synced" /\ OwnSnapshot(n, r2) \in S
  BY <1>5 DEF Synchronizing, GoodObject
<1> QED
  BY <1>1, <1>2, <1>5, <1>6, <1>7 DEF GoodObject, k

\* When the expected slice is the empty last one, the object holds everything.
LEMMA FinishIsGood ==
  ASSUME NEW n \in Routers, NEW m \in Routers, NEW r \in Neighbor,
         r.state \in Synchronizing, NEW M, NEW S, S \subseteq Snapshots, Unique(S),
         GoodObject(n, m, r, M, S), NEW p \in SyncMsgs, NEW s,
         ExpectedSlice(m, r, p, s, S), ~p.more
  PROVE  /\ GoodObject(n, m, FinishSync(r), M, S)
         /\ GoodObject(n, m, FinishSync(InstallTreeState(r, p.trees)), M, S)
<1> DEFINE k == r.current_sync_sn
<1>1. k \in Nat
  BY DEF Neighbor
<1>2. s \in S /\ s.trees \in Seq(Trees)
      /\ SnapshotOf(s, m, r.time_of_boot, r.neighbor_snapshot_sn)
      /\ p.trees = Fragment(s.trees, k) /\ ~MoreBit(s.trees, k)
  BY DEF ExpectedSlice, Snapshots
<1>3. p.trees = {} /\ Covered(s.trees, k) = ToSet(s.trees)
  BY <1>1, <1>2, SliceLemma
<1>4. Follows(r, m, ToSet(s.trees), M)
  BY <1>2, <1>3, HeldSlices
<1>5. InstallTreeState(r, p.trees) = r
  BY <1>3 DEF InstallTreeState, Neighbor
<1>6. /\ FinishSync(r).state = "Synced"
      /\ FinishSync(r).time_of_boot = r.time_of_boot
      /\ FinishSync(r).neighbor_snapshot_sn = r.neighbor_snapshot_sn
      /\ FinishSync(r).tree_metric_state = r.tree_metric_state
      /\ FinishSync(r).last_sequence_number = r.last_sequence_number
  BY DEF FinishSync, Neighbor
<1>7. Follows(FinishSync(r), m, ToSet(s.trees), M)
  BY <1>4, <1>6 DEF Follows
<1>8. GoodObject(n, m, FinishSync(r), M, S)
  BY <1>2, <1>6, <1>7 DEF GoodObject, Synchronizing
<1> QED
  BY <1>5, <1>8

-----------------------------------------------------------------------------
(* What the steps have in common *)

\* get_sequence_number never goes back, over a wrap either.
LEMMA ClocksAdvance ==
  ASSUME TypeOK, NEW n \in Routers, GetSequenceNumber(n)
  PROVE  /\ \A o \in Routers, b, sn \in Nat :
              Past(boot, sequencer, o, b, sn) => Past(boot', sequencer', o, b, sn)
         /\ ~Past(boot, sequencer, n, NextBootTime(n), NextSequenceNumber(n))
         /\ Past(boot', sequencer', n, NextBootTime(n), NextSequenceNumber(n))
         /\ boot'[n] = NextBootTime(n)
<1>1. boot \in [Routers -> Nat] /\ sequencer \in [Routers -> Nat]
  BY DEF TypeOK
<1>2. /\ boot' = [boot EXCEPT ![n] = NextBootTime(n)]
      /\ sequencer' = [sequencer EXCEPT ![n] = NextSequenceNumber(n)]
  BY DEF GetSequenceNumber
<1>3. \/ NextBootTime(n) = boot[n] + 1
      \/ NextBootTime(n) = boot[n] /\ NextSequenceNumber(n) = sequencer[n] + 1
  BY DEF NextBootTime, NextSequenceNumber
<1>4. NextBootTime(n) \in Nat /\ NextSequenceNumber(n) \in Nat
  BY SequenceTypes
<1>5. boot'[n] = NextBootTime(n) /\ sequencer'[n] = NextSequenceNumber(n)
  BY <1>1, <1>2
<1>6. ASSUME NEW o \in Routers, NEW b \in Nat, NEW sn \in Nat,
             Past(boot, sequencer, o, b, sn)
      PROVE  Past(boot', sequencer', o, b, sn)
  <2>1. CASE o = n
    BY <1>1, <1>3, <1>4, <1>5, <1>6, <2>1 DEF Past
  <2>2. CASE o # n
    <3>1. boot'[o] = boot[o] /\ sequencer'[o] = sequencer[o]
      BY <1>1, <1>2, <2>2
    <3> QED
      BY <1>6, <3>1 DEF Past
  <2> QED
    BY <2>1, <2>2
<1>7. ~Past(boot, sequencer, n, NextBootTime(n), NextSequenceNumber(n))
  BY <1>1, <1>3, <1>4 DEF Past
<1>8. Past(boot', sequencer', n, NextBootTime(n), NextSequenceNumber(n))
  BY <1>4, <1>5 DEF Past
<1> QED
  BY <1>5, <1>6, <1>7, <1>8

\* A new snapshot differs from all earlier ones, and is the one the cleared
\* object keeps.
LEMMA StartSnapshotIsGood ==
  ASSUME TypeOK, SnapshotsArePast, SnapshotsAreUnique, NEW n \in Routers,
         StartSnapshot(n)
  PROVE  /\ SnapshotsArePast' /\ SnapshotsAreUnique' /\ snapshots \subseteq snapshots'
         /\ \A state, b : OwnSnapshot(n, CleanNeighbor(n, state, b)) \in snapshots'
<1> DEFINE s0 == [owner |-> n, boot |-> NextBootTime(n),
                  sn |-> NextSequenceNumber(n), trees |-> mrt[n]]
<1>1. GetSequenceNumber(n) /\ snapshots' = snapshots \cup {s0}
  BY DEF StartSnapshot
<1>2. \A s \in snapshots : s.owner \in Routers /\ s.boot \in Nat /\ s.sn \in Nat
  BY DEF TypeOK, Snapshots
<1>3. /\ s0.owner = n /\ s0.boot = NextBootTime(n) /\ s0.sn = NextSequenceNumber(n)
  OBVIOUS
<1>4. \A s \in snapshots : ~(s.owner = n /\ s.boot = s0.boot /\ s.sn = s0.sn)
  BY <1>1, <1>2, <1>3, ClocksAdvance DEF SnapshotsArePast
<1>5. \A s \in snapshots : Past(boot', sequencer', s.owner, s.boot, s.sn)
  BY <1>1, <1>2, ClocksAdvance DEF SnapshotsArePast
<1>6. Past(boot', sequencer', s0.owner, s0.boot, s0.sn)
  BY <1>1, <1>3, ClocksAdvance
<1>7. \A state, b : OwnSnapshot(n, CleanNeighbor(n, state, b)) = s0
  BY DEF OwnSnapshot, CleanNeighbor
<1> HIDE DEF s0
<1>8. SnapshotsArePast'
  BY <1>1, <1>5, <1>6 DEF SnapshotsArePast
<1>9. SnapshotsAreUnique'
  BY <1>1, <1>3, <1>4 DEF SnapshotsAreUnique, SnapshotOf
<1> QED
  BY <1>1, <1>7, <1>8, <1>9

\* A new number leaves the snapshots as they were.
LEMMA ClockKeepsSnapshots ==
  ASSUME TypeOK, SnapshotsArePast, SnapshotsAreUnique, NEW n \in Routers,
         GetSequenceNumber(n), UNCHANGED snapshots
  PROVE  SnapshotsArePast' /\ SnapshotsAreUnique'
<1>1. \A s \in snapshots : s.owner \in Routers /\ s.boot \in Nat /\ s.sn \in Nat
  BY DEF TypeOK, Snapshots
<1>2. SnapshotsArePast'
  BY <1>1, ClocksAdvance DEF SnapshotsArePast
<1> QED
  BY <1>2 DEF SnapshotsAreUnique

LEMMA OnePacket ==
  ASSUME GoodSyncs, snapshots \subseteq snapshots', NEW p, Send({p}),
         p.type = "Sync" => GoodSync(p, snapshots')
  PROVE  GoodSyncs' /\ msgs \subseteq msgs'
<1>1. msgs' = msgs \cup {p}
  BY DEF Send
<1>2. \A q \in msgs : q.type = "Sync" => GoodSync(q, snapshots')
  BY GoodGrows DEF GoodSyncs
<1> QED
  BY <1>1, <1>2 DEF GoodSyncs

\* A Sync of the snapshot and slice that r waits for brings just that slice.
LEMMA ReceivedSlice ==
  ASSUME GoodSyncs, NEW S, snapshots \subseteq S, NEW p \in msgs, p.type = "Sync",
         NEW m, NEW r, p.src = m, p.boot = r.time_of_boot,
         p.my_snapshot_sn = r.neighbor_snapshot_sn, p.sync_sn = r.current_sync_sn
  PROVE  \E s : ExpectedSlice(m, r, p, s, S)
  BY DEF GoodSyncs, GoodSync, ExpectedSlice, SnapshotOf

-----------------------------------------------------------------------------
(* What each step between n and m does to the object of n for m, which need  *)
(* be good before only while it synchronizes                                 *)

GoodWhileSynchronizing(n, m, M) ==
  nbr[n][m].state \in Synchronizing => GoodObject(n, m, nbr[n][m], M, snapshots)

GoodStep(n, m, M) ==
  /\ SnapshotsArePast' /\ SnapshotsAreUnique' /\ GoodSyncs'
  /\ msgs \subseteq msgs' /\ snapshots \subseteq snapshots'
  /\ \/ UNCHANGED nbr
     \/ \E r : SetNeighbor(n, m, r) /\ GoodObject(n, m, r, M, snapshots')

LEMMA AdjacencyResetIsGood ==
  ASSUME SnapshotsAreSound, NEW n \in Routers, NEW m \in Routers, NEW M, NEW b \in Nat,
         AdjacencyReset(n, m, b)
  PROVE  GoodStep(n, m, M)
<1> DEFINE r == CleanNeighbor(n, "Slave", b)
<1>1. TypeOK /\ SnapshotsArePast /\ SnapshotsAreUnique /\ GoodSyncs
  BY DEF SnapshotsAreSound, TypeInv
<1>2. StartSnapshot(n) /\ SetNeighbor(n, m, r) /\ Send({Sync(n, m, r, 0, TRUE)})
  BY DEF AdjacencyReset
<1>3. /\ SnapshotsArePast' /\ SnapshotsAreUnique' /\ snapshots \subseteq snapshots'
      /\ OwnSnapshot(n, r) \in snapshots'
  BY <1>1, <1>2, StartSnapshotIsGood
<1>4. r \in Neighbor /\ "Slave" \in Synchronizing
  BY <1>1, CleanNeighborType DEF States, Synchronizing
<1>5. r = [CleanNeighbor(n, "Slave", b) EXCEPT !.neighbor_snapshot_sn = 0]
  BY DEF CleanNeighbor
<1>6. GoodObject(n, m, r, M, snapshots')
  BY <1>1, <1>3, <1>4, <1>5, CleanIsGood
<1>7. GoodSync(Sync(n, m, r, 0, TRUE), snapshots')
  BY <1>3, <1>4, OwnSyncIsGood
<1>8. GoodSyncs' /\ msgs \subseteq msgs'
  BY <1>1, <1>2, <1>3, <1>7, OnePacket
<1> QED
  BY <1>2, <1>3, <1>6, <1>8 DEF GoodStep

\* The Master answers p: r is the object it had, or just got, for m.
LEMMA MasterAnswersIsGood ==
  ASSUME SnapshotsAreSound, NEW n \in Routers, NEW m \in Routers, NEW M,
         NEW r \in Neighbor, r.state = "Master", NEW p \in SyncMsgs, p \in msgs,
         p.src = m, p.boot = r.time_of_boot,
         p.my_snapshot_sn = r.neighbor_snapshot_sn, p.sync_sn = r.current_sync_sn,
         MasterAnswers(n, m, r, p), TypeInv', SnapshotsArePast', SnapshotsAreUnique',
         snapshots \subseteq snapshots', GoodObject(n, m, r, M, snapshots')
  PROVE  GoodStep(n, m, M)
<1> DEFINE k == r.current_sync_sn
           r1 == InstallTreeState(r, p.trees)
           r2 == [r1 EXCEPT !.current_sync_sn = k + 1]
<1>1. GoodSyncs /\ k \in Nat
  BY DEF SnapshotsAreSound, Neighbor
<1>2. r.state \in Synchronizing /\ OwnSnapshot(n, r) \in snapshots'
  BY DEF Synchronizing, GoodObject
<1>3. snapshots' \subseteq Snapshots /\ Unique(snapshots')
  BY DEF TypeInv, TypeOK, SnapshotsAreUnique, Unique
<1>4. p.type = "Sync"
  BY DEF SyncMsgs
<1>5. PICK s : ExpectedSlice(m, r, p, s, snapshots')
  BY <1>1, <1>4, ReceivedSlice
<1>6. /\ Send({Sync(n, m, r, k, FALSE)})
      /\ \/ SetNeighbor(n, m, r2)
         \/ ~p.more /\ SetNeighbor(n, m, FinishSync(r1))
  BY DEF MasterAnswers
<1>7. GoodSync(Sync(n, m, r, k, FALSE), snapshots')
  BY <1>1, <1>2, OwnSyncIsGood
<1>8. GoodSyncs' /\ msgs \subseteq msgs'
  BY <1>1, <1>6, <1>7, OnePacket
<1>9. GoodObject(n, m, r2, M, snapshots')
  BY <1>2, <1>3, <1>5, AdvanceIsGood
<1>10. ~p.more => GoodObject(n, m, FinishSync(r1), M, snapshots')
  BY <1>2, <1>3, <1>5, FinishIsGood
<1> HIDE DEF r1, r2
<1> QED
  BY <1>6, <1>8, <1>9, <1>10 DEF GoodStep

LEMMA SlaveAdvancesIsGood ==
  ASSUME SnapshotsAreSound, NEW n \in Routers, NEW m \in Routers, NEW M,
         NEW r \in Neighbor, r.state = "Slave", NEW p \in SyncMsgs, p \in msgs,
         p.src = m, p.boot = r.time_of_boot,
         p.my_snapshot_sn = r.neighbor_snapshot_sn, p.sync_sn = r.current_sync_sn,
         SlaveAdvances(n, m, r, p), UNCHANGED snapshots,
         SnapshotsArePast', SnapshotsAreUnique', GoodObject(n, m, r, M, snapshots)
  PROVE  GoodStep(n, m, M)
<1> DEFINE k == r.current_sync_sn
           r1 == InstallTreeState([r EXCEPT !.current_sync_sn = k + 1], p.trees)
<1>1. GoodSyncs /\ k \in Nat
  BY DEF SnapshotsAreSound, Neighbor
<1>2. r.state \in Synchronizing /\ OwnSnapshot(n, r) \in snapshots
  BY DEF Synchronizing, GoodObject
<1>3. snapshots \subseteq Snapshots /\ Unique(snapshots)
  BY DEF SnapshotsAreSound, TypeInv, TypeOK, SnapshotsAreUnique, Unique
<1>4. p.type = "Sync"
  BY DEF SyncMsgs
<1>5. PICK s : ExpectedSlice(m, r, p, s, snapshots)
  BY <1>1, <1>4, ReceivedSlice
<1>6. CASE ~p.more /\ SetNeighbor(n, m, FinishSync(r)) /\ UNCHANGED msgs
  <2>1. GoodObject(n, m, FinishSync(r), M, snapshots)
    BY <1>2, <1>3, <1>5, <1>6, FinishIsGood
  <2> QED
    BY <1>1, <1>6, <2>1 DEF GoodSyncs, GoodStep
<1>7. CASE SetNeighbor(n, m, r1) /\ Send({Sync(n, m, r1, k + 1, TRUE)})
  <2>1. r1 = [InstallTreeState(r, p.trees) EXCEPT !.current_sync_sn = k + 1]
    BY DEF InstallTreeState, Neighbor
  <2>2. GoodObject(n, m, r1, M, snapshots)
    BY <1>2, <1>3, <1>5, <2>1, AdvanceIsGood
  <2>3. r1 \in Neighbor /\ r1.state = "Slave"
    <3>1. k + 1 \in Nat /\ p.trees \in SUBSET Trees
      BY <1>1 DEF SyncMsgs
    <3>2. r1 \in Neighbor
      BY <3>1, AdvanceType, InstallType
    <3> QED
      BY <3>2 DEF InstallTreeState, Neighbor
  <2> HIDE DEF r1
  <2>4. OwnSnapshot(n, r1) \in snapshots
    BY <2>2, <2>3 DEF GoodObject, Synchronizing
  <2>5. GoodSync(Sync(n, m, r1, k + 1, TRUE), snapshots')
    <3>1. k + 1 \in Nat
      BY <1>1
    <3> QED
      BY <2>3, <2>4, <3>1, OwnSyncIsGood
  <2>6. GoodSyncs' /\ msgs \subseteq msgs'
    BY <1>1, <1>7, <2>5, OnePacket
  <2> QED
    BY <1>7, <2>2, <2>6 DEF GoodStep
<1> QED
  BY <1>6, <1>7 DEF SlaveAdvances

LEMMA ReceiveSyncUnknownIsGood ==
  ASSUME SnapshotsAreSound, NEW n \in Routers, NEW m \in Routers, NEW M,
         ReceiveSyncUnknown(n, m), TypeInv'
  PROVE  GoodStep(n, m, M)
<1>1. TypeOK /\ SnapshotsArePast /\ SnapshotsAreUnique
  BY DEF SnapshotsAreSound, TypeInv
<1>2. PICK p \in msgs :
        /\ ReceivableSync(n, m, p)
        /\ IF p.sync_sn = 0 /\ p.master
           THEN LET r == [CleanNeighbor(n, "Master", p.boot) EXCEPT
                            !.neighbor_snapshot_sn = p.my_snapshot_sn]
                IN  StartSnapshot(n) /\ MasterAnswers(n, m, r, p)
           ELSE AdjacencyReset(n, m, p.boot)
  BY DEF ReceiveSyncUnknown
<1>3. p \in SyncMsgs /\ p.boot \in Nat /\ p.my_snapshot_sn \in Nat /\ p.src = m
  BY <1>1, <1>2, PacketTypes DEF ReceivableSync, SyncMsgs
<1> DEFINE c == CleanNeighbor(n, "Master", p.boot)
           r == [c EXCEPT !.neighbor_snapshot_sn = p.my_snapshot_sn]
<1>4. CASE p.sync_sn = 0 /\ StartSnapshot(n) /\ MasterAnswers(n, m, r, p)
  <2>1. /\ SnapshotsArePast' /\ SnapshotsAreUnique' /\ snapshots \subseteq snapshots'
        /\ OwnSnapshot(n, c) \in snapshots'
    BY <1>1, <1>4, StartSnapshotIsGood
  <2>2. c \in Neighbor /\ "Master" \in Synchronizing
    BY <1>1, <1>3, CleanNeighborType DEF States, Synchronizing
  <2>3. /\ r \in Neighbor /\ r.state = "Master" /\ r.time_of_boot = p.boot
        /\ r.neighbor_snapshot_sn = p.my_snapshot_sn /\ r.current_sync_sn = 0
    BY <1>3, <2>2 DEF CleanNeighbor, Neighbor
  <2> HIDE DEF c
  <2>4. GoodObject(n, m, r, M, snapshots')
    BY <1>1, <1>3, <2>1, <2>2, CleanIsGood DEF c
  <2> HIDE DEF r
  <2> QED
    BY <1>3, <1>4, <2>1, <2>3, <2>4, MasterAnswersIsGood
<1>5. CASE AdjacencyReset(n, m, p.boot)
  BY <1>3, <1>5, AdjacencyResetIsGood
<1> QED
  BY <1>2, <1>4, <1>5

LEMMA ReceiveSyncResetIsGood ==
  ASSUME SnapshotsAreSound, NEW n \in Routers, NEW m \in Routers, NEW M,
         ReceiveSyncReset(n, m)
  PROVE  GoodStep(n, m, M)
<1>1. TypeOK
  BY DEF SnapshotsAreSound, TypeInv
<1>2. PICK p \in msgs :
        /\ ReceivableSync(n, m, p)
        /\ \/ AdjacencyReset(n, m, p.boot)
           \/ AdjacencyReset(n, m, nbr[n][m].time_of_boot)
  BY DEF ReceiveSyncReset
<1>3. p.boot \in Nat /\ nbr[n][m].time_of_boot \in Nat
  BY <1>1, <1>2, PacketTypes, NeighborTypes DEF ReceivableSync, SyncMsgs
<1> QED
  BY <1>2, <1>3, AdjacencyResetIsGood

\* Learning the snapshot SN before slice 0, or becoming the one that answers,
\* leaves a good object good.
LEMMA AdoptedIsGood ==
  ASSUME NEW n, NEW m, NEW r \in Neighbor, NEW p \in SyncMsgs, NEW M, NEW S,
         GoodObject(n, m, r, M, S)
  PROVE  GoodObject(n, m, Adopted(r, p), M, S)
<1>1. CASE Adopted(r, p) = r
  BY <1>1
<1>2. CASE Adopted(r, p) # r
  <2>1. /\ r.state \in Synchronizing /\ r.current_sync_sn = 0
        /\ Adopted(r, p) = [r EXCEPT !.neighbor_snapshot_sn = p.my_snapshot_sn]
    BY <1>2 DEF Adopted, Synchronizing
  <2> DEFINE a == [r EXCEPT !.neighbor_snapshot_sn = p.my_snapshot_sn]
  <2>2. /\ a.state = r.state /\ a.current_sync_sn = 0
        /\ a.tree_metric_state = r.tree_metric_state
        /\ a.last_sequence_number = r.last_sequence_number
        /\ OwnSnapshot(n, a) = OwnSnapshot(n, r)
    BY <2>1 DEF Neighbor, OwnSnapshot
  <2> HIDE DEF a
  <2>3. GoodObject(n, m, a, M, S)
    BY <2>1, <2>2 DEF GoodObject, Synchronizing
  <2> QED
    BY <2>1, <2>3 DEF a
<1> QED
  BY <1>1, <1>2

LEMMA YieldingIsGood ==
  ASSUME NEW n, NEW m, NEW r \in Neighbor, r.state = "Slave", NEW M, NEW S,
         GoodObject(n, m, r, M, S)
  PROVE  GoodObject(n, m, [r EXCEPT !.state = "Master"], M, S)
<1> DEFINE a == [r EXCEPT !.state = "Master"]
<1>1. /\ a.state = "Master" /\ a.current_sync_sn = r.current_sync_sn
      /\ a.neighbor_snapshot_sn = r.neighbor_snapshot_sn
      /\ a.time_of_boot = r.time_of_boot
      /\ a.tree_metric_state = r.tree_metric_state
      /\ a.last_sequence_number = r.last_sequence_number
      /\ OwnSnapshot(n, a) = OwnSnapshot(n, r)
  BY DEF Neighbor, OwnSnapshot
<1> HIDE DEF a
<1>2. \A trees : Follows(r, m, trees, M) => Follows(a, m, trees, M)
  BY <1>1 DEF Follows
<1>3. GoodObject(n, m, a, M, S)
  BY <1>1, <1>2 DEF GoodObject, Synchronizing
<1> QED
  BY <1>3 DEF a

LEMMA ReceiveSyncSlaveIsGood ==
  ASSUME SnapshotsAreSound, NEW n \in Routers, NEW m \in Routers, NEW M,
         GoodWhileSynchronizing(n, m, M), ReceiveSyncSlave(n, m), TypeInv'
  PROVE  GoodStep(n, m, M)
<1>1. TypeOK /\ SnapshotsArePast /\ SnapshotsAreUnique /\ GoodSyncs
  BY DEF SnapshotsAreSound, TypeInv
<1>2. PICK p \in msgs :
        LET r == Adopted(nbr[n][m], p)
        IN  /\ ReceivableSync(n, m, p) /\ p.boot = r.time_of_boot
            /\ p.my_snapshot_sn = r.neighbor_snapshot_sn
            /\ \/ /\ p.sync_sn = r.current_sync_sn
                  /\ MasterAnswers(n, m, [r EXCEPT !.state = "Master"], p)
               \/ SetNeighbor(n, m, r) /\ Send({Sync(n, m, r, 0, TRUE)})
               \/ p.sync_sn = r.current_sync_sn /\ SlaveAdvances(n, m, r, p)
               \/ SetNeighbor(n, m, r) /\ UNCHANGED msgs
  BY DEF ReceiveSyncSlave, CurrentSync
<1> DEFINE r == Adopted(nbr[n][m], p)
           a == [r EXCEPT !.state = "Master"]
<1>3. p \in SyncMsgs /\ p.src = m
  BY <1>1, <1>2, PacketTypes DEF ReceivableSync
<1>4. r \in Neighbor /\ r.state = "Slave"
  BY <1>1, <1>3, NeighborTypes, AdoptedType DEF ReceiveSyncSlave
<1>5. UNCHANGED <<boot, sequencer, snapshots>>
  BY DEF ReceiveSyncSlave
<1>6. GoodObject(n, m, r, M, snapshots)
  <2>1. GoodObject(n, m, nbr[n][m], M, snapshots)
    BY DEF ReceiveSyncSlave, GoodWhileSynchronizing, Synchronizing
  <2> QED
    BY <1>1, <1>3, <2>1, NeighborTypes, AdoptedIsGood
<1>7. SnapshotsArePast' /\ SnapshotsAreUnique'
  BY <1>1, <1>5 DEF SnapshotsArePast, SnapshotsAreUnique
<1> HIDE DEF r
<1>8. /\ a \in Neighbor /\ a.state = "Master" /\ a.time_of_boot = r.time_of_boot
      /\ a.neighbor_snapshot_sn = r.neighbor_snapshot_sn
      /\ a.current_sync_sn = r.current_sync_sn
      /\ GoodObject(n, m, a, M, snapshots)
  BY <1>4, <1>6, YieldingIsGood DEF Neighbor, States
<1> HIDE DEF a
<1>9. CASE p.sync_sn = r.current_sync_sn /\ MasterAnswers(n, m, a, p)
  BY <1>2, <1>3, <1>5, <1>7, <1>8, <1>9, MasterAnswersIsGood DEF r
<1>10. CASE SetNeighbor(n, m, r) /\ Send({Sync(n, m, r, 0, TRUE)})
  <2>1. OwnSnapshot(n, r) \in snapshots'
    BY <1>4, <1>5, <1>6 DEF GoodObject, Synchronizing
  <2>2. GoodSync(Sync(n, m, r, 0, TRUE), snapshots')
    BY <1>4, <2>1, OwnSyncIsGood
  <2>3. GoodSyncs' /\ msgs \subseteq msgs'
    BY <1>1, <1>5, <1>10, <2>2, OnePacket
  <2> QED
    BY <1>5, <1>6, <1>7, <1>10, <2>3 DEF GoodStep
<1>11. CASE p.sync_sn = r.current_sync_sn /\ SlaveAdvances(n, m, r, p)
  BY <1>2, <1>3, <1>4, <1>5, <1>6, <1>7, <1>11, SlaveAdvancesIsGood DEF r
<1>12. CASE SetNeighbor(n, m, r) /\ UNCHANGED msgs
  BY <1>1, <1>5, <1>6, <1>7, <1>12 DEF GoodSyncs, GoodStep
<1> QED
  BY <1>2, <1>9, <1>10, <1>11, <1>12 DEF r, a

LEMMA ReceiveSyncMasterIsGood ==
  ASSUME SnapshotsAreSound, NEW n \in Routers, NEW m \in Routers, NEW M,
         GoodWhileSynchronizing(n, m, M), ReceiveSyncMaster(n, m), TypeInv'
  PROVE  GoodStep(n, m, M)
<1>1. TypeOK /\ SnapshotsArePast /\ SnapshotsAreUnique
  BY DEF SnapshotsAreSound, TypeInv
<1> DEFINE r == nbr[n][m]
<1>2. PICK p \in msgs :
        /\ ReceivableSync(n, m, p) /\ p.boot = r.time_of_boot
        /\ p.my_snapshot_sn = r.neighbor_snapshot_sn
        /\ p.sync_sn = r.current_sync_sn /\ MasterAnswers(n, m, r, p)
  BY DEF ReceiveSyncMaster, CurrentSync
<1>3. p \in SyncMsgs /\ p.src = m /\ r \in Neighbor /\ r.state = "Master"
  BY <1>1, <1>2, PacketTypes, NeighborTypes DEF ReceivableSync, ReceiveSyncMaster
<1>4. UNCHANGED <<boot, sequencer, snapshots>>
  BY DEF ReceiveSyncMaster
<1>5. SnapshotsArePast' /\ SnapshotsAreUnique'
  BY <1>1, <1>4 DEF SnapshotsArePast, SnapshotsAreUnique
<1>6. GoodObject(n, m, r, M, snapshots')
  BY <1>3, <1>4 DEF GoodWhileSynchronizing, Synchronizing
<1> QED
  BY <1>2, <1>3, <1>4, <1>5, <1>6, MasterAnswersIsGood

\* An address that is not a neighbor has nothing to hold.
LEMMA NoNeighborIsGood ==
  ASSUME NEW n, NEW m, NEW M, NEW S
  PROVE  GoodObject(n, m, NoNeighbor, M, S)
<1>1. NoNeighbor.state = "Absent"
  BY DEF NoNeighbor
<1> QED
  BY <1>1 DEF GoodObject, Synchronizing

LEMMA RemovalIsGood ==
  ASSUME SnapshotsAreSound, NEW n \in Routers, NEW m \in Routers, NEW M,
         SetNeighbor(n, m, NoNeighbor), UNCHANGED <<boot, sequencer, msgs, snapshots>>
  PROVE  GoodStep(n, m, M)
BY NoNeighborIsGood
DEF SnapshotsAreSound, SnapshotsArePast, SnapshotsAreUnique, GoodSyncs, GoodStep

LEMMA ReceiveHelloIsGood ==
  ASSUME SnapshotsAreSound, NEW n \in Routers, NEW m \in Routers, NEW M,
         ReceiveHello(n, m)
  PROVE  GoodStep(n, m, M)
<1>1. PICK p \in Hellos(m) :
        \/ AdjacencyReset(n, m, p.boot)
        \/ /\ SetNeighbor(n, m, NoNeighbor)
           /\ UNCHANGED <<boot, sequencer, msgs, snapshots>>
  BY DEF ReceiveHello
<1>2. p.boot \in Nat
  BY HelloTypes DEF SnapshotsAreSound, TypeInv
<1> QED
  BY <1>1, <1>2, AdjacencyResetIsGood, RemovalIsGood

LEMMA RemoveNeighborIsGood ==
  ASSUME SnapshotsAreSound, NEW n \in Routers, NEW m \in Routers, NEW M,
         RemoveNeighbor(n, m)
  PROVE  GoodStep(n, m, M)
BY RemovalIsGood DEF RemoveNeighbor

LEMMA SyncTimeoutIsGood ==
  ASSUME SnapshotsAreSound, NEW n \in Routers, NEW m \in Routers, NEW M,
         GoodWhileSynchronizing(n, m, M), SyncTimeout(n, m)
  PROVE  GoodStep(n, m, M)
<1>1. TypeOK /\ SnapshotsArePast /\ SnapshotsAreUnique /\ GoodSyncs
  BY DEF SnapshotsAreSound, TypeInv
<1> DEFINE r == nbr[n][m]
           k == RetransmittedSN(r.state, r)
<1>2. UNCHANGED <<boot, sequencer, nbr, snapshots>>
  BY DEF SyncTimeout
<1>3. /\ r \in Neighbor /\ r.state \in Synchronizing /\ k \in Nat
      /\ (r.state = "Slave") \in BOOLEAN
  BY <1>1, NeighborTypes, RetransmittedType
     DEF SyncTimeout, Synchronizing, SnapshotsAreSound
<1>4. OwnSnapshot(n, r) \in snapshots'
  BY <1>2, <1>3 DEF GoodWhileSynchronizing, GoodObject
<1>5. Send({Sync(n, m, r, k, r.state = "Slave")})
  BY DEF SyncTimeout
<1> HIDE DEF k, r
<1>6. GoodSync(Sync(n, m, r, k, r.state = "Slave"), snapshots')
  BY <1>3, <1>4, OwnSyncIsGood
<1>7. GoodSyncs' /\ msgs \subseteq msgs'
  BY <1>1, <1>2, <1>5, <1>6, OnePacket
<1> QED
  BY <1>1, <1>2, <1>7 DEF SnapshotsArePast, SnapshotsAreUnique, GoodStep

\* A sequenced message that is news replaces what is known of its tree.
LEMMA NewsIsGood ==
  ASSUME NEW n, NEW m, NEW r \in Neighbor, NEW M, NEW S, S \subseteq Snapshots,
         GoodObject(n, m, r, M, S), NEW p \in M, p \in UpstreamMsgs, p.src = m,
         p.boot = r.time_of_boot, IsNews(r, p), NEW r2,
         r2 = [r EXCEPT !.last_sequence_number[p.tree] = p.sn,
                        !.tree_metric_state = IF p.upstream THEN @ \cup {p.tree}
                                              ELSE @ \ {p.tree}]
  PROVE  GoodObject(n, m, r2, M, S)
<1>1. /\ p.tree \in Trees /\ p.sn \in Nat /\ p.upstream \in BOOLEAN
      /\ p.type = "Upstream"
  BY DEF UpstreamMsgs
<1>2. /\ r2.state = r.state /\ r2.current_sync_sn = r.current_sync_sn
      /\ r2.neighbor_snapshot_sn = r.neighbor_snapshot_sn
      /\ r2.time_of_boot = r.time_of_boot
      /\ OwnSnapshot(n, r2) = OwnSnapshot(n, r)
      /\ \A t \in Trees : r2.last_sequence_number[t] =
                           IF t = p.tree THEN p.sn ELSE r.last_sequence_number[t]
      /\ \A t \in Trees : t \in r2.tree_metric_state <=>
                           IF t = p.tree THEN p.upstream = TRUE
                           ELSE t \in r.tree_metric_state
  BY <1>1 DEF Neighbor, OwnSnapshot
<1>3. p.sn > r.neighbor_snapshot_sn /\ r.current_sync_sn > 0
  BY DEF IsNews
<1>4. ASSUME NEW X, Follows(r, m, X, M)
      PROVE  Follows(r2, m, X, M)
  <2>1. SUFFICES ASSUME NEW t \in Trees
                 PROVE  IF r2.last_sequence_number[t] > r2.neighbor_snapshot_sn
                        THEN \E q \in M :
                               /\ q.type = "Upstream" /\ q.src = m
                               /\ q.boot = r2.time_of_boot
                               /\ q.tree = t /\ q.sn = r2.last_sequence_number[t]
                               /\ q.upstream = (t \in r2.tree_metric_state)
                        ELSE t \in r2.tree_metric_state <=> t \in X
    BY DEF Follows
  <2>2. CASE t = p.tree
    <3>1. p.upstream = (t \in r2.tree_metric_state)
      BY <1>1, <1>2, <2>2
    <3> QED
      BY <1>1, <1>2, <1>3, <2>2, <3>1
  <2>3. CASE t # p.tree
    BY <1>2, <1>4, <2>3 DEF Follows
  <2> QED
    BY <2>2, <2>3
<1>5. r.current_sync_sn # 0
  BY <1>3 DEF Neighbor
<1> QED
  BY <1>2, <1>3, <1>4, <1>5 DEF GoodObject

LEMMA ReceiveUpstreamIsGood ==
  ASSUME SnapshotInv, NEW n \in Routers, NEW m \in Routers, ReceiveUpstream(n, m)
  PROVE  GoodStep(n, m, msgs)
<1>1. /\ SnapshotsAreSound /\ TypeOK /\ SnapshotsArePast /\ SnapshotsAreUnique
      /\ GoodSyncs /\ GoodObjects /\ snapshots \subseteq Snapshots
  BY DEF SnapshotInv, SnapshotsAreSound, TypeInv, TypeOK
<1> DEFINE r == nbr[n][m]
           Updated(p) ==
             [r EXCEPT !.last_sequence_number[p.tree] = p.sn,
                       !.tree_metric_state = IF p.upstream THEN @ \cup {p.tree}
                                             ELSE @ \ {p.tree}]
<1>2. PICK p \in msgs :
        /\ p.type = "Upstream" /\ p.src = m
        /\ \/ AdjacencyReset(n, m, p.boot)
           \/ /\ p.boot = r.time_of_boot
              /\ IsNews(r, p) /\ SetNeighbor(n, m, Updated(p))
              /\ UNCHANGED <<boot, sequencer, msgs, snapshots>>
  BY DEF ReceiveUpstream
<1>3. p \in UpstreamMsgs /\ p.boot \in Nat
  BY <1>1, <1>2, PacketTypes DEF UpstreamMsgs
<1>4. CASE AdjacencyReset(n, m, p.boot)
  BY <1>1, <1>3, <1>4, AdjacencyResetIsGood
<1>5. CASE /\ p.boot = r.time_of_boot
           /\ IsNews(r, p) /\ SetNeighbor(n, m, Updated(p))
           /\ UNCHANGED <<boot, sequencer, msgs, snapshots>>
  <2>1. r \in Neighbor /\ GoodObject(n, m, r, msgs, snapshots)
    BY <1>1, NeighborTypes DEF GoodObjects
  <2>2. GoodObject(n, m, Updated(p), msgs, snapshots)
    BY <1>1, <1>2, <1>3, <1>5, <2>1, NewsIsGood
  <2> HIDE DEF Updated
  <2> QED
    BY <1>1, <1>5, <2>2 DEF SnapshotsArePast, SnapshotsAreUnique, GoodSyncs, GoodStep
<1> QED
  BY <1>2, <1>4, <1>5

-----------------------------------------------------------------------------
(* Every step preserves SnapshotInv; TypeInv is preserved by TypeInvNext. *)

LEMMA SendUpstreamIsGood ==
  ASSUME SnapshotsAreSound, NEW n \in Routers, NEW t \in Trees, NEW upstream \in BOOLEAN,
         SendUpstream(n, t, upstream), TypeInv'
  PROVE  SnapshotsAreSound' /\ msgs \subseteq msgs' /\ UNCHANGED <<nbr, snapshots>>
<1> DEFINE p == [type |-> "Upstream", src |-> n, boot |-> NextBootTime(n),
                 sn |-> NextSequenceNumber(n), tree |-> t, upstream |-> upstream]
<1>1. TypeOK /\ SnapshotsArePast /\ SnapshotsAreUnique /\ GoodSyncs
  BY DEF SnapshotsAreSound, TypeInv
<1>2. GetSequenceNumber(n) /\ Send({p}) /\ UNCHANGED <<nbr, snapshots>>
  BY DEF SendUpstream
<1>3. SnapshotsArePast' /\ SnapshotsAreUnique'
  BY <1>1, <1>2, ClockKeepsSnapshots
<1>4. p.type # "Sync"
  OBVIOUS
<1> HIDE DEF p
<1>5. GoodSyncs' /\ msgs \subseteq msgs'
  BY <1>1, <1>2, <1>4, OnePacket
<1> QED
  BY <1>2, <1>3, <1>5 DEF SnapshotsAreSound

LEMMA RestartIsGood ==
  ASSUME SnapshotsAreSound, NEW n \in Routers, NEW farewell \in BOOLEAN,
         Restart(n, farewell), TypeInv'
  PROVE  /\ SnapshotsAreSound' /\ msgs \subseteq msgs' /\ UNCHANGED snapshots
         /\ \A i, j \in Routers :
              nbr'[i][j] = (IF i = n THEN NoNeighbor ELSE nbr[i][j])
<1>1. TypeOK /\ SnapshotsArePast /\ SnapshotsAreUnique /\ GoodSyncs
  BY DEF SnapshotsAreSound, TypeInv
<1>2. UNCHANGED snapshots /\ boot' = [boot EXCEPT ![n] = @ + 1]
      /\ sequencer' = [sequencer EXCEPT ![n] = 0]
      /\ nbr' = [nbr EXCEPT ![n] = [m \in Routers |-> NoNeighbor]]
  BY DEF Restart
<1>3. \A q \in msgs' : q \in msgs \/ q.type = "Hello"
  BY DEF Restart, Send, Farewell
<1>4. msgs \subseteq msgs'
  BY DEF Restart, Send
<1>5. GoodSyncs'
  BY <1>1, <1>2, <1>3 DEF GoodSyncs
<1>6. \A i, j \in Routers : nbr'[i][j] = (IF i = n THEN NoNeighbor ELSE nbr[i][j])
  BY <1>1, <1>2 DEF TypeOK
<1>7. \A s \in snapshots : Past(boot', sequencer', s.owner, s.boot, s.sn)
  <2>1. SUFFICES ASSUME NEW s \in snapshots
                 PROVE  Past(boot', sequencer', s.owner, s.boot, s.sn)
    OBVIOUS
  <2>2. s.owner \in Routers /\ s.boot \in Nat /\ boot[s.owner] \in Nat
    BY <1>1 DEF TypeOK, Snapshots
  <2>3. Past(boot, sequencer, s.owner, s.boot, s.sn)
    BY <1>1 DEF SnapshotsArePast
  <2>4. boot'[s.owner] = IF s.owner = n THEN boot[s.owner] + 1 ELSE boot[s.owner]
    BY <1>1, <1>2, <2>2 DEF TypeOK
  <2>5. s.owner # n => sequencer'[s.owner] = sequencer[s.owner]
    BY <1>1, <1>2, <2>2 DEF TypeOK
  <2> QED
    BY <2>2, <2>3, <2>4, <2>5 DEF Past
<1> QED
  BY <1>1, <1>2, <1>4, <1>5, <1>6, <1>7
     DEF SnapshotsAreSound, SnapshotsArePast, SnapshotsAreUnique

\* The objects that a step leaves alone stay good.
LEMMA GoodObjectsStay ==
  ASSUME GoodObjects, msgs \subseteq msgs', snapshots \subseteq snapshots'
  PROVE  \A i, j \in Routers : GoodObject(i, j, nbr[i][j], msgs', snapshots')
BY GoodGrows DEF GoodObjects

LEMMA GoodStepKeepsInv ==
  ASSUME SnapshotInv, NEW n \in Routers, NEW m \in Routers, GoodStep(n, m, msgs), TypeInv'
  PROVE  SnapshotInv'
<1>1. TypeOK /\ GoodObjects
  BY DEF SnapshotInv, SnapshotsAreSound, TypeInv
<1>2. msgs \subseteq msgs' /\ snapshots \subseteq snapshots' /\ SnapshotsAreSound'
  BY DEF GoodStep, SnapshotsAreSound
<1>3. \A i, j \in Routers : GoodObject(i, j, nbr[i][j], msgs', snapshots')
  BY <1>1, <1>2, GoodObjectsStay
<1>4. CASE UNCHANGED nbr
  BY <1>2, <1>3, <1>4 DEF SnapshotInv, GoodObjects
<1>5. ASSUME NEW r, SetNeighbor(n, m, r), GoodObject(n, m, r, msgs, snapshots')
      PROVE  SnapshotInv'
  <2>1. \A i, j \in Routers : nbr'[i][j] = IF i = n /\ j = m THEN r ELSE nbr[i][j]
    BY <1>1, <1>5 DEF TypeOK, SetNeighbor
  <2>2. GoodObject(n, m, r, msgs', snapshots')
    BY <1>2, <1>5, GoodGrows
  <2>3. \A i, j \in Routers : GoodObject(i, j, nbr'[i][j], msgs', snapshots')
    BY <1>3, <2>1, <2>2
  <2> QED
    BY <1>2, <2>3 DEF SnapshotInv, GoodObjects
<1> QED
  BY <1>4, <1>5 DEF GoodStep

LEMMA SnapshotInvInit == Init => SnapshotInv
<1> SUFFICES ASSUME Init PROVE SnapshotInv
  OBVIOUS
<1>1. TypeInv
  BY TypeInvInit
<1>2. msgs = {} /\ snapshots = {} /\ \A n, m \in Routers : nbr[n][m] = NoNeighbor
  BY DEF Init
<1> QED
  BY <1>1, <1>2, NoNeighborIsGood
  DEF SnapshotInv, SnapshotsAreSound, SnapshotsArePast, SnapshotsAreUnique, GoodSyncs,
      GoodObjects

LEMMA SnapshotInvNext == SnapshotInv /\ [Next]_vars => SnapshotInv'
<1> SUFFICES ASSUME SnapshotInv, [Next]_vars PROVE SnapshotInv'
  OBVIOUS
<1>1. TypeInv' /\ SnapshotsAreSound /\ GoodObjects
  BY TypeInvNext DEF SnapshotInv, SnapshotsAreSound
<1>2. ASSUME NEW n \in Routers, NEW m \in Routers,
             Receive(n, m) \/ SyncTimeout(n, m) \/ RemoveNeighbor(n, m)
      PROVE  SnapshotInv'
  <2>1. GoodWhileSynchronizing(n, m, msgs)
    BY <1>1 DEF GoodWhileSynchronizing, GoodObjects
  <2>2. GoodStep(n, m, msgs)
    BY <1>1, <1>2, <2>1, ReceiveSyncUnknownIsGood, ReceiveSyncResetIsGood,
       ReceiveSyncSlaveIsGood, ReceiveSyncMasterIsGood, ReceiveHelloIsGood,
       ReceiveUpstreamIsGood, SyncTimeoutIsGood, RemoveNeighborIsGood DEF Receive
  <2> QED
    BY <1>1, <2>2, GoodStepKeepsInv
<1>3. ASSUME NEW n \in Routers, NEW t \in Trees,
             BecomeUpstream(n, t) \/ StopUpstream(n, t)
      PROVE  SnapshotInv'
  <2>1. SnapshotsAreSound' /\ msgs \subseteq msgs' /\ UNCHANGED <<nbr, snapshots>>
    BY <1>1, <1>3, SendUpstreamIsGood DEF BecomeUpstream, StopUpstream
  <2> QED
    BY <1>1, <2>1, GoodObjectsStay DEF SnapshotInv, GoodObjects
<1>4. ASSUME NEW n \in Routers, NEW farewell \in BOOLEAN, Restart(n, farewell)
      PROVE  SnapshotInv'
  <2>1. /\ SnapshotsAreSound' /\ msgs \subseteq msgs' /\ UNCHANGED snapshots
        /\ \A i, j \in Routers :
             nbr'[i][j] = (IF i = n THEN NoNeighbor ELSE nbr[i][j])
    BY <1>1, <1>4, RestartIsGood
  <2>2. \A i, j \in Routers : GoodObject(i, j, nbr[i][j], msgs', snapshots')
    BY <1>1, <2>1, GoodObjectsStay
  <2> QED
    BY <2>1, <2>2, NoNeighborIsGood DEF SnapshotInv, GoodObjects
<1>5. CASE UNCHANGED vars
  BY <1>1, <1>5
  DEF SnapshotInv, SnapshotsAreSound, SnapshotsArePast, SnapshotsAreUnique, GoodSyncs,
      GoodObjects, vars
<1> QED
  BY <1>2, <1>3, <1>4, <1>5 DEF Next

\* Whatever Syncs are lost, repeated, delayed or cut short by a reset, and
\* whatever trees change meanwhile: a neighbor that is Synced has given exactly
\* one whole snapshot, and no sequenced message received during the
\* synchronization was overwritten by it.
THEOREM SyncedHoldsSnapshot == Spec => []SyncedHasSnapshot
<1>1. Init => SnapshotInv
  BY SnapshotInvInit
<1>2. SnapshotInv /\ [Next]_vars => SnapshotInv'
  BY SnapshotInvNext
<1>3. SnapshotInv => SyncedHasSnapshot
  BY DEF SnapshotInv, GoodObjects, GoodObject, SnapshotOf, Follows,
         SyncedHasSnapshot, ViewFollows
<1> QED
  BY <1>1, <1>2, <1>3, PTL DEF Spec

-----------------------------------------------------------------------------
(* What a router knows now: the inductive invariant *)

\* A sequenced message of m about t, of BootTime b.
Announcement(p, m, b, t) ==
  p.type = "Upstream" /\ p.src = m /\ p.boot = b /\ p.tree = t

\* Everything m said about t under BootTime b has an SN up to sn.
NothingAfter(M, m, b, t, sn) ==
  \A q \in M : Announcement(q, m, b, t) => q.sn <= sn

\* No sequenced message is ahead of its sender, hence a new one is newer than
\* all others.
UpstreamsArePast ==
  \A p \in msgs : p.type = "Upstream" => Past(boot, sequencer, p.src, p.boot, p.sn)

\* A router is UPSTREAM of a tree once, hence no longer when it is taken out.
NoTreeTwice == \A m \in Routers : IsInjective(mrt[m])

\* The last that m said about t is true.
LastWordIsTrue ==
  \A m \in Routers, p \in msgs : \A t \in Trees :
    Announcement(p, m, boot[m], t) /\ NothingAfter(msgs, m, boot[m], t, p.sn)
      => (p.upstream = TRUE <=> t \in ToSet(mrt[m]))

\* A snapshot of m is true of t as long as m said nothing about t after it.
SnapshotIsTrue ==
  \A m \in Routers, s \in snapshots : \A t \in Trees :
    s.owner = m /\ s.boot = boot[m] /\ NothingAfter(msgs, m, boot[m], t, s.sn)
      => (t \in ToSet(s.trees) <=> t \in ToSet(mrt[m]))

TablesAreTrue ==
  /\ UpstreamsArePast
  /\ NoTreeTwice
  /\ LastWordIsTrue
  /\ SnapshotIsTrue

ViewInv == SnapshotInv /\ TablesAreTrue

-----------------------------------------------------------------------------
(* The table of trees *)

LEMMA AppendTree ==
  ASSUME NEW s \in Seq(Trees), NEW t \in Trees, IsInjective(s), t \notin ToSet(s)
  PROVE  ToSet(Append(s, t)) = ToSet(s) \cup {t} /\ IsInjective(Append(s, t))
<1> DEFINE a == Append(s, t)
<1>1. /\ Len(s) \in Nat /\ DOMAIN s = 1 .. Len(s) /\ DOMAIN a = 1 .. (Len(s) + 1)
      /\ \A i \in DOMAIN s : a[i] = s[i]
      /\ a[Len(s) + 1] = t
  OBVIOUS
<1> HIDE DEF a
<1>2. \A i \in DOMAIN a : i \in DOMAIN s \/ i = Len(s) + 1
  BY <1>1
<1>3. DOMAIN s \subseteq DOMAIN a /\ Len(s) + 1 \in DOMAIN a
  BY <1>1
<1>4. ToSet(a) = ToSet(s) \cup {t}
  BY <1>1, <1>2, <1>3 DEF ToSet
<1>5. \A i \in DOMAIN s : s[i] # t
  BY DEF ToSet
<1>6. IsInjective(a)
  BY <1>1, <1>2, <1>5 DEF IsInjective
<1> QED
  BY <1>4, <1>6 DEF a

\* Where the elements of a sequence are after the removal of one of them.
LEMMA RemoveIndices ==
  ASSUME NEW s \in Seq(Trees), NEW i \in DOMAIN s
  PROVE  /\ DOMAIN RemoveAt(s, i) = 1 .. (Len(s) - 1)
         /\ \A j \in 1 .. (Len(s) - 1) :
              RemoveAt(s, i)[j] = IF j < i THEN s[j] ELSE s[j + 1]
<1> DEFINE u == SubSeq(s, 1, i - 1)
           v == SubSeq(s, i + 1, Len(s))
<1>1. Len(s) \in Nat /\ i \in 1 .. Len(s)
  OBVIOUS
<1>2. u \in Seq(Trees) /\ Len(u) = i - 1 /\ \A j \in 1 .. (i - 1) : u[j] = s[j]
  BY <1>1
<1>3. /\ v \in Seq(Trees) /\ Len(v) = Len(s) - i
      /\ \A j \in 1 .. (Len(s) - i) : v[j] = s[i + j]
  BY <1>1
<1> HIDE DEF u, v
<1>4. /\ Len(u \o v) = Len(u) + Len(v) /\ DOMAIN (u \o v) = 1 .. Len(u \o v)
      /\ \A j \in 1 .. (Len(u) + Len(v)) :
           (u \o v)[j] = IF j <= Len(u) THEN u[j] ELSE v[j - Len(u)]
  BY <1>2, <1>3
<1>5. DOMAIN (u \o v) = 1 .. (Len(s) - 1)
  BY <1>1, <1>2, <1>3, <1>4
<1>6. ASSUME NEW j \in 1 .. (Len(s) - 1)
      PROVE  (u \o v)[j] = IF j < i THEN s[j] ELSE s[j + 1]
  <2>1. j \in 1 .. (Len(u) + Len(v)) /\ (j <= Len(u) <=> j < i)
    BY <1>1, <1>2, <1>3
  <2>2. (u \o v)[j] = IF j < i THEN u[j] ELSE v[j - Len(u)]
    BY <1>4, <2>1
  <2>3. ASSUME j < i
        PROVE  (u \o v)[j] = s[j]
    BY <1>1, <1>2, <2>2, <2>3
  <2>4. ASSUME ~(j < i)
        PROVE  (u \o v)[j] = s[j + 1]
    <3>1. j - Len(u) \in 1 .. (Len(s) - i) /\ i + (j - Len(u)) = j + 1
      BY <1>1, <1>2, <2>4
    <3> QED
      BY <1>3, <2>2, <2>4, <3>1
  <2> QED
    BY <2>3, <2>4
<1> QED
  BY <1>5, <1>6 DEF RemoveAt, u, v

LEMMA RemoveTree ==
  ASSUME NEW s \in Seq(Trees), IsInjective(s), NEW i \in DOMAIN s
  PROVE  ToSet(RemoveAt(s, i)) = ToSet(s) \ {s[i]} /\ IsInjective(RemoveAt(s, i))
<1> DEFINE a == RemoveAt(s, i)
           Old(j) == IF j < i THEN j ELSE j + 1
<1>1. Len(s) \in Nat /\ i \in 1 .. Len(s) /\ DOMAIN s = 1 .. Len(s)
  OBVIOUS
<1>2. DOMAIN a = 1 .. (Len(s) - 1) /\ \A j \in DOMAIN a : a[j] = s[Old(j)]
  BY RemoveIndices
<1> HIDE DEF a
<1>3. \A j \in DOMAIN a : Old(j) \in DOMAIN s /\ Old(j) # i
  BY <1>1, <1>2
<1>4. \A j, k \in DOMAIN a : Old(j) = Old(k) => j = k
  BY <1>1, <1>2
<1>5. \A l \in DOMAIN s : l # i => \E j \in DOMAIN a : Old(j) = l
  <2>1. SUFFICES ASSUME NEW l \in DOMAIN s, l # i
                 PROVE  \E j \in DOMAIN a : Old(j) = l
    OBVIOUS
  <2>2. CASE l < i
    BY <1>1, <1>2, <2>2
  <2>3. CASE l > i
    <3>1. l - 1 \in DOMAIN a /\ Old(l - 1) = l
      BY <1>1, <1>2, <2>3
    <3> QED
      BY <3>1
  <2> QED
    BY <1>1, <2>1, <2>2, <2>3
<1> HIDE DEF Old
<1>6. \A l \in DOMAIN s : s[l] = s[i] => l = i
  BY DEF IsInjective
<1>7. ToSet(a) = ToSet(s) \ {s[i]}
  BY <1>2, <1>3, <1>5, <1>6 DEF ToSet
<1>8. IsInjective(a)
  BY <1>2, <1>3, <1>4 DEF IsInjective
<1> QED
  BY <1>7, <1>8 DEF a

-----------------------------------------------------------------------------
(* What a step can do to the table, the clock and the messages of a router *)

NoNewUpstream == msgs \subseteq msgs' /\ \A p \in msgs' : p \in msgs \/ p.type # "Upstream"

\* Nothing that others are told about a tree changes,
Silent == UNCHANGED <<boot, sequencer, mrt, snapshots>> /\ NoNewUpstream

\* or n takes a number, for a snapshot or for what says nothing of its table,
Counts(n) ==
  /\ GetSequenceNumber(n)
  /\ \A s \in snapshots' : s \in snapshots \/ (s.owner = n /\ s.trees = mrt[n])
  /\ UNCHANGED mrt /\ NoNewUpstream

\* or n changes its table by one tree and says so.
Announces(n, t, upstream) ==
  /\ SendUpstream(n, t, upstream)
  /\ \A o \in Routers : o # n => mrt'[o] = mrt[o]
  /\ IsInjective(mrt'[n])
  /\ \A u \in Trees : u \in ToSet(mrt'[n]) <=>
                       IF u = t THEN upstream = TRUE ELSE u \in ToSet(mrt[n])

LEMMA ResetCounts ==
  ASSUME NEW n, NEW m, NEW b, AdjacencyReset(n, m, b), UNCHANGED mrt
  PROVE  Counts(n)
BY DEF AdjacencyReset, StartSnapshot, Send, Sync, NoNewUpstream, Counts

LEMMA ReceiveKinds ==
  ASSUME NEW n \in Routers, NEW m \in Routers,
         Receive(n, m) \/ SyncTimeout(n, m) \/ RemoveNeighbor(n, m)
  PROVE  Silent \/ Counts(n)
<1>1. \A i, j, r, k, master : Sync(i, j, r, k, master).type = "Sync"
  BY DEF Sync
<1>2. \A X : Send(X) /\ (\A p \in X : p.type = "Sync") => NoNewUpstream
  BY DEF Send, NoNewUpstream
<1>3. UNCHANGED msgs => NoNewUpstream
  BY DEF NoNewUpstream
<1>4. \A i, j, r, k, master : Send({Sync(i, j, r, k, master)}) => NoNewUpstream
  BY <1>1, <1>2
<1>5. StartSnapshot(n) /\ UNCHANGED mrt /\ NoNewUpstream => Counts(n)
  BY DEF StartSnapshot, Counts
<1>6. \A r, p : MasterAnswers(n, m, r, p) => NoNewUpstream
  BY <1>4 DEF MasterAnswers
<1>7. \A r, p : SlaveAdvances(n, m, r, p) => NoNewUpstream
  BY <1>3, <1>4 DEF SlaveAdvances
<1>8. CASE ReceiveSyncUnknown(n, m)
  BY <1>5, <1>6, <1>8, ResetCounts DEF ReceiveSyncUnknown
<1>9. CASE ReceiveSyncReset(n, m)
  BY <1>9, ResetCounts DEF ReceiveSyncReset
<1>10. CASE ReceiveSyncSlave(n, m)
  BY <1>3, <1>4, <1>6, <1>7, <1>10 DEF ReceiveSyncSlave, Silent
<1>11. CASE ReceiveSyncMaster(n, m)
  BY <1>6, <1>11 DEF ReceiveSyncMaster, Silent
<1>12. CASE ReceiveHello(n, m)
  BY <1>3, <1>12, ResetCounts DEF ReceiveHello, Silent
<1>13. CASE ReceiveUpstream(n, m)
  BY <1>3, <1>13, ResetCounts DEF ReceiveUpstream, Silent
<1>14. CASE SyncTimeout(n, m)
  BY <1>4, <1>14 DEF SyncTimeout, Silent
<1>15. CASE RemoveNeighbor(n, m)
  BY <1>3, <1>15 DEF RemoveNeighbor, Silent
<1> QED
  BY <1>8, <1>9, <1>10, <1>11, <1>12, <1>13, <1>14, <1>15 DEF Receive

LEMMA TableKinds ==
  ASSUME TypeOK, NoTreeTwice, NEW n \in Routers, NEW t \in Trees,
         BecomeUpstream(n, t) \/ StopUpstream(n, t)
  PROVE  \E upstream \in BOOLEAN : Announces(n, t, upstream)
<1>1. mrt \in [Routers -> Seq(Trees)] /\ mrt[n] \in Seq(Trees) /\ IsInjective(mrt[n])
  BY DEF TypeOK, NoTreeTwice
<1>2. CASE BecomeUpstream(n, t)
  <2>1. /\ mrt' = [mrt EXCEPT ![n] = Append(mrt[n], t)] /\ t \notin ToSet(mrt[n])
        /\ SendUpstream(n, t, TRUE)
    BY <1>2 DEF BecomeUpstream
  <2>2. mrt'[n] = Append(mrt[n], t) /\ \A o \in Routers : o # n => mrt'[o] = mrt[o]
    BY <1>1, <2>1
  <2>3. ToSet(mrt'[n]) = ToSet(mrt[n]) \cup {t} /\ IsInjective(mrt'[n])
    BY <1>1, <2>1, <2>2, AppendTree
  <2>4. Announces(n, t, TRUE)
    BY <2>1, <2>2, <2>3 DEF Announces
  <2> QED
    BY <2>4
<1>3. CASE StopUpstream(n, t)
  <2>1. PICK i \in DOMAIN mrt[n] :
          mrt[n][i] = t /\ mrt' = [mrt EXCEPT ![n] = RemoveAt(mrt[n], i)]
    BY <1>3 DEF StopUpstream
  <2>2. mrt'[n] = RemoveAt(mrt[n], i) /\ \A o \in Routers : o # n => mrt'[o] = mrt[o]
    BY <1>1, <2>1
  <2>3. ToSet(mrt'[n]) = ToSet(mrt[n]) \ {t} /\ IsInjective(mrt'[n])
    BY <1>1, <2>1, <2>2, RemoveTree
  <2>4. Announces(n, t, FALSE)
    BY <1>3, <2>2, <2>3 DEF Announces, StopUpstream
  <2> QED
    BY <2>4
<1> QED
  BY <1>2, <1>3

-----------------------------------------------------------------------------
(* Each of the four kinds of step preserves the invariant. *)

LEMMA UpstreamTypes ==
  ASSUME TypeOK, NEW p \in msgs, p.type = "Upstream"
  PROVE  p.src \in Routers /\ p.boot \in Nat /\ p.sn \in Nat
BY PacketTypes DEF UpstreamMsgs

LEMMA SnapshotTypes ==
  ASSUME TypeOK, NEW s \in snapshots
  PROVE  s.owner \in Routers /\ s.boot \in Nat /\ s.sn \in Nat
BY DEF TypeOK, Snapshots

LEMMA NothingNew ==
  ASSUME NoNewUpstream, NEW m, NEW b, NEW t, NEW sn
  PROVE  NothingAfter(msgs', m, b, t, sn) <=> NothingAfter(msgs, m, b, t, sn)
BY DEF NoNewUpstream, NothingAfter, Announcement

\* Under a new BootTime nothing has been said yet.
LEMMA NewBootIsEmpty ==
  ASSUME TypeOK, UpstreamsArePast, SnapshotsArePast, NEW m \in Routers,
         NEW b \in Nat, b > boot[m]
  PROVE  /\ \A p \in msgs : \A t \in Trees : ~Announcement(p, m, b, t)
         /\ \A s \in snapshots : ~(s.owner = m /\ s.boot = b)
<1>1. boot[m] \in Nat
  BY DEF TypeOK
<1>2. ASSUME NEW p \in msgs, NEW t \in Trees, Announcement(p, m, b, t)
      PROVE  FALSE
  <2>1. p.type = "Upstream" /\ p.src = m /\ p.boot = b
    BY <1>2 DEF Announcement
  <2>2. Past(boot, sequencer, m, b, p.sn)
    BY <2>1 DEF UpstreamsArePast
  <2> QED
    BY <1>1, <2>2 DEF Past
<1>3. ASSUME NEW s \in snapshots, s.owner = m /\ s.boot = b
      PROVE  FALSE
  BY <1>1, <1>3 DEF SnapshotsArePast, Past
<1> QED
  BY <1>2, <1>3

\* A BootTime that get_sequence_number leaves is followed by an empty one.
LEMMA NextBootIsEmpty ==
  ASSUME TypeOK, UpstreamsArePast, SnapshotsArePast, NEW n \in Routers,
         GetSequenceNumber(n), NEW m \in Routers, boot'[m] # boot[m]
  PROVE  /\ \A p \in msgs : \A t \in Trees : ~Announcement(p, m, boot'[m], t)
         /\ \A s \in snapshots : ~(s.owner = m /\ s.boot = boot'[m])
<1>1. boot \in [Routers -> Nat] /\ boot' = [boot EXCEPT ![n] = NextBootTime(n)]
  BY DEF TypeOK, GetSequenceNumber
<1>2. m = n /\ boot'[m] = NextBootTime(n)
  BY <1>1
<1>3. boot'[m] = boot[m] + 1
  BY <1>2 DEF NextBootTime
<1>4. boot'[m] \in Nat /\ boot'[m] > boot[m]
  BY <1>1, <1>3
<1> QED
  BY <1>4, NewBootIsEmpty

LEMMA SilentKeepsView ==
  ASSUME TablesAreTrue, Silent
  PROVE  TablesAreTrue'
<1>1. UNCHANGED <<boot, sequencer, mrt, snapshots>> /\ NoNewUpstream
  BY DEF Silent
<1>2. \A p \in msgs' : p.type = "Upstream" => p \in msgs
  BY <1>1 DEF NoNewUpstream
<1>3. UpstreamsArePast' /\ NoTreeTwice'
  BY <1>1, <1>2 DEF TablesAreTrue, UpstreamsArePast, NoTreeTwice
<1>4. LastWordIsTrue'
  <2>1. \A p, m, b, t : Announcement(p, m, b, t) => p.type = "Upstream"
    BY DEF Announcement
  <2> QED
    BY <1>1, <1>2, <2>1, NothingNew DEF TablesAreTrue, LastWordIsTrue
<1>5. SnapshotIsTrue'
  BY <1>1, NothingNew DEF TablesAreTrue, SnapshotIsTrue
<1> QED
  BY <1>3, <1>4, <1>5 DEF TablesAreTrue

\* A snapshot is true when it is taken, also of a tree about which a message
\* follows at once: it has the SN before that of the message.
LEMMA NumberKeepsView ==
  ASSUME TypeOK, SnapshotsArePast, TablesAreTrue, NEW n \in Routers, Counts(n)
  PROVE  TablesAreTrue'
<1>1. TypeOK /\ UpstreamsArePast /\ SnapshotsArePast
  BY DEF TablesAreTrue
<1>2. GetSequenceNumber(n) /\ UNCHANGED mrt /\ NoNewUpstream
  BY DEF Counts
<1>3. \A p \in msgs' : p.type = "Upstream" => p \in msgs
  BY <1>2 DEF NoNewUpstream
<1>4. UpstreamsArePast' /\ NoTreeTwice'
  <2>1. ASSUME NEW p \in msgs', p.type = "Upstream"
        PROVE  Past(boot', sequencer', p.src, p.boot, p.sn)
    BY <1>1, <1>2, <1>3, <2>1, UpstreamTypes, ClocksAdvance DEF UpstreamsArePast
  <2> QED
    BY <1>2, <2>1 DEF UpstreamsArePast, TablesAreTrue, NoTreeTwice
<1>5. LastWordIsTrue'
  <2>1. SUFFICES ASSUME NEW m \in Routers, NEW p \in msgs', NEW t \in Trees,
                        Announcement(p, m, boot'[m], t),
                        NothingAfter(msgs', m, boot'[m], t, p.sn)
                 PROVE  p.upstream = TRUE <=> t \in ToSet(mrt[m])
    BY <1>2 DEF LastWordIsTrue
  <2>2. p \in msgs /\ boot'[m] = boot[m]
    BY <1>1, <1>2, <1>3, <2>1, NextBootIsEmpty DEF Announcement
  <2>3. NothingAfter(msgs, m, boot[m], t, p.sn)
    BY <1>2, <2>1, <2>2, NothingNew
  <2> QED
    BY <2>1, <2>2, <2>3 DEF TablesAreTrue, LastWordIsTrue
<1>6. SnapshotIsTrue'
  <2>1. SUFFICES ASSUME NEW m \in Routers, NEW s \in snapshots', NEW t \in Trees,
                        s.owner = m, s.boot = boot'[m],
                        NothingAfter(msgs', m, boot'[m], t, s.sn)
                 PROVE  t \in ToSet(s.trees) <=> t \in ToSet(mrt[m])
    BY <1>2 DEF SnapshotIsTrue
  <2>2. CASE s \in snapshots
    <3>1. boot'[m] = boot[m]
      BY <1>1, <1>2, <2>1, <2>2, NextBootIsEmpty
    <3>2. NothingAfter(msgs, m, boot[m], t, s.sn)
      BY <1>2, <2>1, <3>1, NothingNew
    <3> QED
      BY <2>1, <2>2, <3>1, <3>2 DEF TablesAreTrue, SnapshotIsTrue
  <2>3. CASE s \notin snapshots
    <3>1. s.owner = n /\ s.trees = mrt[n]
      BY <2>3 DEF Counts
    <3> QED
      BY <2>1, <3>1
  <2> QED
    BY <2>2, <2>3
<1> QED
  BY <1>4, <1>5, <1>6 DEF TablesAreTrue

\* After a message about t nothing older about t is the last word, and no
\* snapshot taken before covers t any more.
LEMMA AnnouncementKeepsView ==
  ASSUME TypeOK, SnapshotsArePast, TablesAreTrue, NEW n \in Routers, NEW t \in Trees,
         NEW upstream \in BOOLEAN, Announces(n, t, upstream)
  PROVE  TablesAreTrue'
<1> DEFINE b == NextBootTime(n)
           sn == NextSequenceNumber(n)
           p0 == [type |-> "Upstream", src |-> n, boot |-> b, sn |-> sn,
                  tree |-> t, upstream |-> upstream]
<1>1. TypeOK /\ UpstreamsArePast /\ SnapshotsArePast
  BY DEF TablesAreTrue
<1>2. GetSequenceNumber(n) /\ msgs' = msgs \cup {p0} /\ UNCHANGED snapshots
  BY DEF Announces, SendUpstream, Send
<1>3. /\ Past(boot', sequencer', n, b, sn) /\ ~Past(boot, sequencer, n, b, sn)
      /\ boot'[n] = b /\ b \in Nat /\ sn \in Nat
  BY <1>1, <1>2, ClocksAdvance, SequenceTypes
<1>4. /\ p0.type = "Upstream" /\ p0.src = n /\ p0.boot = b /\ p0.sn = sn
      /\ p0.tree = t /\ p0.upstream = upstream
  OBVIOUS
<1> HIDE DEF p0, b, sn
<1>5. UpstreamsArePast'
  <2>1. ASSUME NEW p \in msgs', p.type = "Upstream"
        PROVE  Past(boot', sequencer', p.src, p.boot, p.sn)
    <3>1. CASE p \in msgs
      BY <1>1, <1>2, <2>1, <3>1, UpstreamTypes, ClocksAdvance DEF UpstreamsArePast
    <3>2. CASE p = p0
      BY <1>3, <1>4, <3>2
    <3> QED
      BY <1>2, <3>1, <3>2
  <2> QED
    BY <2>1 DEF UpstreamsArePast
<1>6. NoTreeTwice'
  BY DEF TablesAreTrue, NoTreeTwice, Announces
<1>7. \A m \in Routers : m # n => boot'[m] = boot[m] /\ mrt'[m] = mrt[m]
  BY <1>1, <1>2 DEF TypeOK, GetSequenceNumber, Announces
\* Whatever was said, or stored in a snapshot, before p0 is older than p0.
<1>8. /\ \A p \in msgs : Announcement(p, n, b, t) => ~(sn <= p.sn)
      /\ \A s \in snapshots : s.owner = n /\ s.boot = b => ~(sn <= s.sn)
  <2>1. \A x \in Nat : Past(boot, sequencer, n, b, x) => ~(sn <= x)
    BY <1>1, <1>3 DEF Past, TypeOK
  <2>2. \A p \in msgs : Announcement(p, n, b, t) => ~(sn <= p.sn)
    BY <1>1, <2>1, UpstreamTypes DEF Announcement, UpstreamsArePast
  <2>3. \A s \in snapshots : s.owner = n /\ s.boot = b => ~(sn <= s.sn)
    BY <1>1, <2>1, SnapshotTypes DEF SnapshotsArePast
  <2> QED
    BY <2>2, <2>3
<1>9. Announcement(p0, n, b, t)
  BY <1>4 DEF Announcement
\* Of other routers and trees nothing changes.
<1>10. \A m \in Routers : \A u \in Trees : m # n \/ u # t =>
         /\ \A c : ~Announcement(p0, m, c, u)
         /\ \A c, x : NothingAfter(msgs', m, c, u, x) <=> NothingAfter(msgs, m, c, u, x)
         /\ u \in ToSet(mrt'[m]) <=> u \in ToSet(mrt[m])
  <2>1. SUFFICES ASSUME NEW m \in Routers, NEW u \in Trees, m # n \/ u # t
                 PROVE  /\ \A c : ~Announcement(p0, m, c, u)
                        /\ \A c, x : NothingAfter(msgs', m, c, u, x)
                                       <=> NothingAfter(msgs, m, c, u, x)
                        /\ u \in ToSet(mrt'[m]) <=> u \in ToSet(mrt[m])
    OBVIOUS
  <2>2. \A c : ~Announcement(p0, m, c, u)
    BY <1>4, <2>1 DEF Announcement
  <2>3. \A c, x : NothingAfter(msgs', m, c, u, x) <=> NothingAfter(msgs, m, c, u, x)
    BY <1>2, <2>2 DEF NothingAfter
  <2>4. u \in ToSet(mrt'[m]) <=> u \in ToSet(mrt[m])
    BY <1>7, <2>1 DEF Announces
  <2> QED
    BY <2>2, <2>3, <2>4
<1>11. LastWordIsTrue'
  <2>1. SUFFICES ASSUME NEW m \in Routers, NEW p \in msgs', NEW u \in Trees,
                        Announcement(p, m, boot'[m], u),
                        NothingAfter(msgs', m, boot'[m], u, p.sn)
                 PROVE  p.upstream = TRUE <=> u \in ToSet(mrt'[m])
    BY DEF LastWordIsTrue
  <2>2. CASE m = n /\ u = t
    <3>1. sn <= p.sn
      BY <1>2, <1>3, <1>4, <1>9, <2>1, <2>2 DEF NothingAfter
    <3>2. p = p0
      BY <1>2, <1>3, <1>8, <2>1, <2>2, <3>1
    <3> QED
      BY <1>4, <2>2, <3>2 DEF Announces
  <2>3. CASE m # n \/ u # t
    <3>1. p \in msgs
      BY <1>2, <1>10, <2>1, <2>3
    <3>2. boot'[m] = boot[m]
      BY <1>1, <1>2, <2>1, <3>1, NextBootIsEmpty
    <3>3. NothingAfter(msgs, m, boot[m], u, p.sn)
      BY <1>10, <2>1, <2>3, <3>2
    <3> QED
      BY <1>10, <2>1, <2>3, <3>1, <3>2, <3>3 DEF TablesAreTrue, LastWordIsTrue
  <2> QED
    BY <2>2, <2>3
<1>12. SnapshotIsTrue'
  <2>1. SUFFICES ASSUME NEW m \in Routers, NEW s \in snapshots, NEW u \in Trees,
                        s.owner = m, s.boot = boot'[m],
                        NothingAfter(msgs', m, boot'[m], u, s.sn)
                 PROVE  u \in ToSet(s.trees) <=> u \in ToSet(mrt'[m])
    BY <1>2 DEF SnapshotIsTrue
  <2>2. CASE m = n /\ u = t
    <3>1. sn <= s.sn
      BY <1>2, <1>3, <1>4, <1>9, <2>1, <2>2 DEF NothingAfter
    <3> QED
      BY <1>3, <1>8, <2>1, <2>2, <3>1
  <2>3. CASE m # n \/ u # t
    <3>1. boot'[m] = boot[m]
      BY <1>1, <1>2, <2>1, NextBootIsEmpty
    <3>2. NothingAfter(msgs, m, boot[m], u, s.sn)
      BY <1>10, <2>1, <2>3, <3>1
    <3> QED
      BY <1>10, <2>1, <2>3, <3>1, <3>2 DEF TablesAreTrue, SnapshotIsTrue
  <2> QED
    BY <2>2, <2>3
<1> QED
  BY <1>5, <1>6, <1>11, <1>12 DEF TablesAreTrue

LEMMA RestartKeepsView ==
  ASSUME TypeOK, SnapshotsArePast, TablesAreTrue, NEW n \in Routers,
         NEW farewell \in BOOLEAN, Restart(n, farewell)
  PROVE  TablesAreTrue'
<1>1. TypeOK /\ UpstreamsArePast /\ SnapshotsArePast
  BY DEF TablesAreTrue
<1>2. /\ boot' = [boot EXCEPT ![n] = @ + 1] /\ sequencer' = [sequencer EXCEPT ![n] = 0]
      /\ mrt' = [mrt EXCEPT ![n] = <<>>] /\ UNCHANGED snapshots
  BY DEF Restart
<1>3. NoNewUpstream
  BY DEF Restart, Send, Farewell, NoNewUpstream
<1>4. /\ boot[n] \in Nat /\ boot'[n] = boot[n] + 1 /\ mrt'[n] = <<>>
      /\ \A m \in Routers : m # n =>
           boot'[m] = boot[m] /\ sequencer'[m] = sequencer[m] /\ mrt'[m] = mrt[m]
  BY <1>1, <1>2 DEF TypeOK
<1>5. \A p \in msgs' : p.type = "Upstream" => p \in msgs
  BY <1>3 DEF NoNewUpstream
<1>6. /\ \A p \in msgs : \A t \in Trees : ~Announcement(p, n, boot'[n], t)
      /\ \A s \in snapshots : ~(s.owner = n /\ s.boot = boot'[n])
  BY <1>1, <1>4, NewBootIsEmpty
<1>7. UpstreamsArePast'
  <2>1. SUFFICES ASSUME NEW p \in msgs, p.type = "Upstream"
                 PROVE  Past(boot', sequencer', p.src, p.boot, p.sn)
    BY <1>5 DEF UpstreamsArePast
  <2>2. p.src \in Routers /\ p.boot \in Nat
    BY <1>1, <2>1, UpstreamTypes
  <2>3. Past(boot, sequencer, p.src, p.boot, p.sn)
    BY <1>1, <2>1 DEF UpstreamsArePast
  <2> QED
    BY <1>4, <2>2, <2>3 DEF Past
<1>8. NoTreeTwice'
  <2>1. IsInjective(<<>>)
    BY DEF IsInjective
  <2> QED
    BY <1>4, <2>1 DEF TablesAreTrue, NoTreeTwice
<1>9. LastWordIsTrue'
  <2>1. SUFFICES ASSUME NEW m \in Routers, NEW p \in msgs', NEW t \in Trees,
                        Announcement(p, m, boot'[m], t),
                        NothingAfter(msgs', m, boot'[m], t, p.sn)
                 PROVE  p.upstream = TRUE <=> t \in ToSet(mrt'[m])
    BY DEF LastWordIsTrue
  <2>2. p \in msgs /\ m # n
    BY <1>5, <1>6, <2>1 DEF Announcement
  <2>3. NothingAfter(msgs, m, boot[m], t, p.sn)
    BY <1>3, <1>4, <2>1, <2>2, NothingNew
  <2> QED
    BY <1>4, <2>1, <2>2, <2>3 DEF TablesAreTrue, LastWordIsTrue
<1>10. SnapshotIsTrue'
  <2>1. SUFFICES ASSUME NEW m \in Routers, NEW s \in snapshots, NEW t \in Trees,
                        s.owner = m, s.boot = boot'[m],
                        NothingAfter(msgs', m, boot'[m], t, s.sn)
                 PROVE  t \in ToSet(s.trees) <=> t \in ToSet(mrt'[m])
    BY <1>2 DEF SnapshotIsTrue
  <2>2. m # n
    BY <1>6, <2>1
  <2>3. NothingAfter(msgs, m, boot[m], t, s.sn)
    BY <1>3, <1>4, <2>1, <2>2, NothingNew
  <2> QED
    BY <1>4, <2>1, <2>2, <2>3 DEF TablesAreTrue, SnapshotIsTrue
<1> QED
  BY <1>7, <1>8, <1>9, <1>10 DEF TablesAreTrue

-----------------------------------------------------------------------------
(* The theorem *)

LEMMA ViewInvInit == Init => ViewInv
<1> SUFFICES ASSUME Init PROVE ViewInv
  OBVIOUS
<1>1. SnapshotInv
  BY SnapshotInvInit
<1>2. msgs = {} /\ snapshots = {} /\ \A m \in Routers : mrt[m] = <<>>
  BY DEF Init
<1>3. IsInjective(<<>>)
  BY DEF IsInjective
<1> QED
  BY <1>1, <1>2, <1>3
  DEF ViewInv, TablesAreTrue, UpstreamsArePast, NoTreeTwice, LastWordIsTrue,
      SnapshotIsTrue

LEMMA ViewInvNext == ViewInv /\ [Next]_vars => ViewInv'
<1> SUFFICES ASSUME ViewInv, [Next]_vars PROVE ViewInv'
  OBVIOUS
<1>1. SnapshotInv' /\ TypeOK /\ SnapshotsArePast /\ TablesAreTrue /\ NoTreeTwice
  BY SnapshotInvNext DEF ViewInv, SnapshotInv, SnapshotsAreSound, TypeInv, TablesAreTrue
<1>2. ASSUME NEW n \in Routers, Silent \/ Counts(n)
      PROVE  ViewInv'
  BY <1>1, <1>2, SilentKeepsView, NumberKeepsView DEF ViewInv
<1>3. ASSUME NEW n \in Routers, NEW m \in Routers,
             Receive(n, m) \/ SyncTimeout(n, m) \/ RemoveNeighbor(n, m)
      PROVE  ViewInv'
  BY <1>2, <1>3, ReceiveKinds
<1>4. ASSUME NEW n \in Routers, NEW t \in Trees,
             BecomeUpstream(n, t) \/ StopUpstream(n, t)
      PROVE  ViewInv'
  BY <1>1, <1>4, TableKinds, AnnouncementKeepsView DEF ViewInv
<1>5. ASSUME NEW n \in Routers, NEW farewell \in BOOLEAN, Restart(n, farewell)
      PROVE  ViewInv'
  BY <1>1, <1>5, RestartKeepsView DEF ViewInv
<1>6. CASE UNCHANGED vars
  BY <1>1, <1>6, SilentKeepsView DEF ViewInv, vars, Silent, NoNewUpstream
<1> QED
  BY <1>3, <1>4, <1>5, <1>6 DEF Next

\* What n holds of t is either the last word of m or comes from a snapshot
\* after which m said nothing of t.
LEMMA ViewInvImpliesCurrent == ViewInv => SyncedViewIsCurrent
<1> SUFFICES ASSUME ViewInv, NEW n \in Routers, NEW m \in Routers, NEW t \in Trees,
                    nbr[n][m].state = "Synced", nbr[n][m].time_of_boot = boot[m],
                    \A p \in msgs :
                      p.type = "Upstream" /\ p.src = m /\ p.boot = boot[m] /\ p.tree = t
                        => \/ p.sn <= nbr[n][m].neighbor_snapshot_sn
                           \/ p.sn <= nbr[n][m].last_sequence_number[t]
             PROVE  t \in nbr[n][m].tree_metric_state <=> t \in ToSet(mrt[m])
  BY DEF SyncedViewIsCurrent
<1> DEFINE r == nbr[n][m]
<1>1. TypeOK /\ GoodObject(n, m, r, msgs, snapshots)
  BY DEF ViewInv, SnapshotInv, SnapshotsAreSound, TypeInv, GoodObjects
<1>2. r.neighbor_snapshot_sn \in Nat /\ r.last_sequence_number[t] \in Nat
  BY <1>1, NeighborTypes DEF Neighbor
<1>3. PICK s \in snapshots :
        /\ SnapshotOf(s, m, boot[m], r.neighbor_snapshot_sn)
        /\ Follows(r, m, ToSet(s.trees), msgs)
  BY <1>1 DEF GoodObject
<1>4. \A p \in msgs : Announcement(p, m, boot[m], t) => p.sn \in Nat
  BY <1>1, UpstreamTypes DEF Announcement
<1>5. \A p \in msgs : Announcement(p, m, boot[m], t) =>
        p.sn <= r.neighbor_snapshot_sn \/ p.sn <= r.last_sequence_number[t]
  BY DEF Announcement
<1>6. CASE r.last_sequence_number[t] > r.neighbor_snapshot_sn
  <2>1. PICK p \in msgs :
          /\ p.type = "Upstream" /\ p.src = m /\ p.boot = r.time_of_boot
          /\ p.tree = t /\ p.sn = r.last_sequence_number[t]
          /\ p.upstream = (t \in r.tree_metric_state)
    BY <1>3, <1>6 DEF Follows
  <2>2. Announcement(p, m, boot[m], t)
    BY <2>1 DEF Announcement
  <2>3. NothingAfter(msgs, m, boot[m], t, p.sn)
    BY <1>2, <1>4, <1>5, <1>6, <2>1 DEF NothingAfter
  <2>4. p.upstream = TRUE <=> t \in ToSet(mrt[m])
    BY <2>2, <2>3 DEF ViewInv, TablesAreTrue, LastWordIsTrue
  <2> QED
    BY <2>1, <2>4
<1>7. CASE ~(r.last_sequence_number[t] > r.neighbor_snapshot_sn)
  <2>1. t \in r.tree_metric_state <=> t \in ToSet(s.trees)
    BY <1>3, <1>7 DEF Follows
  <2>2. s.owner = m /\ s.boot = boot[m] /\ s.sn = r.neighbor_snapshot_sn
    BY <1>3 DEF SnapshotOf
  <2>3. NothingAfter(msgs, m, boot[m], t, s.sn)
    BY <1>2, <1>4, <1>5, <1>7, <2>2 DEF NothingAfter
  <2> QED
    BY <2>1, <2>2, <2>3 DEF ViewInv, TablesAreTrue, SnapshotIsTrue
<1> QED
  BY <1>6, <1>7

\* When nothing m said about t after the snapshot is still to be received by a
\* Synced n, n knows whether m is UPSTREAM of t now: the filter on sequenced
\* messages drops no news, through wraps of the SN and restarts too.
THEOREM ViewIsCurrent == Spec => []SyncedViewIsCurrent
<1>1. Init => ViewInv
  BY ViewInvInit
<1>2. ViewInv /\ [Next]_vars => ViewInv'
  BY ViewInvNext
<1>3. ViewInv => SyncedViewIsCurrent
  BY ViewInvImpliesCurrent
<1> QED
  BY <1>1, <1>2, <1>3, PTL DEF Spec

-----------------------------------------------------------------------------
(* Synced pairs.  Only what a Sync says of snapshots counts from here on:  *)
(* which snapshot of its sender it belongs to (boot, my_snapshot_sn), and  *)
(* which one of its receiver the sender knows (neighbor_boot_time,         *)
(* neighbor_snapshot_sn, 0 before it knows one).  An object has the same   *)
(* four fields, and every Sync copies those of the object it is built      *)
(* from.  Nothing is assumed of the trees a Sync carries, so that the      *)
(* argument also holds where the Sync timer mixes slices                   *)
(* (NeighborSyncRace) and where a checkpoint makes an object forget SNs    *)
(* (ReliableTransmission).                                                 *)

(* The inductive invariant *)

\* p is a Sync from n to m.
SyncOf(p, n, m) == p.type = "Sync" /\ p.src = n /\ p.dst = m

\* p is of snapshot sn, of BootTime b, of its sender.
OfSnapshot(p, b, sn) == p.boot = b /\ p.my_snapshot_sn = sn

\* A snapshot SN of m under BootTime b that n knows, unless it knows none,
\* comes from a Sync of m to n under its BootTime own, or under an earlier one.
Heard(M, n, m, b, sn, own) ==
  sn = 0 \/ \E p \in M : /\ SyncOf(p, m, n) /\ OfSnapshot(p, b, sn)
                         /\ p.neighbor_boot_time <= own

\* Snapshot SNs start at 1, so that 0 is none of them.
NumberedObject(r) == r.state # "Absent" => r.my_snapshot_sequencer > 0

\* No Sync of n for m belongs to a later snapshot than the object r that n has
\* for m, and those of the same snapshot name the same neighbor and no other
\* snapshot of it.
LatestObject(n, m, r, M) ==
  r.state # "Absent" =>
    \A p \in M : SyncOf(p, n, m) =>
      /\ \/ p.boot < r.my_snapshot_boot_time
         \/ p.boot = r.my_snapshot_boot_time /\ p.my_snapshot_sn <= r.my_snapshot_sequencer
      /\ OfSnapshot(p, r.my_snapshot_boot_time, r.my_snapshot_sequencer) =>
           /\ p.neighbor_boot_time = r.time_of_boot
           /\ p.neighbor_snapshot_sn \in {0, r.neighbor_snapshot_sn}

\* What an object knows was heard.
InformedObject(n, m, r, M) ==
  r.state # "Absent" =>
    Heard(M, n, m, r.time_of_boot, r.neighbor_snapshot_sn, r.my_snapshot_boot_time)

\* m has told n that it knows the very snapshot n is Synced with.
ConfirmedObject(n, m, r, M) ==
  r.state = "Synced" =>
    \E p \in M : /\ SyncOf(p, m, n)
                 /\ OfSnapshot(p, r.time_of_boot, r.neighbor_snapshot_sn)
                 /\ p.neighbor_boot_time = r.my_snapshot_boot_time
                 /\ p.neighbor_snapshot_sn = r.my_snapshot_sequencer

PairObject(n, m, r, M) ==
  /\ NumberedObject(r)
  /\ LatestObject(n, m, r, M)
  /\ InformedObject(n, m, r, M)
  /\ ConfirmedObject(n, m, r, M)
PairObjects == \A n, m \in Routers : PairObject(n, m, nbr[n][m], msgs)

\* No snapshot that a Sync or an object belongs to is ahead of its owner, hence
\* a new one is later than all of them.
SyncsArePast ==
  \A p \in msgs : p.type = "Sync" => Past(boot, sequencer, p.src, p.boot, p.my_snapshot_sn)
ObjectsArePast ==
  \A n, m \in Routers :
    nbr[n][m].state # "Absent" =>
      Past(boot, sequencer, n, nbr[n][m].my_snapshot_boot_time,
           nbr[n][m].my_snapshot_sequencer)

\* What a Sync says of its receiver was heard.
InformedSyncs ==
  \A p \in msgs : p.type = "Sync" =>
    Heard(msgs, p.src, p.dst, p.neighbor_boot_time, p.neighbor_snapshot_sn, p.boot)

\* Of two Syncs that two routers have sent each other under the BootTimes they
\* name, one was sent first: it cannot know a later snapshot than the one the
\* other still belongs to, while the other does the same.
Crossing(p, q) ==
  /\ SyncOf(q, p.dst, p.src)
  /\ p.neighbor_boot_time = q.boot /\ q.neighbor_boot_time = p.boot
  /\ p.my_snapshot_sn < q.neighbor_snapshot_sn
  /\ q.my_snapshot_sn < p.neighbor_snapshot_sn
NoneCross == \A p, q \in msgs : p.type = "Sync" => ~Crossing(p, q)

Agreement ==
  /\ SyncsArePast
  /\ ObjectsArePast
  /\ PairObjects
  /\ InformedSyncs
  /\ NoneCross

PairInv == TypeInv /\ Agreement

-----------------------------------------------------------------------------
(* Objects and packets, one at a time *)

\* p says what r says.
BuiltFrom(p, n, m, r) ==
  /\ SyncOf(p, n, m)
  /\ OfSnapshot(p, r.my_snapshot_boot_time, r.my_snapshot_sequencer)
  /\ p.neighbor_boot_time = r.time_of_boot
  /\ p.neighbor_snapshot_sn = r.neighbor_snapshot_sn

LEMMA SyncIsBuilt ==
  ASSUME NEW n, NEW m, NEW r, NEW k, NEW master
  PROVE  BuiltFrom(Sync(n, m, r, k, master), n, m, r)
BY DEF BuiltFrom, SyncOf, OfSnapshot, Sync

LEMMA SyncNumbers ==
  ASSUME NEW M, M \subseteq HelloMsgs \cup SyncMsgs \cup UpstreamMsgs,
         NEW p \in M, p.type = "Sync"
  PROVE  /\ p.src \in Routers /\ p.dst \in Routers
         /\ p.boot \in Nat /\ p.my_snapshot_sn \in Nat
         /\ p.neighbor_boot_time \in Nat /\ p.neighbor_snapshot_sn \in Nat
BY DEF HelloMsgs, SyncMsgs, UpstreamMsgs

LEMMA ObjectNumbers ==
  ASSUME NEW r \in Neighbor
  PROVE  /\ r.my_snapshot_boot_time \in Nat /\ r.my_snapshot_sequencer \in Nat
         /\ r.time_of_boot \in Nat /\ r.neighbor_snapshot_sn \in Nat
BY DEF Neighbor

\* What was heard stays heard.
LEMMA HeardGrows ==
  ASSUME NEW M, NEW M2, M \subseteq M2, NEW n, NEW m
  PROVE  /\ \A b, sn, own : Heard(M, n, m, b, sn, own) => Heard(M2, n, m, b, sn, own)
         /\ \A r : InformedObject(n, m, r, M) => InformedObject(n, m, r, M2)
         /\ \A r : ConfirmedObject(n, m, r, M) => ConfirmedObject(n, m, r, M2)
<1>1. \A b, sn, own : Heard(M, n, m, b, sn, own) => Heard(M2, n, m, b, sn, own)
  BY DEF Heard
<1>2. \A r : InformedObject(n, m, r, M) => InformedObject(n, m, r, M2)
  BY <1>1 DEF InformedObject
<1>3. \A r : ConfirmedObject(n, m, r, M) => ConfirmedObject(n, m, r, M2)
  BY DEF ConfirmedObject
<1> QED
  BY <1>1, <1>2, <1>3

\* An object that goes on with its snapshots, and at most learns that of the
\* neighbor or is confirmed by it.
LEMMA ContinuedPair ==
  ASSUME NEW n, NEW m, NEW r, NEW r2, NEW M, PairObject(n, m, r, M),
         r.state # "Absent",
         r2.my_snapshot_boot_time = r.my_snapshot_boot_time,
         r2.my_snapshot_sequencer = r.my_snapshot_sequencer,
         r2.time_of_boot = r.time_of_boot,
         \/ r2.neighbor_snapshot_sn = r.neighbor_snapshot_sn
         \/ /\ r.neighbor_snapshot_sn = 0
            /\ Heard(M, n, m, r2.time_of_boot, r2.neighbor_snapshot_sn,
                     r2.my_snapshot_boot_time),
         ConfirmedObject(n, m, r2, M)
  PROVE  PairObject(n, m, r2, M)
<1>1. NumberedObject(r2)
  BY DEF PairObject, NumberedObject
<1>2. LatestObject(n, m, r2, M)
  BY DEF PairObject, LatestObject
<1>3. InformedObject(n, m, r2, M)
  BY DEF PairObject, InformedObject
<1> QED
  BY <1>1, <1>2, <1>3 DEF PairObject

LEMMA FreshSequenceNumber ==
  ASSUME TypeOK, NEW n \in Routers
  PROVE  NextSequenceNumber(n) \in Nat /\ NextSequenceNumber(n) > 0
<1>1. sequencer[n] \in Nat
  BY DEF TypeOK
<1> QED
  BY <1>1 DEF NextSequenceNumber

\* An object with a new snapshot: no Sync under way belongs to that snapshot,
\* nor to a later one.
LEMMA FreshPair ==
  ASSUME TypeOK, SyncsArePast, NEW n \in Routers, NEW m \in Routers, NEW r,
         GetSequenceNumber(n), r.state \in Synchronizing,
         r.my_snapshot_boot_time = NextBootTime(n),
         r.my_snapshot_sequencer = NextSequenceNumber(n),
         Heard(msgs, n, m, r.time_of_boot, r.neighbor_snapshot_sn,
               r.my_snapshot_boot_time)
  PROVE  PairObject(n, m, r, msgs)
<1> DEFINE b == NextBootTime(n)
           sn == NextSequenceNumber(n)
<1>2. ~Past(boot, sequencer, n, b, sn) /\ b \in Nat /\ sn \in Nat /\ sn > 0
  BY ClocksAdvance, SequenceTypes, FreshSequenceNumber
<1> HIDE DEF b, sn
<1>3. ASSUME NEW p \in msgs, SyncOf(p, n, m)
      PROVE  p.boot < b \/ (p.boot = b /\ p.my_snapshot_sn < sn)
  <2>1. p.type = "Sync" /\ p.src = n
    BY <1>3 DEF SyncOf
  <2>2. Past(boot, sequencer, n, p.boot, p.my_snapshot_sn)
    BY <2>1 DEF SyncsArePast
  <2>3. p.boot \in Nat /\ p.my_snapshot_sn \in Nat /\ boot[n] \in Nat /\ sequencer[n] \in Nat
    BY <2>1, SyncNumbers DEF TypeOK
  <2> QED
    BY <1>2, <2>2, <2>3 DEF Past
<1>4. LatestObject(n, m, r, msgs)
  <2>1. SUFFICES ASSUME NEW p \in msgs, SyncOf(p, n, m)
                 PROVE  /\ p.boot < b \/ (p.boot = b /\ p.my_snapshot_sn <= sn)
                        /\ ~OfSnapshot(p, b, sn)
    BY DEF LatestObject, b, sn
  <2>2. p.boot \in Nat /\ p.my_snapshot_sn \in Nat
    BY <2>1, SyncNumbers DEF SyncOf, TypeOK
  <2> QED
    BY <1>2, <1>3, <2>1, <2>2 DEF OfSnapshot
<1>5. NumberedObject(r) /\ InformedObject(n, m, r, msgs)
  BY <1>2 DEF NumberedObject, InformedObject, sn
<1>6. ConfirmedObject(n, m, r, msgs)
  BY DEF ConfirmedObject, Synchronizing
<1> QED
  BY <1>4, <1>5, <1>6 DEF PairObject

LEMMA NoNeighborPair ==
  ASSUME NEW n, NEW m, NEW M
  PROVE  PairObject(n, m, NoNeighbor, M)
<1>1. NoNeighbor.state = "Absent"
  BY DEF NoNeighbor
<1> QED
  BY <1>1 DEF PairObject, NumberedObject, LatestObject, InformedObject, ConfirmedObject

-----------------------------------------------------------------------------
(* What a step does to one object, and the Syncs it sends *)

\* get_sequence_number never goes back.
ClocksGoOn ==
  \A o \in Routers : \A b, sn \in Nat :
    Past(boot, sequencer, o, b, sn) => Past(boot', sequencer', o, b, sn)

\* What is past stays past.
LEMMA PastStaysPast ==
  ASSUME TypeOK, SyncsArePast, ObjectsArePast, ClocksGoOn
  PROVE  /\ \A p \in msgs : p.type = "Sync" =>
              Past(boot', sequencer', p.src, p.boot, p.my_snapshot_sn)
         /\ \A n, m \in Routers : nbr[n][m].state # "Absent" =>
              Past(boot', sequencer', n, nbr[n][m].my_snapshot_boot_time,
                   nbr[n][m].my_snapshot_sequencer)
<1>1. ASSUME NEW p \in msgs, p.type = "Sync"
      PROVE  Past(boot', sequencer', p.src, p.boot, p.my_snapshot_sn)
  <2>1. p.src \in Routers /\ p.boot \in Nat /\ p.my_snapshot_sn \in Nat
    BY <1>1, SyncNumbers DEF TypeOK
  <2> QED
    BY <1>1, <2>1 DEF SyncsArePast, ClocksGoOn
<1>2. ASSUME NEW n \in Routers, NEW m \in Routers, nbr[n][m].state # "Absent"
      PROVE  Past(boot', sequencer', n, nbr[n][m].my_snapshot_boot_time,
                  nbr[n][m].my_snapshot_sequencer)
  <2>1. /\ nbr[n][m].my_snapshot_boot_time \in Nat
        /\ nbr[n][m].my_snapshot_sequencer \in Nat
    BY NeighborTypes, ObjectNumbers
  <2> QED
    BY <1>2, <2>1 DEF ObjectsArePast, ClocksGoOn
<1> QED
  BY <1>1, <1>2

\* n stores r for m, and sends at most Syncs built from it.
Stores(n, m, r) ==
  /\ SetNeighbor(n, m, r)
  /\ msgs \subseteq msgs'
  /\ \A p \in msgs' : p \in msgs \/ p.type # "Sync" \/ BuiltFrom(p, n, m, r)

LEMMA StoreKeepsPairs ==
  ASSUME TypeOK, TypeOK', Agreement, ClocksGoOn,
         NEW n \in Routers, NEW m \in Routers, NEW r \in Neighbor,
         r.state # "Absent", Stores(n, m, r), PairObject(n, m, r, msgs),
         Past(boot', sequencer', n, r.my_snapshot_boot_time, r.my_snapshot_sequencer)
  PROVE  Agreement'
<1> USE DEF Agreement
<1>1. /\ msgs \subseteq msgs'
      /\ \A p \in msgs' : p.type = "Sync" => p \in msgs \/ BuiltFrom(p, n, m, r)
  BY DEF Stores
<1>2. \A i, j \in Routers : nbr'[i][j] = IF i = n /\ j = m THEN r ELSE nbr[i][j]
  BY DEF TypeOK, Stores, SetNeighbor
<1>3. \A i, j \in Routers : PairObject(i, j, nbr'[i][j], msgs)
  BY <1>2 DEF PairObjects
<1>4. nbr'[n][m] = r
  BY <1>2
<1>5. ASSUME NEW i \in Routers, NEW j \in Routers
      PROVE  LatestObject(i, j, nbr'[i][j], msgs')
  <2> DEFINE x == nbr'[i][j]
  <2>1. SUFFICES ASSUME x.state # "Absent", NEW p \in msgs', SyncOf(p, i, j)
                 PROVE  /\ \/ p.boot < x.my_snapshot_boot_time
                           \/ /\ p.boot = x.my_snapshot_boot_time
                              /\ p.my_snapshot_sn <= x.my_snapshot_sequencer
                        /\ OfSnapshot(p, x.my_snapshot_boot_time, x.my_snapshot_sequencer) =>
                             /\ p.neighbor_boot_time = x.time_of_boot
                             /\ p.neighbor_snapshot_sn \in {0, x.neighbor_snapshot_sn}
    BY DEF LatestObject
  <2>2. CASE p \in msgs
    BY <1>3, <2>1, <2>2 DEF PairObject, LatestObject
  <2>3. CASE p \notin msgs
    <3>1. BuiltFrom(p, n, m, r)
      BY <1>1, <2>1, <2>3 DEF SyncOf
    <3>2. i = n /\ j = m /\ x = r
      BY <1>4, <2>1, <3>1 DEF BuiltFrom, SyncOf
    <3>3. r.my_snapshot_sequencer <= r.my_snapshot_sequencer
      BY ObjectNumbers
    <3> QED
      BY <3>1, <3>2, <3>3 DEF BuiltFrom, OfSnapshot
  <2> QED
    BY <2>2, <2>3
<1>6. PairObjects'
  BY <1>1, <1>3, <1>5, HeardGrows DEF PairObjects, PairObject
<1>7. InformedSyncs'
  <2>1. SUFFICES ASSUME NEW p \in msgs', p.type = "Sync"
                 PROVE  Heard(msgs', p.src, p.dst, p.neighbor_boot_time,
                              p.neighbor_snapshot_sn, p.boot)
    BY DEF InformedSyncs
  <2>2. CASE p \in msgs
    BY <1>1, <2>1, <2>2, HeardGrows DEF InformedSyncs
  <2>3. CASE BuiltFrom(p, n, m, r)
    <3>1. Heard(msgs', n, m, r.time_of_boot, r.neighbor_snapshot_sn,
                r.my_snapshot_boot_time)
      BY <1>1, HeardGrows DEF PairObject, InformedObject
    <3> QED
      BY <2>3, <3>1 DEF BuiltFrom, SyncOf, OfSnapshot
  <2> QED
    BY <1>1, <2>1, <2>2, <2>3
\* A Sync of n belongs to the latest snapshot that n ever named to m: m cannot
\* know a later one.
<1>8. ASSUME NEW p \in msgs', NEW q \in msgs', BuiltFrom(p, n, m, r), SyncOf(q, m, n),
             q.neighbor_boot_time = p.boot
      PROVE  ~(p.my_snapshot_sn < q.neighbor_snapshot_sn)
  <2>1. Heard(msgs', m, n, p.boot, q.neighbor_snapshot_sn, q.boot)
    BY <1>7, <1>8 DEF InformedSyncs, SyncOf
  <2>2. /\ p.boot = r.my_snapshot_boot_time /\ p.my_snapshot_sn = r.my_snapshot_sequencer
        /\ p.boot \in Nat /\ p.my_snapshot_sn \in Nat
    BY <1>8, ObjectNumbers DEF BuiltFrom, OfSnapshot
  <2>3. CASE q.neighbor_snapshot_sn = 0
    BY <2>2, <2>3
  <2>4. CASE q.neighbor_snapshot_sn # 0
    <3>1. PICK o \in msgs' : SyncOf(o, n, m) /\ OfSnapshot(o, p.boot, q.neighbor_snapshot_sn)
      BY <2>1, <2>4 DEF Heard
    <3>2. /\ \/ o.boot < r.my_snapshot_boot_time
             \/ /\ o.boot = r.my_snapshot_boot_time
                /\ o.my_snapshot_sn <= r.my_snapshot_sequencer
      BY <1>4, <1>5, <3>1 DEF LatestObject
    <3>3. o.boot = p.boot /\ o.my_snapshot_sn = q.neighbor_snapshot_sn
      BY <3>1 DEF OfSnapshot
    <3>4. o.my_snapshot_sn \in Nat
      <4>1. msgs' \subseteq HelloMsgs \cup SyncMsgs \cup UpstreamMsgs
        BY DEF TypeOK
      <4> QED
        BY <3>1, <4>1, SyncNumbers DEF SyncOf
    <3> QED
      BY <2>2, <3>2, <3>3, <3>4
  <2> QED
    BY <2>3, <2>4
<1>9. NoneCross'
  <2>1. SUFFICES ASSUME NEW p \in msgs', NEW q \in msgs', p.type = "Sync", Crossing(p, q)
                 PROVE  FALSE
    BY DEF NoneCross
  <2>2. q.type = "Sync" /\ SyncOf(p, p.src, p.dst)
    BY <2>1 DEF Crossing, SyncOf
  <2>3. CASE p \in msgs /\ q \in msgs
    BY <2>1, <2>3 DEF NoneCross
  <2>4. CASE BuiltFrom(p, n, m, r)
    BY <1>8, <2>1, <2>4 DEF Crossing, BuiltFrom, SyncOf
  <2>5. CASE BuiltFrom(q, n, m, r)
    BY <1>8, <2>1, <2>2, <2>5 DEF Crossing, BuiltFrom, SyncOf
  <2> QED
    BY <1>1, <2>1, <2>2, <2>3, <2>4, <2>5
<1>10. SyncsArePast'
  <2>1. SUFFICES ASSUME NEW p \in msgs', p.type = "Sync"
                 PROVE  Past(boot', sequencer', p.src, p.boot, p.my_snapshot_sn)
    BY DEF SyncsArePast
  <2>2. CASE p \in msgs
    BY <2>1, <2>2, PastStaysPast
  <2>3. CASE BuiltFrom(p, n, m, r)
    BY <2>3 DEF BuiltFrom, SyncOf, OfSnapshot
  <2> QED
    BY <1>1, <2>1, <2>2, <2>3
<1>11. ObjectsArePast'
  BY <1>2, PastStaysPast DEF ObjectsArePast
<1> QED
  BY <1>6, <1>7, <1>9, <1>10, <1>11

\* n forgets neighbors, and nobody sends a Sync.
LEMMA ForgettingKeepsPairs ==
  ASSUME TypeOK, Agreement, ClocksGoOn, msgs \subseteq msgs',
         \A p \in msgs' : p \in msgs \/ p.type # "Sync",
         \A i, j \in Routers : nbr'[i][j] = nbr[i][j] \/ nbr'[i][j] = NoNeighbor
  PROVE  Agreement'
<1> USE DEF Agreement
<1>1. ASSUME NEW i \in Routers, NEW j \in Routers
      PROVE  PairObject(i, j, nbr[i][j], msgs')
  <2>1. PairObject(i, j, nbr[i][j], msgs)
    BY DEF PairObjects
  <2>2. LatestObject(i, j, nbr[i][j], msgs')
    BY <2>1 DEF PairObject, LatestObject, SyncOf
  <2> QED
    BY <2>1, <2>2, HeardGrows DEF PairObject
<1>2. PairObjects'
  BY <1>1, NoNeighborPair DEF PairObjects
<1>3. InformedSyncs'
  BY HeardGrows DEF InformedSyncs
<1>4. NoneCross'
  BY DEF NoneCross, Crossing, SyncOf
<1>5. SyncsArePast'
  BY PastStaysPast DEF SyncsArePast
<1>6. ObjectsArePast'
  BY PastStaysPast DEF ObjectsArePast, NoNeighbor
<1> QED
  BY <1>2, <1>3, <1>4, <1>5, <1>6

-----------------------------------------------------------------------------
(* The handlers *)

\* A step that takes no number, and one that does.
LEMMA ClocksRest ==
  ASSUME UNCHANGED <<boot, sequencer>>
  PROVE  ClocksGoOn
BY DEF ClocksGoOn

LEMMA ClocksTick ==
  ASSUME TypeOK, NEW n \in Routers, GetSequenceNumber(n)
  PROVE  /\ ClocksGoOn
         /\ Past(boot', sequencer', n, NextBootTime(n), NextSequenceNumber(n))
BY ClocksAdvance DEF ClocksGoOn

SameHeader(r2, r) ==
  /\ r2.my_snapshot_boot_time = r.my_snapshot_boot_time
  /\ r2.my_snapshot_sequencer = r.my_snapshot_sequencer
  /\ r2.time_of_boot = r.time_of_boot
  /\ r2.neighbor_snapshot_sn = r.neighbor_snapshot_sn

\* p tells n that its sender m knows the snapshot of n that r keeps, and it
\* belongs to the snapshot of m that r holds.
Confirms(p, n, m, r) ==
  /\ SyncOf(p, m, n)
  /\ OfSnapshot(p, r.time_of_boot, r.neighbor_snapshot_sn)
  /\ p.neighbor_boot_time = r.my_snapshot_boot_time
  /\ p.neighbor_snapshot_sn = r.my_snapshot_sequencer

\* An object that was already synchronizing, stored under the same header, and
\* Synced only when p confirms it.
LEMMA RestoredPair ==
  ASSUME NEW n, NEW m, NEW r, NEW r2, NEW M, PairObject(n, m, r, M),
         r.state # "Absent", SameHeader(r2, r),
         \/ r2.state # "Synced"
         \/ r.state = "Synced"
         \/ \E p \in M : Confirms(p, n, m, r)
  PROVE  PairObject(n, m, r2, M)
<1>1. ConfirmedObject(n, m, r2, M)
  BY DEF PairObject, ConfirmedObject, SameHeader, Confirms
<1> QED
  BY <1>1, ContinuedPair DEF SameHeader

\* Installing slices, counting them and finishing leave the header alone.
LEMMA HeaderKept ==
  ASSUME NEW r \in Neighbor, NEW trees \in SUBSET Trees, NEW k \in Nat
  PROVE  /\ SameHeader(InstallTreeState(r, trees), r)
         /\ SameHeader([r EXCEPT !.current_sync_sn = k], r)
         /\ SameHeader([r EXCEPT !.state = "Master"], r)
         /\ SameHeader(FinishSync(r), r)
         /\ InstallTreeState(r, trees).state = r.state
         /\ [r EXCEPT !.current_sync_sn = k].state = r.state
         /\ FinishSync(r).state = "Synced"
<1>1. /\ SameHeader(InstallTreeState(r, trees), r)
      /\ InstallTreeState(r, trees).state = r.state
  BY DEF SameHeader, InstallTreeState, Neighbor
<1>2. SameHeader(FinishSync(r), r) /\ FinishSync(r).state = "Synced"
  BY DEF SameHeader, FinishSync, Neighbor
<1>3. /\ SameHeader([r EXCEPT !.current_sync_sn = k], r)
      /\ SameHeader([r EXCEPT !.state = "Master"], r)
      /\ [r EXCEPT !.current_sync_sn = k].state = r.state
  BY DEF SameHeader, Neighbor
<1> QED
  BY <1>1, <1>2, <1>3

LEMMA AdjacencyResetKeepsPairs ==
  ASSUME PairInv, TypeOK', NEW n \in Routers, NEW m \in Routers, NEW b \in Nat,
         AdjacencyReset(n, m, b)
  PROVE  Agreement'
<1> DEFINE r == CleanNeighbor(n, "Slave", b)
<1>1. TypeOK /\ Agreement /\ SyncsArePast
  BY DEF PairInv, TypeInv, Agreement
<1>2. GetSequenceNumber(n) /\ SetNeighbor(n, m, r) /\ Send({Sync(n, m, r, 0, TRUE)})
  BY DEF AdjacencyReset, StartSnapshot
<1>3. r \in Neighbor
  BY <1>1, CleanNeighborType DEF States
<1>4. /\ r.state = "Slave" /\ r.neighbor_snapshot_sn = 0
      /\ r.my_snapshot_boot_time = NextBootTime(n)
      /\ r.my_snapshot_sequencer = NextSequenceNumber(n)
  BY DEF CleanNeighbor
<1> HIDE DEF r
<1>5. PairObject(n, m, r, msgs)
  BY <1>1, <1>2, <1>4, FreshPair DEF Heard, Synchronizing
<1>6. Stores(n, m, r)
  BY <1>2, SyncIsBuilt DEF Stores, Send
<1>7. /\ ClocksGoOn
      /\ Past(boot', sequencer', n, r.my_snapshot_boot_time, r.my_snapshot_sequencer)
  BY <1>1, <1>2, <1>4, ClocksTick
<1> QED
  BY <1>1, <1>3, <1>4, <1>5, <1>6, <1>7, StoreKeepsPairs

LEMMA MasterAnswersKeepsPairs ==
  ASSUME PairInv, TypeOK', ClocksGoOn,
         NEW n \in Routers, NEW m \in Routers, NEW r \in Neighbor, r.state = "Master",
         Past(boot', sequencer', n, r.my_snapshot_boot_time, r.my_snapshot_sequencer),
         NEW p \in msgs, p \in SyncMsgs, MasterAnswers(n, m, r, p),
         PairObject(n, m, r, msgs),
         r.current_sync_sn > 0 => Confirms(p, n, m, r)
  PROVE  Agreement'
<1> DEFINE k == r.current_sync_sn
           r1 == InstallTreeState(r, p.trees)
           r2 == [r1 EXCEPT !.current_sync_sn = k + 1]
           r3 == FinishSync(r1)
<1>1. TypeOK /\ Agreement
  BY DEF PairInv, TypeInv
<1>2. /\ Send({Sync(n, m, r, k, FALSE)})
      /\ SetNeighbor(n, m, r2) \/ (k > 0 /\ SetNeighbor(n, m, r3))
  BY DEF MasterAnswers
<1>3. k \in Nat /\ k + 1 \in Nat /\ p.trees \in SUBSET Trees
  BY DEF Neighbor, SyncMsgs
<1>4. r1 \in Neighbor /\ r2 \in Neighbor /\ r3 \in Neighbor
  BY <1>3, InstallType, AdvanceType, FinishType
<1>5. SameHeader(r2, r) /\ SameHeader(r3, r) /\ r2.state = "Master" /\ r3.state = "Synced"
  <2>1. SameHeader(r1, r) /\ r1.state = "Master"
    BY <1>3, HeaderKept
  <2>2. SameHeader(r2, r1) /\ r2.state = r1.state
    BY <1>3, <1>4, HeaderKept
  <2>3. SameHeader(r3, r1) /\ r3.state = "Synced"
    BY <1>4, HeaderKept
  <2> QED
    BY <2>1, <2>2, <2>3 DEF SameHeader
<1> HIDE DEF k, r1, r2, r3
<1>6. PairObject(n, m, r2, msgs)
  BY <1>5, RestoredPair
<1>7. k > 0 => PairObject(n, m, r3, msgs)
  BY <1>5, RestoredPair DEF k
<1>8. BuiltFrom(Sync(n, m, r, k, FALSE), n, m, r2) /\ BuiltFrom(Sync(n, m, r, k, FALSE), n, m, r3)
  <2>1. \A q : BuiltFrom(q, n, m, r) => BuiltFrom(q, n, m, r2) /\ BuiltFrom(q, n, m, r3)
    BY <1>5 DEF BuiltFrom, SameHeader
  <2> QED
    BY <2>1, SyncIsBuilt
<1>9. CASE SetNeighbor(n, m, r2)
  <2>1. Stores(n, m, r2)
    BY <1>2, <1>8, <1>9 DEF Stores, Send
  <2> QED
    BY <1>1, <1>4, <1>5, <1>6, <2>1, StoreKeepsPairs DEF SameHeader
<1>10. CASE k > 0 /\ SetNeighbor(n, m, r3)
  <2>1. Stores(n, m, r3)
    BY <1>2, <1>8, <1>10 DEF Stores, Send
  <2> QED
    BY <1>1, <1>4, <1>5, <1>7, <1>10, <2>1, StoreKeepsPairs DEF SameHeader
<1> QED
  BY <1>2, <1>9, <1>10

LEMMA SlaveAdvancesKeepsPairs ==
  ASSUME PairInv, TypeOK', ClocksGoOn,
         NEW n \in Routers, NEW m \in Routers, NEW r \in Neighbor, r.state = "Slave",
         Past(boot', sequencer', n, r.my_snapshot_boot_time, r.my_snapshot_sequencer),
         NEW p \in msgs, p \in SyncMsgs, SlaveAdvances(n, m, r, p),
         PairObject(n, m, r, msgs), Confirms(p, n, m, r)
  PROVE  Agreement'
<1> DEFINE k == r.current_sync_sn
           r0 == [r EXCEPT !.current_sync_sn = k + 1]
           r1 == InstallTreeState(r0, p.trees)
           r2 == FinishSync(r)
<1>1. TypeOK /\ Agreement
  BY DEF PairInv, TypeInv
<1>2. \/ SetNeighbor(n, m, r1) /\ Send({Sync(n, m, r1, k + 1, TRUE)})
      \/ SetNeighbor(n, m, r2) /\ UNCHANGED msgs
  BY DEF SlaveAdvances
<1>3. k \in Nat /\ k + 1 \in Nat /\ p.trees \in SUBSET Trees
  BY DEF Neighbor, SyncMsgs
<1>4. r0 \in Neighbor /\ r1 \in Neighbor /\ r2 \in Neighbor
  BY <1>3, InstallType, AdvanceType, FinishType
<1>5. SameHeader(r1, r) /\ SameHeader(r2, r) /\ r1.state = "Slave" /\ r2.state = "Synced"
  <2>1. SameHeader(r0, r) /\ r0.state = "Slave"
    BY <1>3, HeaderKept
  <2>2. SameHeader(r1, r0) /\ r1.state = r0.state
    BY <1>3, <1>4, HeaderKept
  <2>3. SameHeader(r2, r) /\ r2.state = "Synced"
    BY HeaderKept
  <2> QED
    BY <2>1, <2>2, <2>3 DEF SameHeader
<1> HIDE DEF k, r0, r1, r2
<1>6. PairObject(n, m, r1, msgs) /\ PairObject(n, m, r2, msgs)
  BY <1>5, RestoredPair
<1>7. CASE SetNeighbor(n, m, r1) /\ Send({Sync(n, m, r1, k + 1, TRUE)})
  <2>1. Stores(n, m, r1)
    BY <1>7, SyncIsBuilt DEF Stores, Send
  <2> QED
    BY <1>1, <1>4, <1>5, <1>6, <2>1, StoreKeepsPairs DEF SameHeader
<1>8. CASE SetNeighbor(n, m, r2) /\ UNCHANGED msgs
  <2>1. Stores(n, m, r2)
    BY <1>8 DEF Stores
  <2> QED
    BY <1>1, <1>4, <1>5, <1>6, <2>1, StoreKeepsPairs DEF SameHeader
<1> QED
  BY <1>2, <1>7, <1>8

LEMMA ReceiveSyncUnknownKeepsPairs ==
  ASSUME PairInv, TypeOK', NEW n \in Routers, NEW m \in Routers, ReceiveSyncUnknown(n, m)
  PROVE  Agreement'
<1>1. TypeOK /\ SyncsArePast
  BY DEF PairInv, TypeInv, Agreement
<1>2. PICK p \in msgs :
        /\ ReceivableSync(n, m, p)
        /\ IF p.sync_sn = 0 /\ p.master
           THEN LET r == [CleanNeighbor(n, "Master", p.boot) EXCEPT
                            !.neighbor_snapshot_sn = p.my_snapshot_sn]
                IN  StartSnapshot(n) /\ MasterAnswers(n, m, r, p)
           ELSE AdjacencyReset(n, m, p.boot)
  BY DEF ReceiveSyncUnknown
<1>3. p \in SyncMsgs /\ p.boot \in Nat /\ p.my_snapshot_sn \in Nat /\ SyncOf(p, m, n)
  BY <1>1, <1>2, PacketTypes DEF ReceivableSync, SyncMsgs, SyncOf
<1> DEFINE c == CleanNeighbor(n, "Master", p.boot)
           r == [c EXCEPT !.neighbor_snapshot_sn = p.my_snapshot_sn]
<1>4. CASE StartSnapshot(n) /\ MasterAnswers(n, m, r, p)
  <2>1. c \in Neighbor
    BY <1>1, <1>3, CleanNeighborType DEF States
  <2>2. /\ r \in Neighbor /\ r.state = "Master" /\ r.time_of_boot = p.boot
        /\ r.neighbor_snapshot_sn = p.my_snapshot_sn /\ r.current_sync_sn = 0
        /\ r.my_snapshot_boot_time = NextBootTime(n)
        /\ r.my_snapshot_sequencer = NextSequenceNumber(n)
    BY <1>3, <2>1 DEF CleanNeighbor, Neighbor
  <2> HIDE DEF c, r
  <2>3. p.neighbor_boot_time <= r.my_snapshot_boot_time
    <3>1. p.neighbor_boot_time = boot[n] /\ boot[n] \in Nat
      BY <1>1, <1>2 DEF ReceivableSync, TypeOK
    <3> QED
      BY <2>2, <3>1 DEF NextBootTime
  <2>4. Heard(msgs, n, m, r.time_of_boot, r.neighbor_snapshot_sn, r.my_snapshot_boot_time)
    BY <1>3, <2>2, <2>3 DEF Heard, OfSnapshot
  <2>5. PairObject(n, m, r, msgs)
    BY <1>1, <1>4, <2>2, <2>4, FreshPair DEF StartSnapshot, Synchronizing
  <2>6. /\ ClocksGoOn
        /\ Past(boot', sequencer', n, r.my_snapshot_boot_time, r.my_snapshot_sequencer)
    BY <1>1, <1>4, <2>2, ClocksTick DEF StartSnapshot
  <2> QED
    BY <1>3, <1>4, <2>2, <2>5, <2>6, MasterAnswersKeepsPairs
<1>5. CASE AdjacencyReset(n, m, p.boot)
  BY <1>3, <1>5, AdjacencyResetKeepsPairs
<1> QED
  BY <1>2, <1>4, <1>5

LEMMA ReceiveSyncResetKeepsPairs ==
  ASSUME PairInv, TypeOK', NEW n \in Routers, NEW m \in Routers, ReceiveSyncReset(n, m)
  PROVE  Agreement'
<1>1. TypeOK
  BY DEF PairInv, TypeInv
<1>2. PICK p \in msgs :
        /\ ReceivableSync(n, m, p)
        /\ \/ AdjacencyReset(n, m, p.boot)
           \/ AdjacencyReset(n, m, nbr[n][m].time_of_boot)
  BY DEF ReceiveSyncReset
<1>3. p.boot \in Nat /\ nbr[n][m].time_of_boot \in Nat
  BY <1>1, <1>2, PacketTypes, NeighborTypes DEF ReceivableSync, SyncMsgs
<1> QED
  BY <1>2, <1>3, AdjacencyResetKeepsPairs

\* A Sync of the snapshot that r holds, which names the snapshot r keeps.
LEMMA CurrentSyncConfirms ==
  ASSUME TypeOK, NEW n \in Routers, NEW m \in Routers, NEW r \in Neighbor,
         Past(boot, sequencer, n, r.my_snapshot_boot_time, r.my_snapshot_sequencer),
         NEW p, CurrentSync(n, m, r, p)
  PROVE  /\ SyncOf(p, m, n) /\ OfSnapshot(p, r.time_of_boot, r.neighbor_snapshot_sn)
         /\ EchoesMySnapshot(r, p) => Confirms(p, n, m, r)
<1>1. boot[n] \in Nat /\ r.my_snapshot_boot_time \in Nat /\ r.my_snapshot_boot_time <= boot[n]
  <2>1. boot[n] \in Nat /\ r.my_snapshot_boot_time \in Nat
    BY ObjectNumbers DEF TypeOK
  <2> QED
    BY <2>1 DEF Past
<1>2. /\ p.neighbor_boot_time = boot[n] /\ boot[n] <= r.my_snapshot_boot_time
      /\ SyncOf(p, m, n) /\ OfSnapshot(p, r.time_of_boot, r.neighbor_snapshot_sn)
  BY DEF CurrentSync, ReceivableSync, SyncOf, OfSnapshot
<1>3. p.neighbor_boot_time = r.my_snapshot_boot_time
  BY <1>1, <1>2
<1> QED
  BY <1>2, <1>3 DEF Confirms, EchoesMySnapshot

\* The snapshot SN that is adopted is that of a Sync of m.
LEMMA AdoptedPair ==
  ASSUME NEW n, NEW m, NEW r \in Neighbor, NEW p \in msgs, SyncOf(p, m, n),
         p.boot = Adopted(r, p).time_of_boot,
         p.neighbor_boot_time <= r.my_snapshot_boot_time, r.state \in Synchronizing,
         PairObject(n, m, r, msgs)
  PROVE  PairObject(n, m, Adopted(r, p), msgs)
<1> DEFINE a == [r EXCEPT !.neighbor_snapshot_sn = p.my_snapshot_sn]
<1>1. CASE Adopted(r, p) = r
  BY <1>1
<1>2. CASE Adopted(r, p) # r
  <2>1. r.neighbor_snapshot_sn = 0 /\ Adopted(r, p) = a
    BY <1>2 DEF Adopted
  <2>2. /\ a.my_snapshot_boot_time = r.my_snapshot_boot_time
        /\ a.my_snapshot_sequencer = r.my_snapshot_sequencer
        /\ a.time_of_boot = r.time_of_boot /\ a.state = r.state
        /\ a.neighbor_snapshot_sn = p.my_snapshot_sn
    BY DEF Neighbor
  <2> HIDE DEF a
  <2>3. Heard(msgs, n, m, a.time_of_boot, a.neighbor_snapshot_sn, a.my_snapshot_boot_time)
    BY <2>1, <2>2 DEF Heard, OfSnapshot
  <2>4. ConfirmedObject(n, m, a, msgs) /\ r.state # "Absent"
    BY <2>2 DEF ConfirmedObject, Synchronizing
  <2>5. PairObject(n, m, a, msgs)
    BY <2>1, <2>2, <2>3, <2>4, ContinuedPair
  <2> QED
    BY <2>1, <2>5
<1> QED
  BY <1>1, <1>2

LEMMA ReceiveSyncSlaveKeepsPairs ==
  ASSUME PairInv, TypeOK', NEW n \in Routers, NEW m \in Routers, ReceiveSyncSlave(n, m)
  PROVE  Agreement'
<1>1. TypeOK /\ Agreement /\ PairObjects /\ ObjectsArePast
  BY DEF PairInv, TypeInv, Agreement
<1>2. PICK p \in msgs :
        LET r == Adopted(nbr[n][m], p)
        IN  /\ CurrentSync(n, m, r, p)
            /\ \/ /\ p.sync_sn = r.current_sync_sn /\ p.sync_sn = 0
                  /\ MasterAnswers(n, m, [r EXCEPT !.state = "Master"], p)
               \/ SetNeighbor(n, m, r) /\ Send({Sync(n, m, r, 0, TRUE)})
               \/ EchoesMySnapshot(r, p) /\ SlaveAdvances(n, m, r, p)
               \/ SetNeighbor(n, m, r) /\ UNCHANGED msgs
  BY DEF ReceiveSyncSlave
<1> DEFINE x == nbr[n][m]
           r == Adopted(x, p)
           a == [r EXCEPT !.state = "Master"]
<1>3. p \in SyncMsgs /\ p.boot = r.time_of_boot /\ SyncOf(p, m, n)
  BY <1>1, <1>2, PacketTypes DEF CurrentSync, ReceivableSync, SyncOf
<1>4. x \in Neighbor /\ x.state = "Slave" /\ r \in Neighbor /\ r.state = "Slave"
  BY <1>1, <1>3, NeighborTypes, AdoptedType DEF ReceiveSyncSlave
<1>5. PairObject(n, m, r, msgs)
  <2>1. p.neighbor_boot_time = boot[n] /\ boot[n] <= r.my_snapshot_boot_time
    BY <1>2 DEF CurrentSync, ReceivableSync
  <2>2. r.my_snapshot_boot_time = x.my_snapshot_boot_time
    BY <1>4 DEF Adopted, Neighbor
  <2> QED
    BY <1>1, <1>3, <1>4, <2>1, <2>2, AdoptedPair DEF PairObjects, Synchronizing
<1>6. /\ ClocksGoOn
      /\ Past(boot, sequencer, n, r.my_snapshot_boot_time, r.my_snapshot_sequencer)
      /\ Past(boot', sequencer', n, r.my_snapshot_boot_time, r.my_snapshot_sequencer)
  <2>1. UNCHANGED <<boot, sequencer>>
    BY DEF ReceiveSyncSlave
  <2>2. /\ r.my_snapshot_boot_time = x.my_snapshot_boot_time
        /\ r.my_snapshot_sequencer = x.my_snapshot_sequencer
    BY <1>4 DEF Adopted, Neighbor
  <2>3. Past(boot, sequencer, n, x.my_snapshot_boot_time, x.my_snapshot_sequencer)
    BY <1>1, <1>4 DEF ObjectsArePast
  <2> QED
    BY <2>1, <2>2, <2>3, ClocksRest
<1>7. EchoesMySnapshot(r, p) => Confirms(p, n, m, r)
  BY <1>1, <1>2, <1>4, <1>6, CurrentSyncConfirms
<1> HIDE DEF r, x
<1>8. /\ a \in Neighbor /\ a.state = "Master" /\ SameHeader(a, r)
      /\ a.current_sync_sn = r.current_sync_sn
  BY <1>4 DEF Neighbor, States, SameHeader
<1> HIDE DEF a
<1>9. PairObject(n, m, a, msgs)
  BY <1>4, <1>5, <1>8, RestoredPair
<1>10. CASE p.sync_sn = r.current_sync_sn /\ p.sync_sn = 0 /\ MasterAnswers(n, m, a, p)
  BY <1>3, <1>6, <1>8, <1>9, <1>10, MasterAnswersKeepsPairs DEF SameHeader
<1>11. CASE SetNeighbor(n, m, r) /\ Send({Sync(n, m, r, 0, TRUE)})
  <2>1. Stores(n, m, r)
    BY <1>11, SyncIsBuilt DEF Stores, Send
  <2> QED
    BY <1>1, <1>4, <1>5, <1>6, <2>1, StoreKeepsPairs
<1>12. CASE EchoesMySnapshot(r, p) /\ SlaveAdvances(n, m, r, p)
  BY <1>3, <1>4, <1>5, <1>6, <1>7, <1>12, SlaveAdvancesKeepsPairs
<1>13. CASE SetNeighbor(n, m, r) /\ UNCHANGED msgs
  <2>1. Stores(n, m, r)
    BY <1>13 DEF Stores
  <2> QED
    BY <1>1, <1>4, <1>5, <1>6, <2>1, StoreKeepsPairs
<1> QED
  BY <1>2, <1>10, <1>11, <1>12, <1>13 DEF r, x, a

LEMMA ReceiveSyncMasterKeepsPairs ==
  ASSUME PairInv, TypeOK', NEW n \in Routers, NEW m \in Routers, ReceiveSyncMaster(n, m)
  PROVE  Agreement'
<1>1. TypeOK /\ PairObjects /\ ObjectsArePast
  BY DEF PairInv, TypeInv, Agreement
<1> DEFINE r == nbr[n][m]
<1>2. PICK p \in msgs :
        /\ CurrentSync(n, m, r, p) /\ p.sync_sn = r.current_sync_sn
        /\ p.sync_sn > 0 => EchoesMySnapshot(r, p)
        /\ MasterAnswers(n, m, r, p)
  BY DEF ReceiveSyncMaster
<1>3. r \in Neighbor /\ r.state = "Master" /\ p \in SyncMsgs
  BY <1>1, <1>2, PacketTypes, NeighborTypes
  DEF ReceiveSyncMaster, CurrentSync, ReceivableSync
<1>4. /\ PairObject(n, m, r, msgs) /\ ClocksGoOn
      /\ Past(boot, sequencer, n, r.my_snapshot_boot_time, r.my_snapshot_sequencer)
      /\ Past(boot', sequencer', n, r.my_snapshot_boot_time, r.my_snapshot_sequencer)
  <2>1. UNCHANGED <<boot, sequencer>>
    BY DEF ReceiveSyncMaster
  <2> QED
    BY <1>1, <1>3, <2>1, ClocksRest DEF ObjectsArePast, PairObjects
<1>5. r.current_sync_sn > 0 => Confirms(p, n, m, r)
  BY <1>1, <1>2, <1>3, <1>4, CurrentSyncConfirms
<1> QED
  BY <1>2, <1>3, <1>4, <1>5, MasterAnswersKeepsPairs

\* An object that goes without a Sync: forgotten by n, or kept by everyone.
LEMMA SetNoNeighborKeepsPairs ==
  ASSUME PairInv, NEW n \in Routers, NEW m \in Routers,
         SetNeighbor(n, m, NoNeighbor), UNCHANGED <<boot, sequencer, msgs>>
  PROVE  Agreement'
<1>1. TypeOK /\ Agreement
  BY DEF PairInv, TypeInv
<1>2. \A i, j \in Routers : nbr'[i][j] = nbr[i][j] \/ nbr'[i][j] = NoNeighbor
  BY <1>1 DEF TypeOK, SetNeighbor
<1> QED
  BY <1>1, <1>2, ClocksRest, ForgettingKeepsPairs

LEMMA ReceiveHelloKeepsPairs ==
  ASSUME PairInv, TypeOK', NEW n \in Routers, NEW m \in Routers, ReceiveHello(n, m)
  PROVE  Agreement'
<1>1. TypeOK
  BY DEF PairInv, TypeInv
<1>2. PICK p \in Hellos(m) :
        \/ AdjacencyReset(n, m, p.boot)
        \/ SetNeighbor(n, m, NoNeighbor) /\ UNCHANGED <<boot, sequencer, msgs>>
  BY DEF ReceiveHello
<1>3. p.boot \in Nat
  BY <1>1, HelloTypes
<1> QED
  BY <1>2, <1>3, AdjacencyResetKeepsPairs, SetNoNeighborKeepsPairs

LEMMA ReceiveUpstreamKeepsPairs ==
  ASSUME PairInv, TypeOK', NEW n \in Routers, NEW m \in Routers, ReceiveUpstream(n, m)
  PROVE  Agreement'
<1> DEFINE r == nbr[n][m]
           Updated(p) ==
             [r EXCEPT !.last_sequence_number[p.tree] = p.sn,
                       !.tree_metric_state = IF p.upstream THEN @ \cup {p.tree}
                                             ELSE @ \ {p.tree}]
<1>1. TypeOK /\ Agreement
  BY DEF PairInv, TypeInv
<1>2. PICK p \in msgs :
        /\ p.type = "Upstream"
        /\ \/ AdjacencyReset(n, m, p.boot)
           \/ /\ r.state # "Absent" /\ SetNeighbor(n, m, Updated(p))
              /\ UNCHANGED <<boot, sequencer, msgs>>
  BY DEF ReceiveUpstream
<1>3. p \in UpstreamMsgs /\ p.boot \in Nat /\ p.sn \in Nat /\ p.tree \in Trees
  BY <1>1, <1>2, PacketTypes DEF UpstreamMsgs
<1>4. CASE AdjacencyReset(n, m, p.boot)
  BY <1>3, <1>4, AdjacencyResetKeepsPairs
<1>5. CASE /\ r.state # "Absent" /\ SetNeighbor(n, m, Updated(p))
           /\ UNCHANGED <<boot, sequencer, msgs>>
  <2>1. /\ r \in Neighbor /\ PairObject(n, m, r, msgs)
        /\ Past(boot, sequencer, n, r.my_snapshot_boot_time, r.my_snapshot_sequencer)
    BY <1>1, <1>5, NeighborTypes DEF Agreement, PairObjects, ObjectsArePast
  <2>2. Updated(p) \in Neighbor
    BY <1>3, <2>1 DEF Neighbor
  <2>3. SameHeader(Updated(p), r) /\ Updated(p).state = r.state
    BY <2>1 DEF Neighbor, SameHeader
  <2> HIDE DEF Updated, r
  <2>4. PairObject(n, m, Updated(p), msgs)
    BY <1>5, <2>1, <2>3, RestoredPair
  <2>5. Stores(n, m, Updated(p))
    BY <1>5 DEF Stores
  <2>6. /\ ClocksGoOn
        /\ Past(boot', sequencer', n, Updated(p).my_snapshot_boot_time,
                Updated(p).my_snapshot_sequencer)
    BY <1>5, <2>1, <2>3, ClocksRest DEF SameHeader
  <2> QED
    BY <1>1, <1>5, <2>2, <2>3, <2>4, <2>5, <2>6, StoreKeepsPairs
<1> QED
  BY <1>2, <1>4, <1>5

LEMMA SyncTimeoutKeepsPairs ==
  ASSUME PairInv, TypeOK', NEW n \in Routers, NEW m \in Routers, SyncTimeout(n, m)
  PROVE  Agreement'
<1> DEFINE r == nbr[n][m]
<1>1. TypeOK /\ Agreement
  BY DEF PairInv, TypeInv
<1>2. /\ r.state \in {"Slave", "Master"} /\ UNCHANGED <<boot, sequencer, nbr>>
      /\ \E k, master : Send({Sync(n, m, r, k, master)})
  BY DEF SyncTimeout
<1>3. /\ r \in Neighbor /\ PairObject(n, m, r, msgs) /\ r.state # "Absent"
      /\ Past(boot', sequencer', n, r.my_snapshot_boot_time, r.my_snapshot_sequencer)
  BY <1>1, <1>2, NeighborTypes DEF Agreement, PairObjects, ObjectsArePast
<1>4. SetNeighbor(n, m, r)
  BY <1>1, <1>2 DEF TypeOK, SetNeighbor
<1> HIDE DEF r
<1>5. Stores(n, m, r)
  BY <1>2, <1>4, SyncIsBuilt DEF Stores, Send
<1> QED
  BY <1>1, <1>2, <1>3, <1>5, ClocksRest, StoreKeepsPairs

LEMMA TableChangeKeepsPairs ==
  ASSUME PairInv, NEW n \in Routers, NEW t \in Trees,
         BecomeUpstream(n, t) \/ StopUpstream(n, t)
  PROVE  Agreement'
<1>1. TypeOK /\ Agreement
  BY DEF PairInv, TypeInv
<1>2. PICK upstream : SendUpstream(n, t, upstream)
  BY DEF BecomeUpstream, StopUpstream
<1>3. UNCHANGED nbr /\ msgs \subseteq msgs' /\ \A p \in msgs' : p \in msgs \/ p.type # "Sync"
  BY <1>2 DEF SendUpstream, Send
<1>4. ClocksGoOn
  BY <1>1, <1>2, ClocksTick DEF SendUpstream
<1> QED
  BY <1>1, <1>3, <1>4, ForgettingKeepsPairs

LEMMA RestartKeepsPairs ==
  ASSUME PairInv, NEW n \in Routers, NEW farewell \in BOOLEAN, Restart(n, farewell)
  PROVE  Agreement'
<1>1. TypeOK /\ Agreement
  BY DEF PairInv, TypeInv
<1>2. nbr' = [nbr EXCEPT ![n] = [m \in Routers |-> NoNeighbor]]
  BY DEF Restart
<1>3. \A i, j \in Routers : nbr'[i][j] = nbr[i][j] \/ nbr'[i][j] = NoNeighbor
  BY <1>1, <1>2 DEF TypeOK
<1>4. msgs \subseteq msgs' /\ \A p \in msgs' : p \in msgs \/ p.type # "Sync"
  BY DEF Restart, Send, Farewell
<1>5. ClocksGoOn
  <2>1. /\ boot' = [boot EXCEPT ![n] = @ + 1]
        /\ sequencer' = [sequencer EXCEPT ![n] = 0]
    BY DEF Restart
  <2>2. boot \in [Routers -> Nat] /\ sequencer \in [Routers -> Nat]
    BY <1>1 DEF TypeOK
  <2> QED
    BY <2>1, <2>2 DEF ClocksGoOn, Past
<1> QED
  BY <1>1, <1>3, <1>4, <1>5, ForgettingKeepsPairs

-----------------------------------------------------------------------------
(* The theorem *)

LEMMA PairInvInit == Init => PairInv
<1> SUFFICES ASSUME Init PROVE PairInv
  OBVIOUS
<1>1. TypeInv
  BY TypeInvInit
<1>2. /\ msgs = {} /\ \A n, m \in Routers : nbr[n][m] = NoNeighbor
      /\ NoNeighbor.state = "Absent"
  BY DEF Init, NoNeighbor
<1>3. PairObjects
  BY <1>2, NoNeighborPair DEF PairObjects
<1> QED
  BY <1>1, <1>2, <1>3
  DEF PairInv, Agreement, SyncsArePast, ObjectsArePast, InformedSyncs, NoneCross

LEMMA PairInvNext == PairInv /\ [Next]_vars => PairInv'
<1> SUFFICES ASSUME PairInv, [Next]_vars PROVE PairInv'
  OBVIOUS
<1>1. TypeInv' /\ TypeOK'
  BY TypeInvNext DEF PairInv, TypeInv
<1>2. SUFFICES Agreement'
  BY <1>1 DEF PairInv
<1>3. ASSUME NEW n \in Routers, NEW m \in Routers, Receive(n, m)
      PROVE  Agreement'
  BY <1>1, <1>3, ReceiveSyncUnknownKeepsPairs, ReceiveSyncResetKeepsPairs,
     ReceiveSyncSlaveKeepsPairs, ReceiveSyncMasterKeepsPairs, ReceiveHelloKeepsPairs,
     ReceiveUpstreamKeepsPairs DEF Receive
<1>4. ASSUME NEW n \in Routers, NEW m \in Routers,
             SyncTimeout(n, m) \/ RemoveNeighbor(n, m)
      PROVE  Agreement'
  BY <1>1, <1>4, SyncTimeoutKeepsPairs, SetNoNeighborKeepsPairs DEF RemoveNeighbor
<1>5. ASSUME NEW n \in Routers, NEW t \in Trees,
             BecomeUpstream(n, t) \/ StopUpstream(n, t)
      PROVE  Agreement'
  BY <1>5, TableChangeKeepsPairs
<1>6. ASSUME NEW n \in Routers, NEW farewell \in BOOLEAN, Restart(n, farewell)
      PROVE  Agreement'
  BY <1>6, RestartKeepsPairs
<1>7. CASE UNCHANGED vars
  BY <1>7, ClocksRest, ForgettingKeepsPairs DEF vars, PairInv, TypeInv
<1> QED
  BY <1>3, <1>4, <1>5, <1>6, <1>7 DEF Next

\* Each of the two has confirmed a snapshot of the other, and no later one than
\* the latest.  If neither is the latest the confirmations cross; if one is, it
\* names what the object it was built from holds.
LEMMA PairInvImpliesAgreement == PairInv => SyncedPairsAgree
<1> SUFFICES ASSUME PairInv, NEW n \in Routers, NEW m \in Routers,
                    nbr[n][m].state = "Synced", nbr[m][n].state = "Synced",
                    nbr[n][m].time_of_boot = nbr[m][n].my_snapshot_boot_time,
                    nbr[m][n].time_of_boot = nbr[n][m].my_snapshot_boot_time
             PROVE  /\ nbr[n][m].neighbor_snapshot_sn = nbr[m][n].my_snapshot_sequencer
                    /\ nbr[m][n].neighbor_snapshot_sn = nbr[n][m].my_snapshot_sequencer
  BY DEF SyncedPairsAgree
<1> DEFINE r == nbr[n][m]
           q == nbr[m][n]
<1>1. TypeOK /\ NoneCross /\ PairObject(n, m, r, msgs) /\ PairObject(m, n, q, msgs)
  BY DEF PairInv, TypeInv, Agreement, PairObjects
<1>2. r \in Neighbor /\ q \in Neighbor
  BY <1>1, NeighborTypes
<1>3. /\ r.time_of_boot \in Nat /\ r.neighbor_snapshot_sn \in Nat
      /\ r.my_snapshot_boot_time \in Nat /\ r.my_snapshot_sequencer \in Nat
      /\ q.time_of_boot \in Nat /\ q.neighbor_snapshot_sn \in Nat
      /\ q.my_snapshot_boot_time \in Nat /\ q.my_snapshot_sequencer \in Nat
  BY <1>2, ObjectNumbers
<1>4. /\ r.state = "Synced" /\ q.state = "Synced"
      /\ r.time_of_boot = q.my_snapshot_boot_time
      /\ q.time_of_boot = r.my_snapshot_boot_time
  OBVIOUS
<1> HIDE DEF r, q
<1>5. r.my_snapshot_sequencer > 0 /\ q.my_snapshot_sequencer > 0
  BY <1>1, <1>4 DEF PairObject, NumberedObject
<1>6. PICK p \in msgs : Confirms(p, n, m, r)
  BY <1>1, <1>4 DEF PairObject, ConfirmedObject, Confirms
<1>7. PICK o \in msgs : Confirms(o, m, n, q)
  BY <1>1, <1>4 DEF PairObject, ConfirmedObject, Confirms
<1>8. r.neighbor_snapshot_sn <= q.my_snapshot_sequencer
  <2>1. \/ p.boot < q.my_snapshot_boot_time
        \/ p.boot = q.my_snapshot_boot_time /\ p.my_snapshot_sn <= q.my_snapshot_sequencer
    BY <1>1, <1>4, <1>6 DEF PairObject, LatestObject, Confirms
  <2> QED
    BY <1>3, <1>4, <1>6, <2>1 DEF Confirms, OfSnapshot
<1>9. q.neighbor_snapshot_sn <= r.my_snapshot_sequencer
  <2>1. \/ o.boot < r.my_snapshot_boot_time
        \/ o.boot = r.my_snapshot_boot_time /\ o.my_snapshot_sn <= r.my_snapshot_sequencer
    BY <1>1, <1>4, <1>7 DEF PairObject, LatestObject, Confirms
  <2> QED
    BY <1>3, <1>4, <1>7, <2>1 DEF Confirms, OfSnapshot
<1>10. \/ r.neighbor_snapshot_sn = q.my_snapshot_sequencer
       \/ q.neighbor_snapshot_sn = r.my_snapshot_sequencer
  <2>1. SUFFICES ASSUME r.neighbor_snapshot_sn < q.my_snapshot_sequencer,
                        q.neighbor_snapshot_sn < r.my_snapshot_sequencer
                 PROVE  FALSE
    BY <1>3, <1>8, <1>9
  <2>2. Crossing(p, o)
    BY <1>4, <1>6, <1>7, <2>1 DEF Crossing, Confirms, SyncOf, OfSnapshot
  <2> QED
    BY <1>1, <1>6, <2>2 DEF NoneCross, Confirms, SyncOf
<1>11. ASSUME r.neighbor_snapshot_sn = q.my_snapshot_sequencer
       PROVE  q.neighbor_snapshot_sn = r.my_snapshot_sequencer
  <2>1. OfSnapshot(p, q.my_snapshot_boot_time, q.my_snapshot_sequencer) /\ SyncOf(p, m, n)
    BY <1>4, <1>6, <1>11 DEF Confirms, OfSnapshot
  <2>2. p.neighbor_snapshot_sn \in {0, q.neighbor_snapshot_sn}
    BY <1>1, <1>4, <2>1 DEF PairObject, LatestObject
  <2> QED
    BY <1>3, <1>5, <1>6, <2>2 DEF Confirms
<1>12. ASSUME q.neighbor_snapshot_sn = r.my_snapshot_sequencer
       PROVE  r.neighbor_snapshot_sn = q.my_snapshot_sequencer
  <2>1. OfSnapshot(o, r.my_snapshot_boot_time, r.my_snapshot_sequencer) /\ SyncOf(o, n, m)
    BY <1>4, <1>7, <1>12 DEF Confirms, OfSnapshot
  <2>2. o.neighbor_snapshot_sn \in {0, r.neighbor_snapshot_sn}
    BY <1>1, <1>4, <2>1 DEF PairObject, LatestObject
  <2> QED
    BY <1>3, <1>5, <1>7, <2>2 DEF Confirms
<1> QED
  BY <1>10, <1>11, <1>12 DEF r, q

\* Two routers that are Synced with each other agree on both snapshot SNs,
\* whatever Syncs of earlier attempts, roles and BootTimes were still under way
\* (EchoesMySnapshot in the recv_sync of Slave and Master is what it takes):
\* the Acks of each are those the other accepts.
THEOREM PairsAgree == Spec => []SyncedPairsAgree
<1>1. Init => PairInv
  BY PairInvInit
<1>2. PairInv /\ [Next]_vars => PairInv'
  BY PairInvNext
<1>3. PairInv => SyncedPairsAgree
  BY PairInvImpliesAgreement
<1> QED
  BY <1>1, <1>2, <1>3, PTL DEF Spec
=============================================================================
