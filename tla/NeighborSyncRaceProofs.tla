----------------------- MODULE NeighborSyncRaceProofs -----------------------
(***************************************************************************)
(* Proofs about NeighborSyncRace: what the Sync timer that runs without    *)
(* neighbors_lock cannot spoil.  It mixes the trees of two moments (the    *)
(* finding of the run mixed_slices, so that what a Synced router holds is  *)
(* not proved here), but whatever it reads, and whenever, the packets and  *)
(* the objects remain well formed and two routers that are Synced agree on *)
(* their snapshots: the SNs of the late Sync are those of its object.      *)
(***************************************************************************)
EXTENDS NeighborSyncRace, NeighborSyncProofs

CallbackTypeOK == callback \in [Routers -> [Routers -> SUBSET Readings]]

\* The object that a running callback belongs to is in the table.
CallbackHasObject ==
  \A n, m \in Routers : callback[n][m] # {} => nbr[n][m].state # "Absent"

RaceInv ==
  /\ PairInv
  /\ CallbackTypeOK
  /\ CallbackHasObject

-----------------------------------------------------------------------------
(* The callback *)

LEMMA TimeoutReadsKeepsRaceInv ==
  ASSUME RaceInv, NEW n \in Routers, NEW m \in Routers, TimeoutReads(n, m)
  PROVE  RaceInv'
<1> DEFINE r == nbr[n][m]
           reading == [state |-> r.state,
                       trees |-> Fragment(r.my_snapshot_mrt, RetransmittedSN(r.state, r))]
<1>1. TypeInv /\ TypeOK /\ Agreement
  BY DEF RaceInv, PairInv, TypeInv
<1>2. /\ r.state \in {"Slave", "Master"} /\ UNCHANGED vars
      /\ callback' = [callback EXCEPT ![n][m] = {reading}]
  BY DEF TimeoutReads
<1>3. r \in Neighbor /\ RetransmittedSN(r.state, r) \in Nat
  BY <1>1, <1>2, NeighborTypes, RetransmittedType
<1>4. reading \in Readings
  <2>1. r.my_snapshot_mrt \in Seq(Trees)
    BY <1>3 DEF Neighbor
  <2>2. Fragment(r.my_snapshot_mrt, RetransmittedSN(r.state, r)) \subseteq Trees
    BY <1>3, <2>1, SliceTypes
  <2> QED
    BY <1>2, <2>2 DEF Readings
<1>5. r.state # "Absent"
  BY <1>2
<1> HIDE DEF reading, r
<1>6. CallbackTypeOK'
  BY <1>2, <1>4 DEF RaceInv, CallbackTypeOK
<1>7. CallbackHasObject'
  BY <1>2, <1>5 DEF RaceInv, CallbackTypeOK, CallbackHasObject, vars, r
<1>8. TypeInv'
  BY <1>1, <1>2, TypeInvNext
<1>9. Agreement'
  BY <1>1, <1>2, ClocksRest, ForgettingKeepsPairs DEF vars
<1> QED
  BY <1>6, <1>7, <1>8, <1>9 DEF RaceInv, PairInv

\* What the callback sends names the snapshots of the object of now; the trees
\* it read before are some trees.
LEMMA LateSync ==
  ASSUME TypeInv, NEW n \in Routers, NEW m \in Routers, nbr[n][m].state # "Absent",
         NEW reading \in Readings, NEW k \in Nat, NEW p,
         p = [Sync(n, m, nbr[n][m], k, reading.state = "Slave") EXCEPT
                !.trees = IF MoreBit(nbr[n][m].my_snapshot_mrt, k)
                          THEN reading.trees ELSE {}]
  PROVE  p \in SyncMsgs /\ BuiltFrom(p, n, m, nbr[n][m])
<1> DEFINE r == nbr[n][m]
           q == Sync(n, m, r, k, reading.state = "Slave")
           trees == IF MoreBit(r.my_snapshot_mrt, k) THEN reading.trees ELSE {}
<1>1. r \in Neighbor /\ (reading.state = "Slave") \in BOOLEAN
  BY NeighborTypes DEF TypeInv
<1>2. q \in SyncMsgs /\ BuiltFrom(q, n, m, r)
  BY <1>1, SyncType, SyncIsBuilt
<1>3. trees \in SUBSET Trees
  BY DEF Readings
<1>4. p = [q EXCEPT !.trees = trees]
  OBVIOUS
<1> HIDE DEF q, trees, r
<1>5. p \in SyncMsgs
  BY <1>2, <1>3, <1>4 DEF SyncMsgs
<1>6. BuiltFrom(p, n, m, r)
  BY <1>2, <1>4 DEF SyncMsgs, BuiltFrom, SyncOf, OfSnapshot
<1> QED
  BY <1>5, <1>6 DEF r

LEMMA TimeoutSendsKeepsRaceInv ==
  ASSUME RaceInv, NEW n \in Routers, NEW m \in Routers, TimeoutSends(n, m)
  PROVE  RaceInv'
<1> DEFINE r == nbr[n][m]
           SN(reading) == RetransmittedSN(reading.state, r)
           Late(reading) ==
             [Sync(n, m, r, SN(reading), reading.state = "Slave") EXCEPT
                !.trees = IF MoreBit(r.my_snapshot_mrt, SN(reading))
                          THEN reading.trees ELSE {}]
<1>1. TypeInv /\ TypeOK /\ Agreement
  BY DEF RaceInv, PairInv, TypeInv
<1>2. /\ \E reading \in callback[n][m] :
           Send(IF SN(reading) >= 0 THEN {Late(reading)} ELSE {})
      /\ callback' = [callback EXCEPT ![n][m] = {}]
      /\ UNCHANGED <<boot, sequencer, mrt, nbr, snapshots, faults>>
  BY DEF TimeoutSends
<1>3. PICK reading \in callback[n][m] :
        Send(IF SN(reading) >= 0 THEN {Late(reading)} ELSE {})
  BY <1>2
<1>4. /\ reading \in Readings /\ callback[n][m] # {} /\ r.state # "Absent"
      /\ r \in Neighbor /\ r.current_sync_sn \in Nat
  BY <1>1, NeighborTypes DEF RaceInv, CallbackTypeOK, CallbackHasObject
<1>5. SN(reading) \in Int
  BY <1>4 DEF RetransmittedSN
<1>6. \A p \in msgs' : p \in msgs \/ (p \in SyncMsgs /\ BuiltFrom(p, n, m, r))
  <2>1. CASE SN(reading) >= 0
    <3>1. SN(reading) \in Nat
      BY <1>5, <2>1
    <3>2. Late(reading) \in SyncMsgs /\ BuiltFrom(Late(reading), n, m, r)
      BY <1>1, <1>4, <3>1, LateSync
    <3>3. msgs' = msgs \cup {Late(reading)}
      BY <1>3, <2>1 DEF Send
    <3> QED
      BY <3>2, <3>3
  <2>2. CASE ~(SN(reading) >= 0)
    BY <1>3, <2>2 DEF Send
  <2> QED
    BY <2>1, <2>2
<1>7. msgs \subseteq msgs'
  BY <1>3 DEF Send
<1> HIDE DEF r, SN, Late
<1>8. TypeInv' /\ TypeOK'
  BY <1>1, <1>2, <1>6 DEF TypeInv, TypeOK, MasterHasAnswered
<1>9. Agreement'
  <2>1. SetNeighbor(n, m, r)
    BY <1>1, <1>2 DEF TypeOK, SetNeighbor, r
  <2>2. Stores(n, m, r)
    BY <1>6, <1>7, <2>1 DEF Stores
  <2>3. /\ PairObject(n, m, r, msgs)
        /\ Past(boot', sequencer', n, r.my_snapshot_boot_time, r.my_snapshot_sequencer)
    BY <1>1, <1>2, <1>4 DEF Agreement, PairObjects, ObjectsArePast, r
  <2> QED
    BY <1>1, <1>2, <1>4, <1>8, <2>2, <2>3, ClocksRest, StoreKeepsPairs
<1>10. CallbackTypeOK' /\ CallbackHasObject'
  BY <1>2 DEF RaceInv, CallbackTypeOK, CallbackHasObject
<1> QED
  BY <1>8, <1>9, <1>10 DEF RaceInv, PairInv

-----------------------------------------------------------------------------
(* The theorems *)

LEMMA RaceInvInit == RaceInit => RaceInv
<1> SUFFICES ASSUME RaceInit PROVE RaceInv
  OBVIOUS
<1>1. PairInv
  BY PairInvInit DEF RaceInit
<1>2. callback = [n \in Routers |-> [m \in Routers |-> {}]]
  BY DEF RaceInit
<1> QED
  BY <1>1, <1>2 DEF RaceInv, CallbackTypeOK, CallbackHasObject

LEMMA RaceInvNext == RaceInv /\ [RaceNext]_raceVars => RaceInv'
<1> SUFFICES ASSUME RaceInv, [RaceNext]_raceVars PROVE RaceInv'
  OBVIOUS
<1>1. CASE LockedStep
  <2>1. PairInv'
    BY <1>1, PairInvNext DEF RaceInv, LockedStep
  <2> QED
    BY <1>1, <2>1 DEF RaceInv, LockedStep, CallbackTypeOK, CallbackHasObject
<1>2. ASSUME NEW n \in Routers, NEW m \in Routers, TimeoutReads(n, m) \/ TimeoutSends(n, m)
      PROVE  RaceInv'
  BY <1>2, TimeoutReadsKeepsRaceInv, TimeoutSendsKeepsRaceInv
<1>3. CASE UNCHANGED raceVars
  <2>1. UNCHANGED vars /\ UNCHANGED callback
    BY <1>3 DEF raceVars, vars
  <2>2. PairInv'
    BY <2>1, PairInvNext DEF RaceInv
  <2> QED
    BY <2>1, <2>2 DEF RaceInv, CallbackTypeOK, CallbackHasObject, vars
<1> QED
  BY <1>1, <1>2, <1>3 DEF RaceNext

\* Whatever moments the Sync timer reads at, it sends well formed packets, and
\* none with a negative sync_sn.
THEOREM RaceTypeCorrect == RaceSpec => []RaceTypeOK
<1>1. RaceInit => RaceInv
  BY RaceInvInit
<1>2. RaceInv /\ [RaceNext]_raceVars => RaceInv'
  BY RaceInvNext
<1>3. RaceInv => RaceTypeOK
  BY DEF RaceInv, PairInv, TypeInv, CallbackTypeOK, RaceTypeOK
<1> QED
  BY <1>1, <1>2, <1>3, PTL DEF RaceSpec

\* The Sync timer of a superseded attempt never makes two routers Synced with
\* snapshots that they do not agree on, although handlers run between its reads.
THEOREM RacePairsAgree == RaceSpec => []SyncedPairsAgree
<1>1. RaceInit => RaceInv
  BY RaceInvInit
<1>2. RaceInv /\ [RaceNext]_raceVars => RaceInv'
  BY RaceInvNext
<1>3. RaceInv => SyncedPairsAgree
  BY PairInvImpliesAgreement DEF RaceInv
<1> QED
  BY <1>1, <1>2, <1>3, PTL DEF RaceSpec
=============================================================================
