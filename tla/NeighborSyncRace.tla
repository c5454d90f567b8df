------------------------- MODULE NeighborSyncRace -------------------------
(***************************************************************************)
(* NeighborSync with the Sync timer as it really runs: on a thread of its  *)
(* own that does not take neighbors_lock (Neighbor.sync_timeout), so that  *)
(* the handlers of received packets run between its reads.                 *)
(*                                                                         *)
(* The callback reads the state and the slice of the snapshot first, and   *)
(* the more bit, the SNs and the sync_sn that go with the slice later; two *)
(* reading steps are enough to show what can be mixed.  A callback that    *)
(* outlives the Neighbor object it belongs to is not modelled: while one   *)
(* runs, its object stays in the table.                                    *)
(***************************************************************************)
EXTENDS NeighborSync

VARIABLE
  callback    \* callback[n][m]: the slices that running callbacks have read

raceVars == <<boot, sequencer, mrt, nbr, msgs, snapshots, faults, callback>>

\* What a callback has read; the state decides the code it runs to the end.
Readings == [state : {"Slave", "Master"}, trees : SUBSET Trees]

RaceTypeOK ==
  /\ TypeOK
  /\ callback \in [Routers -> [Routers -> SUBSET Readings]]

\* sync_timer_expires of Slave or Master, up to the slice.
TimeoutReads(n, m) ==
  LET r == nbr[n][m]
  IN  /\ r.state \in {"Slave", "Master"}
      /\ callback[n][m] = {}
      /\ callback' = [callback EXCEPT ![n][m] =
           {[state |-> r.state,
             trees |-> Fragment(r.my_snapshot_mrt, RetransmittedSN(r.state, r))]}]
      /\ UNCHANGED vars

\* The rest of it.  A negative sync_sn does not fit the header: struct.pack
\* raises and nothing is sent.  Without the more bit no tree is encoded.
TimeoutSends_NegativeSN(n, m) ==
  /\ \E reading \in callback[n][m] :
       LET r == nbr[n][m]
           k == RetransmittedSN(reading.state, r)
       IN  Send({Sync(n, m, r, k, reading.state = "Slave")})
  /\ callback' = [callback EXCEPT ![n][m] = {}]
  /\ UNCHANGED <<boot, sequencer, mrt, nbr, snapshots, faults>>
TimeoutSends(n, m) ==
  /\ \E reading \in callback[n][m] :
       LET r == nbr[n][m]
           k == RetransmittedSN(reading.state, r)
           p == [Sync(n, m, r, k, reading.state = "Slave") EXCEPT
                   !.trees = IF MoreBit(r.my_snapshot_mrt, k) THEN reading.trees ELSE {}]
       IN  Send(IF k >= 0 THEN {p} ELSE {})
  /\ callback' = [callback EXCEPT ![n][m] = {}]
  /\ UNCHANGED <<boot, sequencer, mrt, nbr, snapshots, faults>>

RaceInit == Init /\ callback = [n \in Routers |-> [m \in Routers |-> {}]]

\* A step that takes neighbors_lock, which running callbacks do not hold.
LockedStep ==
  /\ Next
  /\ \A n, m \in Routers : callback[n][m] # {} => nbr'[n][m].state # "Absent"
  /\ UNCHANGED callback

RaceNext ==
  \/ LockedStep
  \/ \E n, m \in Routers : TimeoutReads(n, m) \/ TimeoutSends(n, m)

RaceSpec == RaceInit /\ [][RaceNext]_raceVars

-----------------------------------------------------------------------------
\* "If Synchronization does not make progress, retransmit previous Sync
\* message" (hpim_globals.py): two Syncs that a router sends to a neighbor
\* under the same snapshot and sync_sn carry the same trees.  The neighbor
\* takes the first of them that arrives for the slice.
RetransmissionRepeatsSync ==
  \A p, q \in {x \in msgs : x.type = "Sync"} :
    /\ p.src = q.src /\ p.dst = q.dst /\ p.boot = q.boot
    /\ p.my_snapshot_sn = q.my_snapshot_sn /\ p.sync_sn = q.sync_sn
    => p.trees = q.trees /\ p.more = q.more
=============================================================================
