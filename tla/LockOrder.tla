----------------------------- MODULE LockOrder -----------------------------
(***************************************************************************)
(* The order in which the threads of one router take its locks, for one    *)
(* interface, one tree and one group.  An activity is a thread's handler:  *)
(* the sets of locks it holds one after the other, every call it makes     *)
(* included.  A set that is entered twice by the same thread is an RLock   *)
(* taken again.  The locks:                                                *)
(*   "neighbors", "sequencer", "buffers"   InterfaceHPIM.neighbors_lock,   *)
(*                      sequencer_lock, reliable_transmission_lock         *)
(*   "buffer"           ReliableMessageTransmission._lock of the tree      *)
(*   "table"            Kernel.rwlock (RWLock.tla says what it does)       *)
(*   "tree", "evaluate" CHANGE_STATE_LOCK and _lock_test2 of KernelEntry   *)
(*   "membership"       TreeInterface._igmp_lock                           *)
(*   "group", "trees"   GroupState.lock and multicast_interface_state_lock *)
(* Locks that are taken innermost and hold nothing are left out.           *)
(***************************************************************************)
EXTENDS Naturals, Sequences

CONSTANT Activities     \* the activities that run, of DOMAIN Path, each by a thread of its own

VARIABLE at             \* how far each activity is; 0 = not running

\* Locks taken one inside the other, by a thread that holds `outer` already.
Inside(outer, locks) ==
    [i \in 1..Len(locks) |-> outer \cup {locks[j] : j \in 1..i}]

\* A tree that changes interest tells its root interface, which sends.
Announce(outer) ==
    Inside(outer, <<"evaluate", "sequencer", "buffers", "buffer">>)

\* A report is the first of its group: GroupState tells every tree of it.
HostReport ==
    Inside({}, <<"group", "trees", "tree", "membership">>)
      \o Announce({"group", "trees", "tree", "membership"})

\* The route to a source moves: the interfaces of its trees change roles, and
\* each one withdraws from the group and registers with it again.
UnicastChange ==
    Inside({}, <<"table", "tree", "trees">>) \o Announce({"table", "tree"})

\* IGMP is enabled on the interface: its trees register with the group.
MembershipEnabled ==
    Inside({}, <<"table", "membership", "trees">>) \o Announce({"table", "membership"})

\* An inactive tree is deleted and withdraws; when a neighbor still offers it,
\* its entry is made again, with locks of its own that nobody knows yet.
RemoveRoute ==
    Inside({}, <<"table", "trees">>) \o Inside({"table"}, <<"sequencer", "buffers", "buffer">>)

\* A tree that is not known yet is created, a known one is updated.
ReceiveUpstream ==
    Inside({}, <<"neighbors", "table", "trees">>)
      \o Inside({"neighbors", "table"}, <<"tree">>)
      \o Announce({"neighbors", "table", "tree"})

\* A Hello of a neighbor that rebooted starts a snapshot.
ReceiveHello == Inside({}, <<"neighbors", "table", "sequencer", "buffers">>)
                  \o Inside({"neighbors"}, <<"buffers", "buffer">>)

ReceiveAck == Inside({}, <<"neighbors", "sequencer", "buffers", "buffer">>)

\* The last of the retransmissions a neighbor may miss: it is removed while
\* the buffer is locked, and every tree is checked again.
RetransmissionTimeout ==
    Inside({}, <<"neighbors", "buffer", "table", "tree">>)
      \o Announce({"neighbors", "buffer", "table", "tree"})

Path == [HostReport            |-> HostReport,
         UnicastChange         |-> UnicastChange,
         MembershipEnabled     |-> MembershipEnabled,
         RemoveRoute           |-> RemoveRoute,
         ReceiveUpstream       |-> ReceiveUpstream,
         ReceiveHello          |-> ReceiveHello,
         ReceiveAck            |-> ReceiveAck,
         RetransmissionTimeout |-> RetransmissionTimeout]

-----------------------------------------------------------------------------
Held(a) == IF at[a] = 0 THEN {} ELSE Path[a][at[a]]

\* What an activity takes with its next step.
Wanted(a) == IF at[a] = Len(Path[a]) THEN {} ELSE Path[a][at[a] + 1] \ Held(a)

BlockedBy(a) == {b \in Activities \ {a} : Wanted(a) \cap Held(b) # {}}

Init == at = [a \in Activities |-> 0]

Advance(a) == /\ at[a] < Len(Path[a])
              /\ BlockedBy(a) = {}
              /\ at' = [at EXCEPT ![a] = @ + 1]

Finish(a) == /\ at[a] = Len(Path[a])
             /\ at' = [at EXCEPT ![a] = 0]

Next == \E a \in Activities : Advance(a) \/ Finish(a)

Spec == Init /\ [][Next]_at

-----------------------------------------------------------------------------
\* No circle of threads wait for each other: a handler that has started gets
\* to its end, so a report reaches all the trees of its group, as
\* igmp/GroupState.py:174 says it does, and an acknowledgement that is missed
\* too often ends in the removal of the neighbor.
NobodyIsStuck ==
    \A circle \in SUBSET Activities \ {{}} :
        \E a \in circle : BlockedBy(a) \cap circle = {}

=============================================================================
