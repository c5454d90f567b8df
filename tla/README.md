# Verification of HPIM-DM

TLA+ models, model-checking runs and machine-checked proofs for the HPIM-DM
implementation in `hpimdm/` (Hard-state Protocol Independent Multicast, Dense
Mode).  Every definition is translated from the Python code; `PROJECT.json`
names, for each definition, the lines it stands for.

## 1. The system

| Part | State it keeps | Operations | What makes it correct |
|---|---|---|---|
| `InterfaceHPIM.py` | `time_of_boot`, `sequencer`, `neighbors`, `reliable_transmission_buffer`, three re-entrant locks | handlers of the seven packet types, `send_*`, Hello timer, snapshot, checkpoint, removal | SNs grow within one BootTime; a handler's effects are those of one packet |
| `Neighbor.py` | per neighbor: sync state, BootTimes and snapshot SNs of both sides, `current_sync_sn`, last SN per tree, `checkpoint_sn`, tree state, two timers | Sync handlers of each state, `recv_reliable_packet`, `recv_ack`, timers | a Synced neighbor's view is a snapshot of the other plus what followed it |
| `ReliableMsgTransmission.py` | per tree: outstanding multicast and unicast message, who acknowledged, missed Acks | send, Ack, retransmission timeout, cancel | a message is sent again until it is known or superseded; deaf neighbors are declared failed |
| `tree/` | per tree: Active/Unsure/Inactive, root and non-root interfaces, best upstream neighbors, AssertWinner, downstream interest | reactions to Upstream/Interest changes, RPC and interface changes | the tree state follows the upstream neighbors; transitions send what the neighbors must know |
| `Kernel.py`, `rwlock/` | table of trees, interfaces, readers-writer lock | creation and removal of trees, rechecks, snapshots | no tree lost or kept while a thread removes it; no deadlock of the locks |
| `igmp/`, `mld/` | per interface: querier or not; per group: membership state and timers | queries, reports, timers | members imply membership state; one querier remains |
| `UnicastRouting.py` | netlink sockets | route look-up and change events | outside the protocol, an input |
| `packet/` | none | encode and parse | outside: only fields matter |
| `Main.py`, `Run.py`, `Config.py`, `daemon/` | process and configuration | command line | input and output |

A router's interface discovers a neighbor by any packet with a BootTime
(Hello, Sync, a sequenced message, an Ack).  It then takes a *snapshot* of the
trees it is UPSTREAM of, under a fresh sequence number, and both sides exchange
their snapshots in slices by *Sync* packets.  Afterwards IamUpstream,
IamNoLongerUpstream, Interest and NoInterest carry growing sequence numbers,
are acknowledged and retransmitted, and Hello's CheckpointSN says up to which
number everything was acknowledged.  The neighbors' tree state feeds the trees
(`Kernel.recv_upstream_msg`, `recv_interest_msg`), whose transitions send new
sequenced messages.

What is hard in it: packets are lost, repeated and reordered; both sides start
synchronizations at will; a router restarts or its numbers wrap while old
packets are under way; handlers run under `neighbors_lock` on the receive
thread, while the Sync, retransmission, liveness and Hello timers and the
removal of trees run on threads of their own, some of them without that lock;
a tree depends on what the neighbors' trees said last, round loops of routers;
the callback of a membership timer may wait for a lock while a report sets the
timer again; a dozen locks are nested in more than one order.  `PROJECT.json`
lists the hazards at their lines.

## 2. Modules

| Layer | Modules | Uses |
|---|---|---|
| neighbors on a link | `NeighborSync`; `NeighborSyncRace` with the Sync timer on its own thread | - |
| reliable messages | `ReliableTransmission` | extends `NeighborSync`, whose steps are part of its steps |
| one tree in one router | `TreeEntry` | - |
| one tree in a network | `TreeNetwork` | extends `TreeEntry`; takes from the layers below what they promise |
| hosts of a link | `IGMP`, `MLD`: one router; `Membership`: routers and hosts | `Membership` instantiates both |
| locks | `RWLock` implements `ReadersWriters`; `LockOrder` | - |

The modules `MC...` are the instances for TLC.  Theorems are in modules of
their own, which extend each other as the modules they are about do:
`NeighborSyncProofs`, `NeighborSyncRaceProofs`; `TransmissionProofs`;
`TreeEntryProofs`, `TreeNetworkProofs`, `TreeViewsProofs`;
`MembershipProofs`; `RWLockProofs`.  A definition `X_Y` beside a definition `X` is `X` with the
fault `Y`; no action uses it.
`PROJECT.json` says which property notices which fault.

### NeighborSync, NeighborSyncRace

Discovery, Sync handshake and filter of sequenced messages.

| In the module | In the code |
|---|---|
| `boot[n]`, `sequencer[n]` | `InterfaceHPIM.time_of_boot`, `sequencer` |
| `mrt[n]` | the trees for which `snapshot_multicast_routing_table` finds this router UPSTREAM, in enumeration order |
| `nbr[n][m]` | the `Neighbor` object for m in n's `neighbors`; `"Absent"` for none |
| `msgs` | every packet sent; it may be received later, repeatedly or never |
| `snapshots` | history variable: every snapshot taken |
| `ReceiveSyncUnknown`, `ReceiveSyncReset`, `ReceiveSyncSlave`, `ReceiveSyncMaster` | `receive_sync` with `Neighbor.recv_sync` and `recv_sync` of the state; all resets in one action |
| `SyncTimeout`, `RemoveNeighbor` | `sync_timeout`; `remove` (liveness timer, forced failure) |
| `ReceiveHello`, `ReceiveUpstream` | `receive_hello`; `receive_i_am_upstream`, `receive_i_am_no_longer_upstream` |
| `BecomeUpstream`, `StopUpstream` | the transitions of a non-root interface that send IamUpstream or IamNoLongerUpstream |
| `Restart` | `remove` of the interface, or a crash, then a new `InterfaceHPIM` |

A handler is one step because it runs under `neighbors_lock` (and a snapshot
additionally under the kernel's write lock and `sequencer_lock`).  Metrics of
trees are left out: a tree is in the neighbor's table or not.  Interest and
NoInterest remove the neighbor's UPSTREAM state exactly as IamNoLongerUpstream
does, so they are not distinguished here.  A liveness timer may expire at any
moment, so Hellos that only refresh it are not steps.

`NeighborSyncRace` - the same system with the Sync timer split in two steps
(reading the slice; sending it with the SNs of then), because
`Neighbor.sync_timeout` takes no lock.

### ReliableTransmission

What surrounds the synchronization: it extends `NeighborSync`, whose actions
remain the steps of the neighbor objects, and adds

| In the module | In the code |
|---|---|
| `buffer[n][t]` | the `ReliableMessageTransmission` of tree t at n: outstanding multicast and unicast messages, who acknowledged, missed Acks |
| `interests`, `acks` | the packets sent; as in `msgs`, they may be received any number of times |
| `hellos` | the Hellos with a CheckpointSN; they are periodic, so one of any moment may be under way |
| `checkpoint_sn[n][m]` | `Neighbor.checkpoint_sn` |
| `delivered` | history variable: the number of the last message passed on to the trees |
| `AckedBy`, `CancelMulticast`, `CancelUnicast`, `NoMessages` | `receive_ack` and the `cancel_*` functions, as functions of a buffer |
| `Synchronize` | a step of `NeighborSync`, with `neighbor_start_synchronization` when it takes a snapshot and the numbers forgotten when it resets |
| `Announce`, `SendInterest` | `send_i_am_upstream`, `send_i_am_no_longer_upstream`; `send_interest`, `send_no_interest` |
| `ReceiveSequenced`, `ReceiveAck`, `ReceiveCheckpoint` | `recv_reliable_packet` and its four callers; `receive_ack`; `recv_hello` of a Synced neighbor |
| `RetransmissionTimeout` | `retransmission_timeout`, with `check_neighbor_failures` |

A packet stays receivable, so retransmitting it changes only the counts.
`RetransmissionTimeout` may happen whenever something is outstanding: a
cancelled `Timer` whose callback already waits for the lock runs too.  The
payload of Interest and NoInterest is left out, their numbers identify them;
both say that the sender is not UPSTREAM, which `Deliver` does.

### TreeEntry, TreeNetwork

`TreeEntry` is one (Source, Group) tree at one router.  An entry is a record, and
each method of the code is an operator that returns the entry after the call;
the messages that the call sends and the removal threads that it starts collect
in the entry, in their order, so that calls compose as they do in the code.

| In the module | In the code |
|---|---|
| `Entry`, `BlankEntry`, `CreateOriginator`, `CreateNonOriginator`, `CreateEntry` | `KernelEntry`, its two subclasses and `create_entry` |
| `e.ups`, `e.int` | `_upstream_interface_state`, `_interest_interface_state` |
| `e.ifs[l]` | `TreeInterfaceRoot`, `TreeInterfaceRootOriginator`, `TreeInterfaceNonRoot` |
| `FeasibleUpstream`, `NonOriginatorTreeState`, `OriginatorTreeState` | `check_tree_state` |
| `Transition`, `InterfaceToActive`, `InterfaceToUnsure`, `InterfaceToInactive` | `tree_state.py`, `tree_transition_to_*`, `non_root_state_machine.py` |
| `CalculateAssertWinner`, `HoldForwardingTimeout`, `Forwarding` | AssertWinner and the hold of a loser's forwarding |
| `EvaluateInTree`, `SendMyInterest` | `evaluate_in_tree_change`, `root_state_machine.py` |
| `NetworkUpdate`, `NewInterface`, `RemoveInterface` | methods of the same names, for originators and others |
| `e.mfc` | the last `set_multicast_route` |

`TreeNetwork` puts such entries, at most one per router, into the kernels of
several routers.

| In the module | In the code |
|---|---|
| `entry[n]` | `Kernel.routing` |
| `view[p]`, `adj[p]` | tree state and sync state of the `Neighbor` object for `p.of` at `p.at` |
| `chan[p]` | the sequenced messages about the tree that `p.at` has not received |
| `pending`, `removing[n]` | callbacks of `UnicastRouting` and threads of `remove_multicast_route` that wait for the write lock |
| `Receive` | `receive_interest` ... `receive_i_am_no_longer_upstream` of `InterfaceHPIM`, `recv_upstream_msg`, `recv_interest_msg` |
| `Resync`, `Discover`, `AdjacencyReset`, `Synced` | the moments of a synchronization at which the trees take part |
| `NeighborFails`, `NeighborGone` | the two ways to lose a neighbor |
| `DataArrives`, `SourceExpires`, `HoldTimeout` | data and timers |
| `MembershipChange`, `NotifyUnicastChanges`, `InterfaceDown`, `InterfaceUp`, `RemoveTree` | operations of the kernel and its trees |

Synchronization and retransmission appear as what `NeighborSync` and
`ReliableTransmission` promise: a Synced neighbor has the snapshot, and the
newest message about a tree is known in the end (`SyncedHasSnapshot`,
`SettledIsKnown`).  So a channel hands over messages in order and may skip any
but the last.  Administrative distance and cost are one number, in their order.
`LongLifetime` states the one assumption about time: `SOURCE_LIFETIME` (210 s) is
long, so that a source expires only when no message is under way.

`HPIMStateMachines.pdf`, 7.3, keeps a tree whose router becomes originator
Active; `network_update` (KernelEntry.py:362-364) makes it Inactive until data
arrive.  The module follows the code.

### IGMP, MLD, Membership

`IGMP` and `MLD` are `RouterState` and `GroupState` with the state functions of
`querier/` and `nonquerier/`: one operator per file of states, which returns the
group after the event.  `Membership` adds the link:

| In the module | In the code |
|---|---|
| `router[r]`, `group[r]` | `RouterState`, `GroupState` with the time left of each timer |
| `notifying[r]` | a handler that holds `GroupState.lock` between `set_state` and the last `notify_membership` |
| `tree[r]` | `_local_membership_state` of a registered tree interface |
| `expired[r]` | callbacks of timers that have expired and wait for the lock |
| `arrived[r]` | packets that were not handled yet |
| `members`, `answer` | the hosts, as one population that answers queries in time |

Time is discrete: `Tick` moves it only when all that has arrived or expired is
handled.  Report suppression between hosts is theirs; packets to addresses that
the interfaces reject are left out.

### RWLock, ReadersWriters, LockOrder

`RWLock` is `RWLockWrite`, the lock the kernel uses: `Acquire` of each of five
locks and every change of the two counters is a step.  `ReadersWriters` is
what its docstring promises; `RW == INSTANCE ReadersWriters WITH ...` maps the
stages of the threads to who reads, who writes and whether writers bar the way.

`LockOrder` gives for eight activities of a router the sequence of locks they
hold, every call included, and asks whether some activities can wait for each
other.  Locks that are taken innermost are left out.

## 3. Runs

| Run | Question | Bounds and why they are enough |
|---|---|---|
| `neighbor_sync` | do the safety properties survive any order, loss and repetition of packets, and do handshakes end? | 2 routers; scenario "updates": both have trees, 2 trees and 1 tree per Sync, so a snapshot takes up to 3 Syncs per side, 4 tree changes; scenario "restart": one restart, wrap or expired liveness timer, 2 BootTimes, SNs up to 3 |
| `neighbor_sync_race` | what survives the unlocked Sync timer? | 1 tree, 4 sequence numbers, 1 fault |
| `mixed_slices` | does a retransmission repeat the Sync it retransmits? It does not (section 6) | 2 trees |
| `reliable` | is what m no longer waits for known to n, and does no checkpoint hide news? | "updates": 2 routers that both may be UPSTREAM and send Interest, messages up to SN 3, so messages supersede each other before, during and after the handshake; "failures": 1 neighbor declared failed or dead; "multicast": 3 routers, Synced at the start, as discovery among three is too large |
| `reliable_restart` | and with restarts, wraps that clear the buffers, and packets of an earlier BootTime? does every message end to be retransmitted, even to the deaf? | "restart": 2 BootTimes, 1 fault, numbers wrap at 3; "silence": 2 SNs per router, 4 failures, which these SNs cannot exceed |
| `tree_network` | does the network come to rest in a correct state, whatever an event meets in flight? | 3 routers: R1 next to the source, R2 and R3 on R1's link and on a link with a host, which they compete for; 1 event, of any kind and at any moment, so also during the first formation of the tree; 2 messages per channel |
| `tree_loop` | does a tree form, and die with its source, where routers hear of it from each other? | R2 reaches the source through R3 while R3 is R2's neighbor at two links; the source, which sends at first, may stop and start again, at any moment |
| `tree_revival` | is no tree left without originator? One is (section 6) | R1 has two links in the source's subnet; 2 events: the source stops, the route moves |
| `tree_interest` | does an AssertWinner know who is interested after a route change? Not always (section 6) | R2's route leads to a link without UPSTREAM router and moves to one with; 1 event |
| `membership` | are members kept and found, empty groups given up, trees told, one Querier elected? | 2 routers, both protocols; query interval 3, response 2, last member 1 ticks, robustness 2, the order of the real values; 1 lost packet, 1 event |
| `rwlock` | does the kernel's lock keep its promise and let writers in? | 5 threads: any two readers and three writers can meet; no other bound |
| `lock_order` | can threads wait for each other in a circle? They can (section 6) | each activity once |

Deadlock is checked in `membership`, `rwlock` and `lock_order`.  In the others
the system may stop: once all routers are Synced, or the network is at rest,
nothing more happens, and at the bounds the environment stops.  A bound is
always a guard: `MaxUpdateSN` on tree changes, `MaxFaults` on restarts, expired
liveness timers and failures for missed Acks, `MaxBootTime`, `MaxEvents` on what
the environment does, `MaxInFlight` on channels, `MaxLosses` on lost packets.

Properties:

* `SyncedHasSnapshot`: a Synced router holds one whole snapshot of its neighbor,
  neither a tree more nor less, corrected by the sequenced messages received.
  (Checked and proved on `NeighborSync` only: its statement refers to the last
  numbers, which a CheckpointSN makes a router forget.)
* `SyncedViewIsCurrent`: when nothing the neighbor said about a tree after the
  snapshot is still to be received, the view of the tree is the neighbor's
  present state; so no message dropped as old carried news.
* `SyncedPairsAgree`: two routers Synced with each other agree on both snapshot
  SNs, without which all their Acks would be refused.
* `UpdatesEndConsistent`: both end up Synced with the right view.
* `SettledIsKnown`: while n holds m's present snapshot and m waits for no Ack of
  n about a tree, n was passed the last thing m said about it (or has it from
  the snapshot) and knows whether m is UPSTREAM.
* `CheckpointHidesNoNews`: the same once a CheckpointSN of m covers m's last
  message about the tree, whatever m still waits for.
* `SilenceIsNotWaitedFor`: no message is retransmitted for ever.
* `RetransmissionRepeatsSync`: two Syncs under one snapshot and sync_sn are equal.
* at rest, that is when nothing is in flight or due: `ViewsAreTrue` (what is
  stored of a neighbor is what it would say now), `StateFollowsViews` (what an
  entry remembers of an interface is what its neighbors say), `InterestIsTrue`,
  `OneForwarder` (who forwards to a link from an Active tree is the only one:
  no duplicates; a router with an Unsure tree gets no data to forward),
  `InterestedAreServed` and `MembersAreServed` (no one who needs data is
  forgotten, away from the source's own link), `RouteIsCurrent` (the kernel
  forwards as the entry says), `EntryFollowsRoute`, `NoOrphanTree`.
* `TreeForms`, `TreeDies`: what Tests 1, 3 and 7, and 5 and 8, of
  `CorrectnessTests.pdf` look at.
* `TreesFollowGroup`: a tree knows of the members when its group does, also when
  it registers in the middle of a notification.
* `MembersAreKept`: with no more losses than the robustness allows, a router
  gives up a group only when it has no members.  `MembersAreFound`,
  `GroupsAreGivenUp`, `OneQuerier` state what must happen in the end.
* `ImplementsReadersWriters`, `FirstReaderNeverWaits` (the first reader asks for
  the resource while it bars everybody else), `WritersGetIn`, `NobodyIsStuck`.

Fairness:

* `FairSpec` of `NeighborSync`: reception by each ordered pair of routers,
  because Hellos repeat every `HELLO_PERIOD` and unreceived Syncs are repeated by
  the timer; and the Sync timer, which `sync_timer_expires` always re-arms.  It
  assumes that the channel finally delivers what it was given: the last answer
  of a handshake is never repeated by the code (`Synced.recv_sync` raises), so
  on a channel that may lose it only the liveness timer helps.  Faults are left
  out of the liveness property because stale packets that may come back for
  ever can prolong the resets beyond any bound on SNs.
* `TransmissionFairness`: only the retransmission timer, which
  `retransmission_timeout` sets again while a message is outstanding; neighbors
  and channel may do nothing at all.
* `FairSpec` of `TreeNetwork`: a router's due steps (timers, callbacks, threads)
  and each channel; what is sent is retransmitted until it is received.  The
  events of the environment need not happen.
* `MembershipFairSpec`: what has arrived or expired is handled and time goes on.
  Packets are lost at most `MaxLosses` times.
* `FairSpec` of `RWLock`: weak fairness of every thread that has begun, so a
  section ends and a lock that stays free is taken, but `threading.Lock` need not
  be fair among those that wait.  Nobody has to ask for the lock.

## 4. Proofs

| Theorem | States, for any routers, trees, threads and bounds | Inductive invariant |
|---|---|---|
| `NeighborSyncProofs!TypeCorrect` | `Spec => []TypeOK` | `TypeInv` |
| `NeighborSyncProofs!SyncedHoldsSnapshot` | `Spec => []SyncedHasSnapshot` | `SnapshotInv` |
| `NeighborSyncProofs!ViewIsCurrent` | `Spec => []SyncedViewIsCurrent` | `ViewInv` |
| `NeighborSyncProofs!PairsAgree` | `Spec => []SyncedPairsAgree` | `PairInv` |
| `NeighborSyncRaceProofs!RaceTypeCorrect`, `RacePairsAgree` | `RaceSpec => []RaceTypeOK`, `[]SyncedPairsAgree` | `RaceInv` |
| `TransmissionProofs!TransmissionTypeCorrect`, `TransmissionPairsAgree` | `TransmissionSpec => []TransmissionTypeOK`, `[]SyncedPairsAgree` | `TransmissionPairInv` |
| `TransmissionProofs!SettledIsKnownAlways`, `CheckpointHidesNothing`, `TransmissionViewIsCurrent` | `TransmissionSpec => []SettledIsKnown`, `[]CheckpointHidesNoNews`, `[]SyncedViewIsCurrent` | `DeliveryInv /\ KnowledgeInv` |
| `TreeNetworkProofs!TreeTypesAreKept`, `KernelRouteIsCurrent`, `EntriesFollowRoutes`, `StatesFollowViews` | `Spec => []TreeTypeOK`, `[]RouteIsCurrent`, `[]EntryFollowsRoute`, `[]StateFollowsViews` | `TreeInv` |
| `TreeViewsProofs!ViewsStayTrue`, `OneRouterForwards`, `MembersStayServed` | `Spec /\ NoRevival => []ViewsAreTrue`, `[]OneForwarder`, `[]MembersAreServed` | `TreeInv /\ Truthful` |
| `MembershipProofs!MembershipTypeCorrect`, `TreesFollowTheirGroup` | `MembershipSpec => []MembershipTypeOK`, `[]TreesFollowGroup` | `MembershipInv` |
| `RWLockProofs!TypeCorrect`, `FirstReaderNeverBlocks`, `LockRefines` | `Spec => []TypeOK`, `[]FirstReaderNeverWaits`, `ImplementsReadersWriters` | `LockInv` |

The channel may lose, repeat and reorder packets at will in those of the first
three modules, routers restart and numbers wrap.  A packet that once was sent may be received in every
later state, so the invariants of the protocol speak of all packets ever sent.

### Types: `TypeInv`

Besides the types, a Master has `current_sync_sn > 0`, because the Master's
timer sends slice `current_sync_sn - 1`.

### What a Synced router holds: `SnapshotInv`, `ViewInv`

`SnapshotInv` adds to `TypeInv`:

* `SnapshotsArePast`: a snapshot has a (BootTime, SN) that its owner has used;
* `SnapshotsAreUnique`: so (owner, BootTime, SN) identifies it;
* `GoodSyncs`: the trees and the more bit of every Sync are the slice
  `sync_sn` of the snapshot that it names;
* `GoodObjects`: a synchronizing object keeps its own router's snapshot as it
  was taken; nothing is stored before slice 0 was answered; and once
  `current_sync_sn` is k > 0, the neighbor's snapshot that the object names
  exists and its tree state is that of the first k slices of it, corrected by
  the sequenced messages (for a Synced object, that of the whole snapshot).

None of the property's conjuncts is inductive alone: that slice k is the last
one follows only because k Syncs were of the *same* snapshot, which needs the
uniqueness of SNs, which needs the order of SNs.

`SyncedViewIsCurrent` also compares the object with the neighbor's own table, so
`ViewInv` adds what packets and snapshots say of that table (`TablesAreTrue`):

* `UpstreamsArePast`: no announcement is numbered ahead of its sender, so a new
  one is the last;
* `NoTreeTwice`: a tree that is taken out of a router's table is out of it;
* `LastWordIsTrue`: the last announcement about a tree under the present
  BootTime says what the table says;
* `SnapshotIsTrue`: a snapshot of the present BootTime says it of every tree
  about which nothing was announced after it.

The filter on sequenced messages enters through `GoodObjects`: a message that it
drops is not newer than one the object has stored.

### Agreement on the snapshot SNs: `PairInv`

Each side adopts what the first Sync it hears names, however stale, and both can
become Master.  `SyncedPairsAgree` follows from what was *sent*: each of two
Synced routers was told by a Sync of the other that its own snapshot is known
(`ConfirmedObject`), and of two such Syncs one was sent first.  `Agreement` is

* `SyncsArePast`, `ObjectsArePast`: no snapshot that a Sync or an object names
  as its own is ahead of its owner, so that a new snapshot is later than all;
* `PairObjects`: SNs start at 1 (`NumberedObject`); no Sync is of a later
  snapshot than the object it was built from, and Syncs of the same snapshot
  name at most one snapshot of the neighbor (`LatestObject`); what an object
  knows was heard (`InformedObject`); `ConfirmedObject`;
* `InformedSyncs`: what a Sync says of its receiver's snapshot was heard;
* `NoneCross`: no two Syncs each know a later snapshot than the one that the
  other belongs to.

Nothing in `Agreement` concerns the trees in a Sync.  So the proof carries over to
the Sync timer on its own thread, which mixes slices but not SNs: `RaceInv` is
`PairInv`, the type of what a callback has read, and `CallbackHasObject`, as
callbacks that outlive their object are left out (section 7).  And it carries over to `ReliableTransmission`, whose other steps change in an object only the
trees and the numbers of messages.

### Reliable transmission: `TransmissionPairInv`, `DeliveryInv`, `KnowledgeInv`

`TransmissionPairInv` consists of the types, `MasterHasAnswered`, `Agreement`
and `OutstandingIsPast`: an outstanding message is of the present BootTime and
numbered between 1 and the present SN.  Without it the CheckpointSN, one less
than the least outstanding number, might be negative or of another BootTime.

`SettledIsKnown` and `CheckpointHidesNoNews` say of n and m, where n holds m's
present snapshot, that n was passed m's last word about a tree, and that it
knows what that word says.  `DeliveryInv` is for the first:

* `WordsArePast`, `HellosArePast`: nothing said, and no CheckpointSN, is ahead of
  its sender;
* `NumbersAreTrue`: the number of the last message passed on is that of a message
  that was sent; what an object no longer remembers of it lies below its
  CheckpointSN; and that CheckpointSN came from a Hello;
* `AcksAreTrue`: an Ack is true of what its sender has passed on since the
  snapshot it names (`TrueAck`), or it names a snapshot of the receiver that was
  made for an earlier BootTime of the sender (`StaleAck`), and the receiver
  will not accept it;
* `OwedOrSettled`: while m's snapshot for n is of m's present BootTime, for
  every tree m's last word waits for an Ack of n, or is *settled*: the snapshot
  covers it, or there is an Ack of n for it that m would accept;
* `CheckpointsAreSettled`: a CheckpointSN in a Hello under way covers only words
  that are settled, because every outstanding message has a larger number.

The property alone is not inductive: an Ack received now may have been sent before
a snapshot, a restart or a wrap on either side, so the invariant has to say of
every Ack ever sent why it may count.  That an Ack which m would accept is a
`TrueAck` follows from `Agreement`: n was told by m of the snapshot n is Synced
with, so m's object names n's present BootTime and snapshot.

`KnowledgeInv` is for the second half, and for `SyncedViewIsCurrent`: it has
`SnapshotsAreSound` (the first three parts of `SnapshotInv`), `WordsAreTrue`
(`TablesAreTrue`, and that the last word about a tree is true when it is an
Interest) and `GoodMemories`.  `GoodObjects` itself is no invariant here, as a
CheckpointSN makes an object forget numbers; `GoodMemories` states it of the
objects as they would be had they forgotten nothing (`delivered` in place of the
numbers), with Interests counted as words "not UPSTREAM".  What makes the two
agree is `NumbersAreTrue`: what an object has forgotten lies below its
CheckpointSN, which filters those messages as the numbers did.  Both invariants
were also checked by TLC, on the instance of `reliable_restart`.

### Trees: `TreeInv`

`TreeEntryProofs` is about one router.  An entry is `Whole` when it has its type,
the inbound interface is the root interface and no other is, every other
interface outside the source's subnet has the state of the tree (in an
Inactive one it is at least not Active) and the result of its AssertWinner
election, and the kernel's
multicast route is the one that the entry calls for.  One lemma for every method
of `KernelEntry.py` says that it leads from whole entries to whole ones, that it
starts the removal thread when it makes the tree Inactive, and what it changes.
The loops over the interfaces are folds over `Vifs`; `FoldReaches`
proves of them, by induction over the number of steps, that the result lies in
T[N] when the start lies in T[0] and step k leads from T[k - 1] to T[k].  What holds
half-way through a loop or a change of the root interface is part of the T[k]:
some interfaces are elected already, others still have the old state.

`TreeInv` adds the network:

* `TypeInv`: the types of all tables and channels;
* `AdjInv`: a router has Neighbor objects only on the links of its interfaces;
* `Fits(n)`: the entry of n is whole, has an interface for every vif of n and the
  members that n knows, has the route of n unless the callback of a route change
  or a removal thread is still to come, and if its tree is Inactive a removal
  thread is under way;
* `Sees(n)`: the entry has the best UPSTREAM neighbor and the interest that the
  neighbors of each link state, unless one of them is being synchronized or a
  removal thread is under way; without an entry no neighbor is UPSTREAM.

The properties are about the network at rest, and none is inductive: they hold
at rest because in every state what they would miss is still due.  An Inactive entry
ignores its neighbors (check_interface_state returns at once), so `Sees` must
except it until it is removed, and `Fits` must know that the thread that
removes it exists; and that thread creates a new entry from what the neighbors say
then, so that nothing which was ignored is lost.  TLC checks `TreeInv` on the
three instances of `MCTreeNetwork`.

### What neighbors believe: `Truthful`

A router *states* on a link that it is UPSTREAM, with its RPC, when its NonRoot
interface there is in an Active tree (`Stated`); a view `Agrees` with that when
the two are equal or neither is UPSTREAM.  A call is `Faithful` when everybody
who agreed with what the router stated before, and hears the messages that the
call sends, agrees with what it states afterwards.  One lemma for every method
says that it is faithful, through all the loops over interfaces and all
orders in which a change of the RPC, of the root interface and of the tree state
announce and withdraw each other.  Then

* `Truthful`: of two neighbors neither of which is Down to the other, what one
  would store of the other after everything in flight agrees with what the other
  states now.

`Truthful` rests on `TreeInv`, as a removal thread may only delete entries
that state nothing (`Alike`).  That is not so when the tree has become Active
again before the thread runs: the neighbors are not told (section 6), and
`ViewsAreTrue` fails in `tree_revival` as `NoOrphanTree` does.  `NoRevival`
excludes just these steps, and the three theorems have it as their hypothesis.

At rest, views are statements.  By `TreeInv` an entry remembers the best
UPSTREAM neighbor and every interface has the result of its election.  So a router
that forwards to a link beats all other candidates of the link, which makes
it unique (`OneRouterForwards`), and of the candidates of a link, which are finitely
many, the best one wins and knows of the member (`MembersStayServed`).

The proof showed that an earlier form of `OneForwarder` said too much: two
routers with Unsure trees, whose routes to the source both lead to a
link without UPSTREAM router, may both be ready to forward to a third link (TLC
confirmed it).  Neither is sent any data, so the property speaks of forwarders
with Active trees.

### Membership: `MembershipInv`

The types include the states that the present protocol has (`Groups`).
`TreesFollowGroup` is inductive with them and `NotifyingIsTrue`: while the
notification of trees goes on it tells what the group knows, whatever the other
steps do in between.

### The lock: `LockInv`

Five parts: the types;
`CountsAreTrue`, the counters are the numbers of threads at the stages between
counting in and counting out; `EntryHeld` and `ReadTryHeld`, which stages hold
`A_LockReadEntry`, `A_LockReadTry` and the locks of the counters; and
`ResourceHeld`, `A_Resource` is held while somebody is inside, and a writer is
inside alone.  The last one alone is not inductive: that the reader who leaves
last may release the resource depends on the counts, and that the first reader
finds it free on who holds `A_LockReadTry`.  The theorems hold for any finite set
of threads.

### Assumptions

`Routers` are naturals (addresses are compared), the fragmentation is positive,
`MAX_SEQUENCE_NUMBER > 2`, bounds are naturals and the threshold is positive.  In `Membership`
routers are positive naturals and finitely many (their sets are counted), the
intervals positive with `LastMemberQueryInterval <= QueryResponseInterval <
QueryInterval`, as the values 1, 10 and 125 of `igmp_globals.py` and
`mld_globals.py` are.  Of the trees,
routers are finitely many, routers and links are positive naturals (0 is none),
and a router has a sequence of links, its vifs in their order; the routes of a router are any
set in which a directly connected source is reached by one of the source's links,
or by no interface of the protocol (`TopologyAssumption`, `RoutesAssumption`).
TLC evaluates the assumptions in every run.

### Only model-checked

Of `TreeNetwork`, `InterestIsTrue`, `InterestedAreServed` and `NoOrphanTree`.  All
three hold on the instances of their passing runs and are false of the code in general.
`InterestIsTrue` fails when the route moves to an interface that still holds its
forwarding (`tree_interest`), so a theorem would need the hypothesis that it never does,
and for interest what `Truthful` is for UPSTREAM: who is told changes with
the best UPSTREAM neighbor, so it also concerns messages that were never sent because
nobody was there to hear them.  `InterestedAreServed` rests on it.  `NoOrphanTree` is
false (`tree_revival`) unless trees are not revived, and then argues about
routers that are UPSTREAM of each other in a circle, along which the RPC must fall.
`LockOrder`.  `MembersAreKept`,
which counts packets and time across a whole query interval.  All liveness
properties and `ENABLED`, which the proof system does not handle.  The violations
of section 6 are counterexamples that TLC finds.

## 5. Plan

Done: the modules and runs above; the theorems about the neighbors, reliable
transmission, the trees, membership and the kernel's lock.  To come:

1. Theorems for `InterestIsTrue` and, from it and `OneRouterForwards`, for
   `InterestedAreServed`, under the hypothesis that no route moves to an interface
   that holds its forwarding; `NoOrphanTree` under `NoRevival`, for which the RPCs
   along a chain of UPSTREAM neighbors have to be followed.
2. The locks of `tree_if_root_originator.py` and of the forwarding timer, whose
   callbacks run without the kernel's lock.

## 6. Findings

`Neighbor.sync_timeout` (Neighbor.py:313) is not serialized with the handlers.
When a Sync arrives between its reads, it sends a slice under the `sync_sn` of
the next one (run `mixed_slices`), although "If Synchronization does not make
progress, retransmit previous Sync message" (hpim_globals.py:41).  If that
packet overtakes the right one, the neighbor ends Synced without a tree of the
snapshot; `SyncedHasSnapshot` fails in `NeighborSyncRace` too.

A removal thread does not ask whether the tree is still Inactive
(Kernel.py:513, run `tree_revival`).  When the source of an originator has
expired and the route moves to another interface in its subnet before the
thread runs, `network_update` makes the tree Active and announces
IamUpstream; then the thread deletes it silently, and the neighbor keeps the tree
until something else happens to it.  Removing an interface can have the same
effect.  `README.md` of the repository names a test of "the avoidance of trees
being maintained indefinitely in the presence of loops" (README.md:298).

A router can leave its AssertWinner with an old interest (run
`tree_interest`).  When the route moves to an interface that lost its election a
moment ago and still forwards (`AL_HOLD_FORWARDING_STATE_TIME`, 2 s),
`network_update` deletes that interface and its timer (KernelEntry.py:380) but does
not evaluate the interest.  The new root interface sends NoInterest, since
nothing forwards at that moment, while `_was_in_tree` is still True.  In the same
call the tree becomes Active, another interface wins its election and
forwards, and `evaluate_in_tree_change` (KernelEntry.py:429-432) finds no change: the
router, which "is responsible for notifying its neighbors about its state"
(HPIMStateMachines.pdf, 12), never sends Interest.  The members behind it are not
served unless somebody else on the upstream link is interested: when the host on
link 3 of this run's topology leaves as well (`Events` with "member", `MaxEvents` 2),
`InterestedAreServed` fails too.  The attempt to prove `InterestIsTrue` led to this run.

Locks are taken in opposite orders (run `lock_order`).  The shortest circle: a
first report holds `GroupState.lock` and `multicast_interface_state_lock` and
wants a tree's `CHANGE_STATE_LOCK` (tree_interface.py:208) to "Notify all tree
entries" (igmp/GroupState.py:174), while a change of the unicast routing table
holds the tree's lock and wants `multicast_interface_state_lock`.  Other circles:
a first report with a tree interface on which IGMP is enabled
(`check_membership_state` takes `_igmp_lock` first); the retransmission timer,
which holds a buffer's lock and on a neighbor failure wants the kernel's and
the tree's, with anything that sends while it holds these.

Further observations:

* `check_neighbor_failures` (ReliableMsgTransmission.py:242) compares with `>`, so
  that one more Ack must be missed than `ACK_FAILURE_THRESHOLD`, the "Number of
  ACKs that must be missed" (hpim_globals.py:35).
* A router that ceases to be Querier during a check of a group drops the
  retransmitted group query, so one lost query can cost the members the group;
  and a NonQuerier that checks depends on each report, since the Querier asks no
  more once it has heard one.  `Tolerated` in `MembersAreKept` says so.
* A timer's callback that already waits for `GroupState.lock` takes back a report
  that was handled just before (GroupState.py:121).  A report can be that late
  only after another packet was lost, so `Tolerated` counts this case too.
* The v1 timer that expires while the router is NonQuerier does nothing
  (nonquerier/MembersPresent.py:20).
* `RouterState.remove` does not cancel its two timers.
* A recheck can register a tree with a group a second time; its deletion removes
  one registration.

## 7. Not modelled

Callbacks of Neighbor timers that outlive the object or interface they belong
to; restarts within the same second as the previous start, which
`int(time.time())` does not tell apart; the metrics of trees in
`NeighborSync` (they are in `TreeNetwork`); preemption inside the callbacks of
the source and forwarding timers, which take no kernel lock; the moment between `cancel` of
a forwarding timer and the end of its thread, during which `is_alive` still
holds; the initial flood of
data before the tree has formed (`KernelEntryInterface.py`); `Kernel6` and
`InterfaceHPIM6`, which repeat their IPv4 counterparts; `RWLockRead` and
`RWLockFair`, which nothing uses, and the time-outs of `acquire`, which nobody
passes; packet encodings, sockets, security keys, netlink parsing, the command
line, the daemon, the configuration and the logs.
