------------------------- MODULE TransmissionProofs -------------------------
(***************************************************************************)
(* Proofs about ReliableTransmission, for any number of routers and trees, *)
(* any threshold and any bounds.                                           *)
(*                                                                         *)
(* A step of this module changes the Neighbor objects as one of the steps  *)
(* of NeighborSync does, or forgets or renumbers some of what they hold of *)
(* sequenced messages: the invariants proved there carry over.  What is    *)
(* new is that no outstanding message is ahead of its sender, nor of an    *)
(* earlier BootTime: a wrap and a restart clear the buffers.               *)
(*                                                                         *)
(* The second part is about the numbers that an object holds of the other  *)
(* router's messages and about the Acks it sends.  The third is about      *)
(* delivery: what a router no longer waits for, its neighbor has been      *)
(* passed; a CheckpointSN covers no message that is still news; and who    *)
(* has been passed the last word about a tree knows what is true of it.    *)
(***************************************************************************)
EXTENDS ReliableTransmission, NeighborSyncProofs,
        NaturalsInduction, WellFoundedInduction

-----------------------------------------------------------------------------
(* The buffers *)

\* The messages of buffer b that are outstanding.
Pending(b) == ({b.multicast} \cup {b.unicast[m] : m \in Routers}) \ {Nothing}

\* x was numbered under BootTime bt, when the counter was not beyond sn.
Numbered(x, bt, sn) == x.boot = bt /\ 0 < x.sn /\ x.sn <= sn

OutstandingIsPast ==
  \A n \in Routers, t \in Trees :
    \A x \in Pending(buffer[n][t]) : Numbered(x, boot[n], sequencer[n])

TransmissionTypeInv ==
  /\ TransmissionTypeOK
  /\ MasterHasAnswered
  /\ OutstandingIsPast

TransmissionPairInv == TransmissionTypeInv /\ Agreement

\* b2 is b after some messages are acknowledged or canceled.
Shrinks(b2, b) == b2 \in Buffer /\ Pending(b2) \subseteq Pending(b)

LEMMA NothingPends ==
  NoMessages \in Buffer /\ Pending(NoMessages) = {}
BY DEF NoMessages, Buffer, Outstanding, Nothing, Pending

LEMMA CancelMulticastShrinks ==
  ASSUME NEW b \in Buffer
  PROVE  Shrinks(CancelMulticast(b), b)
BY DEF CancelMulticast, Shrinks, Buffer, Outstanding, Nothing, Pending

LEMMA CancelUnicastShrinks ==
  ASSUME NEW b \in Buffer, NEW m \in Routers
  PROVE  Shrinks(CancelUnicast(b, m), b)
BY DEF CancelUnicast, Shrinks, Buffer, Outstanding, Nothing, Pending

LEMMA NotingShrinks ==
  ASSUME NEW b \in Buffer, NEW m \in Routers
  PROVE  Shrinks([b EXCEPT !.neighbors_that_acked = @ \cup {m}], b)
BY DEF Shrinks, Buffer, Pending

LEMMA AckedByShrinks ==
  ASSUME NEW b \in Buffer, NEW m \in Routers, NEW bt, NEW sn, NEW neighbors
  PROVE  Shrinks(AckedBy(b, m, bt, sn, neighbors), b)
<1> DEFINE noted == [b EXCEPT !.neighbors_that_acked = @ \cup {m}]
<1>1. PICK b1 \in {b, noted, CancelMulticast(noted)} :
        AckedBy(b, m, bt, sn, neighbors) \in {b1, CancelUnicast(b1, m)}
  BY DEF AckedBy
<1>2. Shrinks(noted, b)
  BY NotingShrinks
<1> HIDE DEF noted
<1>3. Shrinks(b1, b)
  <2>1. Shrinks(b, b)
    BY DEF Shrinks
  <2>2. Shrinks(CancelMulticast(noted), noted)
    BY <1>2, CancelMulticastShrinks DEF Shrinks
  <2> QED
    BY <1>1, <1>2, <2>1, <2>2 DEF Shrinks
<1>4. Shrinks(CancelUnicast(b1, m), b1)
  BY <1>3, CancelUnicastShrinks DEF Shrinks
<1> QED
  BY <1>1, <1>3, <1>4 DEF Shrinks

LEMMA RecheckedShrinks ==
  ASSUME NEW n \in Routers, NEW b \in Buffer
  PROVE  Shrinks(Rechecked(n, b), b)
<1>1. Shrinks(RecheckedMulticast(n, b), b)
  <2>1. Shrinks(b, b)
    BY DEF Shrinks
  <2> QED
    BY <2>1, CancelMulticastShrinks DEF RecheckedMulticast
<1> DEFINE b1 == RecheckedMulticast(n, b)
           gone == {m \in Routers \ Neighbors(n) : b.unicast[m] # Nothing}
           b2 == [b1 EXCEPT
                    !.unicast = [m \in Routers |-> IF m \in gone THEN Nothing ELSE @[m]],
                    !.failed_acks = [m \in Routers |-> IF m \in gone THEN 0 ELSE @[m]]]
<1>2. Rechecked(n, b) = b2
  BY DEF Rechecked
<1>3. b1 \in Buffer
  BY <1>1 DEF Shrinks
<1> HIDE DEF b1, gone
<1>4. Shrinks(b2, b1)
  <2>1. b2 \in Buffer
    BY <1>3 DEF Buffer, Outstanding, Nothing
  <2>2. b2.multicast = b1.multicast /\ \A m \in Routers : b2.unicast[m] \in {Nothing, b1.unicast[m]}
    BY <1>3 DEF Buffer
  <2> HIDE DEF b2
  <2>3. Pending(b2) \subseteq Pending(b1)
    BY <2>2 DEF Pending
  <2> QED
    BY <2>1, <2>3 DEF Shrinks
<1> QED
  BY <1>1, <1>2, <1>4 DEF Shrinks, b1

-----------------------------------------------------------------------------
(* Sequence numbers and buffers *)

\* A new number is noticed: the counter never wraps to where it stood.
LEMMA TickIsSeen ==
  ASSUME TypeOK, NEW n \in Routers, GetSequenceNumber(n)
  PROVE  /\ sequencer'[n] # sequencer[n] /\ sequencer'[n] > 0
         /\ sequencer'[n] = NextSequenceNumber(n) /\ boot'[n] = NextBootTime(n)
         /\ \A o \in Routers : o # n => boot'[o] = boot[o] /\ sequencer'[o] = sequencer[o]
         /\ NewMessage(n) \in Outstanding
         /\ Numbered(NewMessage(n), boot'[n], sequencer'[n])
<1>1. /\ boot \in [Routers -> Nat] /\ sequencer \in [Routers -> Nat]
      /\ NextSequenceNumber(n) \in Nat /\ NextBootTime(n) \in Nat
  BY SequenceTypes DEF TypeOK
<1>2. /\ sequencer' = [sequencer EXCEPT ![n] = NextSequenceNumber(n)]
      /\ boot' = [boot EXCEPT ![n] = NextBootTime(n)]
  BY DEF GetSequenceNumber
<1>3. NextSequenceNumber(n) # sequencer[n] /\ NextSequenceNumber(n) > 0
  BY <1>1, SequenceAssumption DEF NextSequenceNumber, Wraps
<1>4. sequencer'[n] = NextSequenceNumber(n) /\ boot'[n] = NextBootTime(n)
  BY <1>1, <1>2
<1>5. NewMessage(n) \in Outstanding
  BY <1>1 DEF NewMessage, Outstanding
<1>6. Numbered(NewMessage(n), boot'[n], sequencer'[n])
  BY <1>1, <1>3, <1>4 DEF NewMessage, Numbered
<1> QED
  BY <1>1, <1>2, <1>3, <1>4, <1>5, <1>6

\* A wrap of the counter clears the buffers, otherwise nothing in them is newer.
LEMMA RenumberedTypes ==
  ASSUME TransmissionTypeInv, NEW n \in Routers, GetSequenceNumber(n), NEW t \in Trees
  PROVE  /\ Renumbered(n) \in [Trees -> Buffer]
         /\ \A x \in Pending(Renumbered(n)[t]) :
              Numbered(x, boot'[n], sequencer'[n]) /\ x \in Outstanding
<1>1. /\ TypeOK /\ boot \in [Routers -> Nat] /\ sequencer \in [Routers -> Nat]
      /\ buffer[n] \in [Trees -> Buffer]
  BY DEF TransmissionTypeInv, TransmissionTypeOK, TypeOK
<1>2. sequencer'[n] = NextSequenceNumber(n) /\ boot'[n] = NextBootTime(n)
  BY <1>1, TickIsSeen
<1>3. CASE Wraps(n)
  BY <1>3, NothingPends DEF Renumbered
<1>4. CASE ~Wraps(n)
  <2>1. Renumbered(n) = buffer[n] /\ boot'[n] = boot[n] /\ sequencer'[n] = sequencer[n] + 1
    BY <1>2, <1>4 DEF Renumbered, NextSequenceNumber, NextBootTime
  <2>2. ASSUME NEW x \in Pending(buffer[n][t])
        PROVE  Numbered(x, boot'[n], sequencer'[n]) /\ x \in Outstanding
    <3>1. buffer[n][t] \in Buffer
      BY <1>1
    <3>2. x \in Outstanding
      BY <3>1 DEF Pending, Buffer
    <3>3. Numbered(x, boot[n], sequencer[n])
      BY DEF TransmissionTypeInv, OutstandingIsPast
    <3> QED
      BY <1>1, <2>1, <3>2, <3>3 DEF Numbered, Outstanding
  <2> QED
    BY <1>1, <2>1, <2>2
<1> QED
  BY <1>3, <1>4

\* n's buffers are replaced by f, the others stay.
LEMMA BuffersStay ==
  ASSUME TransmissionTypeInv, NEW n \in Routers, NEW f \in [Trees -> Buffer],
         buffer' = [buffer EXCEPT ![n] = f],
         \A t \in Trees : \A x \in Pending(f[t]) : Numbered(x, boot'[n], sequencer'[n]),
         \A o \in Routers : o # n => boot'[o] = boot[o] /\ sequencer'[o] = sequencer[o]
  PROVE  buffer' \in [Routers -> [Trees -> Buffer]] /\ OutstandingIsPast'
<1>1. buffer \in [Routers -> [Trees -> Buffer]]
  BY DEF TransmissionTypeInv, TransmissionTypeOK
<1>2. buffer' \in [Routers -> [Trees -> Buffer]]
  BY <1>1
<1>3. ASSUME NEW o \in Routers, NEW t \in Trees, NEW x \in Pending(buffer'[o][t])
      PROVE  Numbered(x, boot'[o], sequencer'[o])
  <2>1. CASE o = n
    <3>1. buffer'[o][t] = f[t]
      BY <1>1, <2>1
    <3> QED
      BY <1>3, <2>1, <3>1
  <2>2. CASE o # n
    <3>1. buffer'[o][t] = buffer[o][t] /\ boot'[o] = boot[o] /\ sequencer'[o] = sequencer[o]
      BY <1>1, <2>2
    <3> QED
      BY <1>3, <3>1 DEF TransmissionTypeInv, OutstandingIsPast
  <2> QED
    BY <2>1, <2>2
<1>4. \A o \in Routers, t \in Trees : \A x \in Pending(buffer'[o][t]) :
        Numbered(x, boot'[o], sequencer'[o])
  BY <1>3
<1>5. \A o \in Routers, t \in Trees : Pending(buffer[o][t])' = Pending(buffer'[o][t])
  BY DEF Pending
<1> QED
  BY <1>2, <1>4, <1>5 DEF OutstandingIsPast, Numbered

\* The same when no number was taken.
LEMMA BuffersShrink ==
  ASSUME TransmissionTypeInv, NEW n \in Routers, NEW f \in [Trees -> Buffer],
         buffer' = [buffer EXCEPT ![n] = f], UNCHANGED <<boot, sequencer>>,
         \A t \in Trees : Pending(f[t]) \subseteq Pending(buffer[n][t])
  PROVE  buffer' \in [Routers -> [Trees -> Buffer]] /\ OutstandingIsPast'
<1>1. \A t \in Trees : \A x \in Pending(f[t]) : Numbered(x, boot'[n], sequencer'[n])
  BY DEF TransmissionTypeInv, OutstandingIsPast
<1> QED
  BY <1>1, BuffersStay

LEMMA BuffersRest ==
  ASSUME TransmissionTypeInv, UNCHANGED <<boot, sequencer, buffer>>
  PROVE  buffer' \in [Routers -> [Trees -> Buffer]] /\ OutstandingIsPast'
BY DEF TransmissionTypeInv, TransmissionTypeOK, OutstandingIsPast, Numbered, Pending

\* The snapshot that n takes for m, with all that it acknowledges.
LEMMA SnapshotAcksBuffers ==
  ASSUME TransmissionTypeInv, NEW n \in Routers, NEW m \in Routers,
         GetSequenceNumber(n), SnapshotAcks(n, m)
  PROVE  buffer' \in [Routers -> [Trees -> Buffer]] /\ OutstandingIsPast'
<1> DEFINE Acked(t) == AckedBy(Renumbered(n)[t], m, NextBootTime(n),
                               NextSequenceNumber(n), Neighbors(n) \cup {m})
           f == [t \in Trees |-> Acked(t)]
<1>1. ASSUME NEW t \in Trees
      PROVE  /\ Acked(t) \in Buffer
             /\ \A x \in Pending(Acked(t)) : Numbered(x, boot'[n], sequencer'[n])
  <2>1. /\ Renumbered(n)[t] \in Buffer
        /\ \A x \in Pending(Renumbered(n)[t]) : Numbered(x, boot'[n], sequencer'[n])
    BY RenumberedTypes
  <2>2. Shrinks(Acked(t), Renumbered(n)[t])
    BY <2>1, AckedByShrinks
  <2> HIDE DEF Acked
  <2> QED
    BY <2>1, <2>2 DEF Shrinks
<1> HIDE DEF Acked
<1>2. /\ f \in [Trees -> Buffer]
      /\ \A t \in Trees : \A x \in Pending(f[t]) : Numbered(x, boot'[n], sequencer'[n])
  BY <1>1
<1>3. buffer' = [buffer EXCEPT ![n] = f]
  BY DEF SnapshotAcks, Acked
<1>4. \A o \in Routers : o # n => boot'[o] = boot[o] /\ sequencer'[o] = sequencer[o]
  BY TickIsSeen DEF TransmissionTypeInv, TransmissionTypeOK
<1> QED
  BY <1>2, <1>3, <1>4, BuffersStay

-----------------------------------------------------------------------------
(* CheckpointSN *)

LEMMA LeastNumber ==
  ASSUME NEW S \in SUBSET Nat, S # {}
  PROVE  Min(S) \in S /\ \A x \in S : Min(S) <= x
<1> DEFINE R == OpToRel(<, Nat)
<1>1. IsWellFoundedOn(R, Nat)
  BY NatLessThanWellFounded
<1>2. \A x, y \in Nat : <<x, y>> \in R <=> x < y
  BY DEF OpToRel
<1> HIDE DEF R
<1>3. PICK x \in S : \A y \in S : ~ (<<y, x>> \in R)
  BY <1>1, WFMin
<1>4. ASSUME NEW y \in S PROVE x <= y
  <2>1. x \in Nat /\ y \in Nat
    OBVIOUS
  <2>2. ~(y < x)
    BY <1>2, <1>3, <2>1
  <2> QED
    BY <2>1, <2>2
<1> QED
  BY <1>4 DEF Min

\* No outstanding message has number 0, so that there is one before it.
CheckpointHypothesis ==
  /\ boot \in [Routers -> Nat] /\ sequencer \in [Routers -> Nat]
  /\ buffer \in [Routers -> [Trees -> Buffer]]
  /\ OutstandingIsPast

\* The numbers up to a checkpoint are those of no outstanding message.
CheckpointIsBehind ==
  \A n \in Routers :
    /\ CheckpointSN(n) \in Nat
    /\ CheckpointSN(n) <= sequencer[n]
    /\ \A t \in Trees : \A x \in Pending(buffer[n][t]) : CheckpointSN(n) < x.sn

LEMMA CheckpointBounds == CheckpointHypothesis => CheckpointIsBehind
<1> SUFFICES ASSUME CheckpointHypothesis, NEW n \in Routers
             PROVE  /\ CheckpointSN(n) \in Nat
                    /\ CheckpointSN(n) <= sequencer[n]
                    /\ \A t \in Trees : \A x \in Pending(buffer[n][t]) :
                         CheckpointSN(n) < x.sn
  BY DEF CheckpointIsBehind
<1> DEFINE S == {sequencer[n]} \cup UNION {CheckpointsOf(n, buffer[n][t]) : t \in Trees}
<1>1. ASSUME NEW t \in Trees, NEW x \in Pending(buffer[n][t])
      PROVE  x.sn \in Nat /\ x.sn - 1 \in S
  <2>1. buffer[n][t] \in Buffer /\ Numbered(x, boot[n], sequencer[n])
    BY DEF CheckpointHypothesis, OutstandingIsPast
  <2>2. x \in Outstanding
    BY <2>1 DEF Pending, Buffer
  <2>3. x.sn - 1 \in CheckpointsOf(n, buffer[n][t])
    BY <2>1 DEF CheckpointsOf, Pending, Numbered
  <2> QED
    BY <2>2, <2>3 DEF Outstanding
<1>2. S \in SUBSET Nat
  <2>1. ASSUME NEW t \in Trees, NEW k \in CheckpointsOf(n, buffer[n][t])
        PROVE  k \in Nat
    <3>1. PICK x \in Pending(buffer[n][t]) : k = x.sn - 1
      BY DEF CheckpointsOf, Pending
    <3>2. x.sn \in Nat /\ Numbered(x, boot[n], sequencer[n])
      BY <1>1 DEF CheckpointHypothesis, OutstandingIsPast
    <3> QED
      BY <3>1, <3>2 DEF Numbered
  <2> QED
    BY <2>1 DEF CheckpointHypothesis
<1>3. sequencer[n] \in S /\ CheckpointSN(n) = Min(S)
  BY DEF CheckpointSN
<1> HIDE DEF S
<1>4. CheckpointSN(n) \in Nat /\ \A k \in S : CheckpointSN(n) <= k
  <2>1. S # {}
    BY <1>3
  <2>2. Min(S) \in S /\ \A k \in S : Min(S) <= k
    BY ONLY <1>2, <2>1, LeastNumber
  <2> QED
    BY <1>2, <1>3, <2>2
<1>5. ASSUME NEW t \in Trees, NEW x \in Pending(buffer[n][t])
      PROVE  CheckpointSN(n) < x.sn
  BY <1>1, <1>4
<1> QED
  BY <1>3, <1>4, <1>5

LEMMA CheckpointBoundsNext == CheckpointHypothesis' => CheckpointIsBehind'
BY CheckpointBounds, PTL

LEMMA HellosType ==
  ASSUME hellos \subseteq CheckpointMsgs, CheckpointHypothesis', SendHellos
  PROVE  (hellos \subseteq CheckpointMsgs)'
<1>1. ASSUME NEW n \in Routers
      PROVE  CheckpointHello(n)' \in CheckpointMsgs
  <2>1. boot'[n] \in Nat
    BY DEF CheckpointHypothesis
  <2>2. CheckpointSN(n)' \in Nat
    BY CheckpointBoundsNext DEF CheckpointIsBehind
  <2>3. CheckpointHello(n)' = [type |-> "Hello", src |-> n, boot |-> boot'[n],
                               checkpoint_sn |-> CheckpointSN(n)']
    BY DEF CheckpointHello
  <2> QED
    BY <2>1, <2>2, <2>3 DEF CheckpointMsgs
<1> QED
  BY <1>1 DEF SendHellos

-----------------------------------------------------------------------------
(* The actions keep the types, and the pairs that agree *)

\* What concerns the variables of this module, but for the Hellos.
TransmissionPart ==
  /\ buffer \in [Routers -> [Trees -> Buffer]]
  /\ OutstandingIsPast
  /\ interests \subseteq InterestMsgs
  /\ acks \subseteq AckMsgs
  /\ checkpoint_sn \in [Routers -> [Routers -> Nat]]
  /\ delivered \in [Routers -> [Routers -> [Trees -> Nat]]]

LEMMA WholeInv ==
  ASSUME hellos \subseteq CheckpointMsgs, PairInv', TransmissionPart', SendHellos
  PROVE  TransmissionPairInv'
<1>1. TypeOK' /\ MasterHasAnswered' /\ Agreement'
  BY DEF PairInv, TypeInv
<1>2. CheckpointHypothesis'
  BY <1>1 DEF TypeOK, TransmissionPart, CheckpointHypothesis
<1>3. (hellos \subseteq CheckpointMsgs)'
  BY <1>2, HellosType
<1> QED
  BY <1>1, <1>3 DEF TransmissionPart, TransmissionPairInv, TransmissionTypeInv,
                    TransmissionTypeOK

LEMMA InvParts ==
  ASSUME TransmissionPairInv
  PROVE  /\ TransmissionTypeInv /\ PairInv /\ TypeInv /\ TypeOK /\ Agreement
         /\ TransmissionPart /\ CheckpointHypothesis /\ hellos \subseteq CheckpointMsgs
BY DEF TransmissionPairInv, TransmissionTypeInv, TransmissionTypeOK, PairInv, TypeInv,
       TransmissionPart, CheckpointHypothesis, TypeOK

LEMMA ForgetNumbersTypes ==
  ASSUME TransmissionPart, NEW n \in Routers, NEW m \in Routers, ForgetNumbers(n, m)
  PROVE  /\ checkpoint_sn' \in [Routers -> [Routers -> Nat]]
         /\ delivered' \in [Routers -> [Routers -> [Trees -> Nat]]]
BY DEF TransmissionPart, ForgetNumbers

LEMMA AdjacencyStepTypes ==
  ASSUME TransmissionPairInv, NEW n \in Routers, NEW m \in Routers,
         AdjacencyStep(n, m), GetSequenceNumber(n) \/ UNCHANGED <<boot, sequencer>>
  PROVE  TransmissionPart'
<1>1. TransmissionTypeInv /\ TypeOK /\ TransmissionPart
  BY InvParts
<1>2. buffer' \in [Routers -> [Trees -> Buffer]] /\ OutstandingIsPast'
  <2>1. CASE GetSequenceNumber(n)
    BY <1>1, <2>1, TickIsSeen, SnapshotAcksBuffers DEF AdjacencyStep
  <2>2. CASE UNCHANGED <<boot, sequencer>>
    BY <1>1, <2>2, BuffersRest DEF AdjacencyStep
  <2> QED
    BY <2>1, <2>2
<1>3. /\ checkpoint_sn' \in [Routers -> [Routers -> Nat]]
      /\ delivered' \in [Routers -> [Routers -> [Trees -> Nat]]]
  <2>1. ForgetNumbers(n, m) \/ UNCHANGED <<checkpoint_sn, delivered>>
    BY DEF AdjacencyStep
  <2> QED
    BY <1>1, <2>1, ForgetNumbersTypes DEF TransmissionPart
<1>4. UNCHANGED <<interests, acks>>
  BY DEF AdjacencyStep
<1> QED
  BY <1>1, <1>2, <1>3, <1>4 DEF TransmissionPart

\* What Synchronize does to the objects is a step of NeighborSync.
LEMMA SynchronizeIsNext ==
  ASSUME NEW n \in Routers, NEW m \in Routers, Synchronize(n, m)
  PROVE  /\ [Next]_vars
         /\ GetSequenceNumber(n) \/ UNCHANGED <<boot, sequencer>>
<1>1. Receive(n, m) \/ SyncTimeout(n, m) \/ RemoveNeighbor(n, m)
  BY DEF Synchronize, Receive
<1>2. Silent \/ Counts(n)
  BY <1>1, ReceiveKinds
<1> QED
  BY <1>1, <1>2 DEF Next, Silent, Counts

LEMMA SynchronizeKeepsInv ==
  ASSUME TransmissionPairInv, NEW n \in Routers, NEW m \in Routers, Synchronize(n, m)
  PROVE  PairInv' /\ TransmissionPart'
<1>1. PairInv'
  BY InvParts, SynchronizeIsNext, PairInvNext
<1>2. AdjacencyStep(n, m)
  BY DEF Synchronize
<1> QED
  BY <1>1, <1>2, SynchronizeIsNext, AdjacencyStepTypes

LEMMA RestartKeepsInv ==
  ASSUME TransmissionPairInv, NEW n \in Routers, NEW farewell \in BOOLEAN,
         RestartInterface(n, farewell)
  PROVE  PairInv' /\ TransmissionPart'
<1>1. Restart(n, farewell) /\ [Next]_vars
  BY DEF RestartInterface, Next
<1>2. PairInv'
  BY <1>1, InvParts, PairInvNext
<1>3. /\ TransmissionTypeInv /\ TransmissionPart
      /\ boot \in [Routers -> Nat] /\ sequencer \in [Routers -> Nat]
  BY InvParts DEF TypeOK
<1>4. buffer' \in [Routers -> [Trees -> Buffer]] /\ OutstandingIsPast'
  <2> DEFINE f == [t \in Trees |-> NoMessages]
  <2>1. f \in [Trees -> Buffer] /\ \A t \in Trees : Pending(f[t]) = {}
    BY NothingPends
  <2>2. \A o \in Routers : o # n => boot'[o] = boot[o] /\ sequencer'[o] = sequencer[o]
    BY <1>1, <1>3 DEF Restart
  <2>3. buffer' = [buffer EXCEPT ![n] = f]
    BY DEF RestartInterface
  <2> HIDE DEF f
  <2> QED
    BY <1>3, <2>1, <2>2, <2>3, BuffersStay
<1> QED
  BY <1>2, <1>3, <1>4 DEF RestartInterface, TransmissionPart

LEMMA AnnounceKeepsInv ==
  ASSUME TransmissionPairInv, NEW n \in Routers, NEW t \in Trees, Announce(n, t)
  PROVE  PairInv' /\ TransmissionPart'
<1>1. /\ BecomeUpstream(n, t) \/ StopUpstream(n, t)
      /\ GetSequenceNumber(n) /\ [Next]_vars
  BY DEF Announce, BecomeUpstream, StopUpstream, SendUpstream, Next
<1>2. PairInv'
  BY <1>1, InvParts, PairInvNext
<1>3. TransmissionTypeInv /\ TransmissionPart /\ TypeOK
  BY InvParts
<1>4. buffer' \in [Routers -> [Trees -> Buffer]] /\ OutstandingIsPast'
  <2> DEFINE b == [NoMessages EXCEPT !.multicast = NewMessage(n)]
             f == [Renumbered(n) EXCEPT ![t] = b]
  <2>1. /\ NewMessage(n) \in Outstanding
        /\ Numbered(NewMessage(n), boot'[n], sequencer'[n])
        /\ \A o \in Routers : o # n => boot'[o] = boot[o] /\ sequencer'[o] = sequencer[o]
    BY <1>1, <1>3, TickIsSeen
  <2>2. b \in Buffer /\ Pending(b) \subseteq {NewMessage(n)}
    BY <2>1 DEF NoMessages, Buffer, Outstanding, Nothing, Pending
  <2>3. /\ Renumbered(n) \in [Trees -> Buffer]
        /\ \A u \in Trees : \A x \in Pending(Renumbered(n)[u]) :
             Numbered(x, boot'[n], sequencer'[n])
    BY <1>1, <1>3, RenumberedTypes
  <2> HIDE DEF b
  <2>4. f \in [Trees -> Buffer]
    BY <2>2, <2>3
  <2>5. ASSUME NEW u \in Trees, NEW x \in Pending(f[u])
        PROVE  Numbered(x, boot'[n], sequencer'[n])
    <3>1. f[u] = IF u = t THEN b ELSE Renumbered(n)[u]
      BY <2>3
    <3> QED
      BY <2>1, <2>2, <2>3, <2>5, <3>1
  <2>6. buffer' = [buffer EXCEPT ![n] = f]
    BY DEF Announce, b
  <2> HIDE DEF f
  <2> QED
    BY <1>3, <2>1, <2>4, <2>5, <2>6, BuffersStay
<1> QED
  BY <1>2, <1>3, <1>4 DEF Announce, TransmissionPart

LEMMA SendInterestKeepsInv ==
  ASSUME TransmissionPairInv, NEW n \in Routers, NEW m \in Routers, NEW t \in Trees,
         SendInterest(n, m, t)
  PROVE  PairInv' /\ TransmissionPart'
<1> DEFINE c == CancelUnicast(Renumbered(n)[t], m)
           b == [c EXCEPT !.unicast[m] = NewMessage(n),
                          !.neighbors_that_acked =
                             IF c.multicast # Nothing THEN @ \cup {m} ELSE @]
           f == [Renumbered(n) EXCEPT ![t] = b]
           p == [type |-> "Interest", src |-> n, dst |-> m, boot |-> NextBootTime(n),
                 sn |-> NextSequenceNumber(n), tree |-> t]
<1>1. TransmissionTypeInv /\ TransmissionPart /\ TypeInv /\ TypeOK /\ Agreement
  BY InvParts
<1>2. /\ GetSequenceNumber(n) /\ interests' = interests \cup {p}
      /\ buffer' = [buffer EXCEPT ![n] = f]
      /\ UNCHANGED <<mrt, nbr, msgs, snapshots, faults, acks, checkpoint_sn, delivered>>
  BY DEF SendInterest
<1>3. PairInv'
  <2>1. /\ boot' \in [Routers -> Nat] /\ sequencer' \in [Routers -> Nat]
    BY <1>1, <1>2, SequenceTypes
  <2>2. TypeInv'
    BY <1>1, <1>2, <2>1 DEF TypeInv, TypeOK, MasterHasAnswered
  <2>3. Agreement'
    BY <1>1, <1>2, ClocksTick, ForgettingKeepsPairs
  <2> QED
    BY <2>2, <2>3 DEF PairInv
<1>4. p \in InterestMsgs
  BY <1>1, SequenceTypes DEF InterestMsgs
<1>5. /\ NewMessage(n) \in Outstanding
      /\ Numbered(NewMessage(n), boot'[n], sequencer'[n])
      /\ \A o \in Routers : o # n => boot'[o] = boot[o] /\ sequencer'[o] = sequencer[o]
  BY <1>1, <1>2, TickIsSeen
<1>6. /\ Renumbered(n) \in [Trees -> Buffer]
      /\ \A u \in Trees : \A x \in Pending(Renumbered(n)[u]) :
           Numbered(x, boot'[n], sequencer'[n])
  BY <1>1, <1>2, RenumberedTypes
<1>7. c \in Buffer /\ Pending(c) \subseteq Pending(Renumbered(n)[t])
  BY <1>6, CancelUnicastShrinks DEF Shrinks
<1> HIDE DEF c
<1>8. b \in Buffer
  BY <1>5, <1>7 DEF Buffer
<1>9. Pending(b) \subseteq Pending(c) \cup {NewMessage(n)}
  <2>1. /\ b.multicast = c.multicast
        /\ \A o \in Routers : b.unicast[o] \in {c.unicast[o], NewMessage(n)}
    BY <1>7 DEF Buffer
  <2> HIDE DEF b
  <2> QED
    BY <2>1 DEF Pending
<1> HIDE DEF b
<1>10. f \in [Trees -> Buffer]
  BY <1>6, <1>8
<1>11. ASSUME NEW u \in Trees, NEW x \in Pending(f[u])
       PROVE  Numbered(x, boot'[n], sequencer'[n])
  <2>1. f[u] = IF u = t THEN b ELSE Renumbered(n)[u]
    BY <1>6
  <2> QED
    BY <1>5, <1>6, <1>7, <1>9, <1>11, <2>1
<1> HIDE DEF f, p
<1>12. buffer' \in [Routers -> [Trees -> Buffer]] /\ OutstandingIsPast'
  BY <1>1, <1>2, <1>5, <1>10, <1>11, BuffersStay
<1> QED
  BY <1>1, <1>2, <1>3, <1>4, <1>12 DEF TransmissionPart

\* The resets of receive_sequenced packets and Acks are those of a Hello.
LEMMA ResetKeepsInv ==
  ASSUME TransmissionPairInv, NEW n \in Routers, NEW m \in Routers, NEW b \in Nat,
         AdjacencyReset(n, m, b), AdjacencyStep(n, m), UNCHANGED <<mrt, faults>>
  PROVE  PairInv' /\ TransmissionPart'
<1>1. TypeInv'
  BY InvParts, AdjacencyResetType
<1>2. Agreement'
  BY <1>1, InvParts, AdjacencyResetKeepsPairs DEF TypeInv
<1>3. GetSequenceNumber(n)
  BY DEF AdjacencyReset, StartSnapshot
<1> QED
  BY <1>1, <1>2, <1>3, AdjacencyStepTypes DEF PairInv

LEMMA SequencedTypes ==
  ASSUME TypeOK, interests \subseteq InterestMsgs, NEW n \in Routers, NEW m \in Routers,
         NEW p \in SequencedFrom(n, m)
  PROVE  /\ p.boot \in Nat /\ p.sn \in Nat /\ p.tree \in Trees
         /\ p.type = "Upstream" => p \in msgs /\ p \in UpstreamMsgs
         /\ p.type # "Upstream" => p \in interests
<1>1. CASE p \in msgs /\ p.type = "Upstream"
  BY <1>1, PacketTypes DEF UpstreamMsgs
<1>2. CASE p \in interests
  BY <1>2 DEF InterestMsgs
<1> QED
  BY <1>1, <1>2 DEF SequencedFrom

\* What Deliver and ReceiveCheckpoint store keeps the header of the object, and
\* no clock moves.
LEMMA RestoreKeepsPairs ==
  ASSUME PairInv, NEW n \in Routers, NEW m \in Routers, nbr[n][m].state # "Absent",
         NEW r2 \in Neighbor, SameHeader(r2, nbr[n][m]), r2.state = nbr[n][m].state,
         r2.current_sync_sn = nbr[n][m].current_sync_sn, SetNeighbor(n, m, r2),
         UNCHANGED <<boot, sequencer, mrt, msgs, snapshots, faults>>
  PROVE  PairInv'
<1> DEFINE r == nbr[n][m]
<1>1. TypeInv /\ TypeOK /\ Agreement
  BY DEF PairInv, TypeInv
<1>2. /\ r \in Neighbor /\ PairObject(n, m, r, msgs)
      /\ Past(boot, sequencer, n, r.my_snapshot_boot_time, r.my_snapshot_sequencer)
  BY <1>1, NeighborTypes DEF Agreement, PairObjects, ObjectsArePast
<1>3. TypeInv' /\ TypeOK'
  <2>1. r2.state = "Master" => r2.current_sync_sn > 0
    BY <1>1 DEF TypeInv, MasterHasAnswered
  <2>2. nbr' \in [Routers -> [Routers -> Neighbor]] /\ MasterHasAnswered'
    BY <1>1, <2>1, SetNeighborType
  <2> QED
    BY <1>1, <2>2 DEF TypeInv, TypeOK
<1>4. PairObject(n, m, r2, msgs)
  BY <1>2, RestoredPair
<1>5. Stores(n, m, r2)
  BY DEF Stores
<1>6. /\ ClocksGoOn
      /\ Past(boot', sequencer', n, r2.my_snapshot_boot_time, r2.my_snapshot_sequencer)
  BY <1>2, ClocksRest DEF SameHeader
<1>7. Agreement'
  BY <1>1, <1>3, <1>4, <1>5, <1>6, StoreKeepsPairs
<1> QED
  BY <1>3, <1>7 DEF PairInv

\* The object after Deliver(n, m, r, p).
Told(r, p) ==
  [r EXCEPT !.last_sequence_number[p.tree] = p.sn,
            !.tree_metric_state = IF p.type = "Upstream" /\ p.upstream
                                  THEN @ \cup {p.tree} ELSE @ \ {p.tree}]

LEMMA ToldTypes ==
  ASSUME NEW r \in Neighbor, NEW p, p.tree \in Trees, p.sn \in Nat
  PROVE  /\ Told(r, p) \in Neighbor /\ SameHeader(Told(r, p), r)
         /\ Told(r, p).state = r.state
         /\ Told(r, p).current_sync_sn = r.current_sync_sn
BY DEF Told, Neighbor, SameHeader

LEMMA ReceiveSequencedKeepsInv ==
  ASSUME TransmissionPairInv, NEW n \in Routers, NEW m \in Routers, ReceiveSequenced(n, m)
  PROVE  PairInv' /\ TransmissionPart'
<1> DEFINE r == nbr[n][m]
<1>1. /\ TransmissionTypeInv /\ TransmissionPart /\ TypeInv /\ TypeOK /\ Agreement /\ PairInv
      /\ r \in Neighbor
  BY InvParts, NeighborTypes
<1>2. PICK p \in SequencedFrom(n, m) :
        \/ AdjacencyReset(n, m, p.boot) /\ AdjacencyStep(n, m)
        \/ /\ r.state # "Absent"
           /\ acks' = acks \cup {Ack(n, m, r, p)}
           /\ Deliver(n, m, r, p) \/ UNCHANGED <<nbr, delivered>>
           /\ UNCHANGED <<boot, sequencer, msgs, snapshots, buffer, interests, checkpoint_sn>>
  BY DEF ReceiveSequenced
<1>3. p.boot \in Nat /\ p.sn \in Nat /\ p.tree \in Trees
  BY <1>1, SequencedTypes DEF TransmissionPart
<1>4. UNCHANGED <<mrt, faults>>
  BY DEF ReceiveSequenced
<1>5. CASE AdjacencyReset(n, m, p.boot) /\ AdjacencyStep(n, m)
  BY <1>3, <1>4, <1>5, ResetKeepsInv
<1>6. CASE /\ r.state # "Absent"
           /\ acks' = acks \cup {Ack(n, m, r, p)}
           /\ Deliver(n, m, r, p) \/ UNCHANGED <<nbr, delivered>>
           /\ UNCHANGED <<boot, sequencer, msgs, snapshots, buffer, interests, checkpoint_sn>>
  <2>1. Ack(n, m, r, p) \in AckMsgs
    BY <1>1, <1>3 DEF Ack, AckMsgs, Neighbor, TypeOK
  <2>2. PairInv' /\ delivered' \in [Routers -> [Routers -> [Trees -> Nat]]]
    <3>1. CASE UNCHANGED <<nbr, delivered>>
      <4>1. UNCHANGED vars
        BY <1>4, <1>6, <3>1 DEF vars
      <4> QED
        BY <1>1, <3>1, <4>1, PairInvNext DEF TransmissionPart
    <3>2. CASE Deliver(n, m, r, p)
      <4>1. /\ SetNeighbor(n, m, Told(r, p))
            /\ delivered' = [delivered EXCEPT ![n][m][p.tree] = p.sn]
        BY <3>2 DEF Deliver, Told
      <4>2. /\ Told(r, p) \in Neighbor /\ SameHeader(Told(r, p), r)
            /\ Told(r, p).state = r.state
            /\ Told(r, p).current_sync_sn = r.current_sync_sn
        BY <1>1, <1>3, ToldTypes
      <4>3. PairInv'
        BY <1>1, <1>4, <1>6, <4>1, <4>2, RestoreKeepsPairs
      <4>4. delivered' \in [Routers -> [Routers -> [Trees -> Nat]]]
        BY <1>1, <1>3, <4>1 DEF TransmissionPart
      <4> QED
        BY <4>3, <4>4
    <3> QED
      BY <1>6, <3>1, <3>2
  <2>3. buffer' \in [Routers -> [Trees -> Buffer]] /\ OutstandingIsPast'
    BY <1>1, <1>6, BuffersRest
  <2> HIDE DEF r
  <2> QED
    BY <1>1, <1>6, <2>1, <2>2, <2>3 DEF TransmissionPart
<1> QED
  BY <1>2, <1>5, <1>6

\* An acknowledged buffer of n.
LEMMA AckBuffers ==
  ASSUME TransmissionTypeInv, NEW n \in Routers, NEW t \in Trees, NEW b,
         Shrinks(b, buffer[n][t]), buffer' = [buffer EXCEPT ![n][t] = b],
         UNCHANGED <<boot, sequencer>>
  PROVE  buffer' \in [Routers -> [Trees -> Buffer]] /\ OutstandingIsPast'
<1> DEFINE f == [buffer[n] EXCEPT ![t] = b]
<1>1. buffer[n] \in [Trees -> Buffer]
  BY DEF TransmissionTypeInv, TransmissionTypeOK
<1>2. f \in [Trees -> Buffer] /\ buffer' = [buffer EXCEPT ![n] = f]
  BY <1>1 DEF Shrinks
<1>3. \A u \in Trees : Pending(f[u]) \subseteq Pending(buffer[n][u])
  <2>1. \A u \in Trees : f[u] = IF u = t THEN b ELSE buffer[n][u]
    BY <1>1
  <2> QED
    BY <2>1 DEF Shrinks
<1> HIDE DEF f
<1> QED
  BY <1>2, <1>3, BuffersShrink

LEMMA ReceiveAckKeepsInv ==
  ASSUME TransmissionPairInv, NEW n \in Routers, NEW m \in Routers, ReceiveAck(n, m)
  PROVE  PairInv' /\ TransmissionPart'
<1>1. TransmissionTypeInv /\ TransmissionPart /\ PairInv
  BY InvParts
<1>2. PICK p \in acks :
        \/ AdjacencyReset(n, m, p.boot) /\ AdjacencyStep(n, m)
        \/ /\ buffer' = [buffer EXCEPT ![n][p.tree] =
                AckedBy(@, m, p.neighbor_boot_time, p.sn, Neighbors(n))]
           /\ UNCHANGED <<boot, sequencer, nbr, msgs, snapshots,
                          interests, acks, checkpoint_sn, delivered>>
  BY DEF ReceiveAck
<1>3. p.boot \in Nat /\ p.tree \in Trees
  BY <1>1 DEF TransmissionPart, AckMsgs
<1>4. UNCHANGED <<mrt, faults>>
  BY DEF ReceiveAck
<1>5. CASE AdjacencyReset(n, m, p.boot) /\ AdjacencyStep(n, m)
  BY <1>3, <1>4, <1>5, ResetKeepsInv
<1>6. CASE /\ buffer' = [buffer EXCEPT ![n][p.tree] =
                AckedBy(@, m, p.neighbor_boot_time, p.sn, Neighbors(n))]
           /\ UNCHANGED <<boot, sequencer, nbr, msgs, snapshots,
                          interests, acks, checkpoint_sn, delivered>>
  <2> DEFINE b == AckedBy(buffer[n][p.tree], m, p.neighbor_boot_time, p.sn, Neighbors(n))
  <2>1. UNCHANGED vars
    BY <1>4, <1>6 DEF vars
  <2>2. PairInv'
    BY <1>1, <2>1, PairInvNext
  <2>3. Shrinks(b, buffer[n][p.tree])
    BY <1>1, <1>3, AckedByShrinks DEF TransmissionPart
  <2>4. buffer' = [buffer EXCEPT ![n][p.tree] = b]
    BY <1>6
  <2> HIDE DEF b
  <2>5. buffer' \in [Routers -> [Trees -> Buffer]] /\ OutstandingIsPast'
    BY <1>1, <1>3, <1>6, <2>3, <2>4, AckBuffers
  <2> QED
    BY <1>1, <1>6, <2>2, <2>5 DEF TransmissionPart
<1> QED
  BY <1>2, <1>5, <1>6

\* force_neighbor_failure: some objects are forgotten.
LEMMA FailuresKeepPairs ==
  ASSUME PairInv, NEW n \in Routers, NEW failed \in SUBSET Routers,
         nbr' = [nbr EXCEPT ![n] =
                   [m \in Routers |-> IF m \in failed THEN NoNeighbor ELSE @[m]]],
         faults' \in Nat, UNCHANGED <<boot, sequencer, mrt, msgs, snapshots>>
  PROVE  PairInv'
<1>1. TypeInv /\ TypeOK /\ Agreement
  BY DEF PairInv, TypeInv
<1>2. \A i, j \in Routers : nbr'[i][j] = nbr[i][j] \/ nbr'[i][j] = NoNeighbor
  BY <1>1 DEF TypeOK
<1>3. nbr' \in [Routers -> [Routers -> Neighbor]]
  BY <1>1, NoNeighborType DEF TypeOK
<1>4. MasterHasAnswered'
  BY <1>1, <1>2 DEF TypeInv, MasterHasAnswered, NoNeighbor
<1>5. Agreement'
  BY <1>1, <1>2, ClocksRest, ForgettingKeepsPairs
<1> QED
  BY <1>1, <1>3, <1>4, <1>5 DEF PairInv, TypeInv, TypeOK

LEMMA RetransmissionKeepsInv ==
  ASSUME TransmissionPairInv, NEW n \in Routers, NEW t \in Trees,
         RetransmissionTimeout(n, t)
  PROVE  PairInv' /\ TransmissionPart'
<1> DEFINE b == Rechecked(n, buffer[n][t])
           missed == [m \in Routers |-> b.failed_acks[m] + (IF m \in Owing(n, b) THEN 1 ELSE 0)]
           failed == {m \in Routers : Failed(missed[m])}
           counts == [m \in Routers |-> IF m \in failed THEN 0 ELSE missed[m]]
           b2 == [b EXCEPT !.failed_acks = counts]
<1>1. TransmissionTypeInv /\ TransmissionPart /\ PairInv /\ TypeOK
  BY InvParts
<1>2. /\ IF failed = {} THEN UNCHANGED faults
         ELSE faults < MaxFaults /\ faults' = faults + 1
      /\ buffer' = [buffer EXCEPT ![n][t] = b2]
      /\ nbr' = [nbr EXCEPT ![n] = [m \in Routers |-> IF m \in failed THEN NoNeighbor ELSE @[m]]]
      /\ checkpoint_sn' = [checkpoint_sn EXCEPT ![n] =
           [m \in Routers |-> IF m \in failed THEN 0 ELSE @[m]]]
      /\ delivered' = [delivered EXCEPT ![n] =
           [m \in Routers |-> IF m \in failed THEN [u \in Trees |-> 0] ELSE @[m]]]
      /\ UNCHANGED <<boot, sequencer, mrt, msgs, snapshots, interests, acks>>
  BY DEF RetransmissionTimeout
<1>3. Shrinks(b, buffer[n][t])
  BY <1>1, RecheckedShrinks DEF TransmissionPart
<1>4. missed \in [Routers -> Nat] /\ counts \in [Routers -> Nat]
  BY <1>3 DEF Shrinks, Buffer
<1> HIDE DEF b, missed, counts
<1>5. Shrinks(b2, b)
  BY <1>3, <1>4 DEF Shrinks, Buffer, Pending
<1>6. buffer' \in [Routers -> [Trees -> Buffer]] /\ OutstandingIsPast'
  <2>1. Shrinks(b2, buffer[n][t])
    BY <1>3, <1>5 DEF Shrinks
  <2> HIDE DEF b2
  <2> QED
    BY <1>1, <1>2, <2>1, AckBuffers
<1>7. failed \in SUBSET Routers /\ faults' \in Nat
  BY <1>1, <1>2 DEF TypeOK
<1> HIDE DEF failed
<1>8. PairInv'
  BY <1>1, <1>2, <1>7, FailuresKeepPairs
<1>9. /\ checkpoint_sn' \in [Routers -> [Routers -> Nat]]
      /\ delivered' \in [Routers -> [Routers -> [Trees -> Nat]]]
  BY <1>1, <1>2 DEF TransmissionPart
<1> QED
  BY <1>1, <1>2, <1>6, <1>8, <1>9 DEF TransmissionPart

LEMMA ReceiveCheckpointKeepsInv ==
  ASSUME TransmissionPairInv, NEW n \in Routers, NEW m \in Routers, ReceiveCheckpoint(n, m)
  PROVE  PairInv' /\ TransmissionPart'
<1> DEFINE r == nbr[n][m]
           Pruned(p) == [r EXCEPT !.last_sequence_number =
                           [t \in Trees |-> Forgotten(@[t], p.checkpoint_sn)]]
<1>1. /\ TransmissionTypeInv /\ TransmissionPart /\ PairInv /\ r \in Neighbor
      /\ hellos \subseteq CheckpointMsgs
  BY InvParts, NeighborTypes
<1>2. PICK p \in hellos :
        /\ checkpoint_sn' = [checkpoint_sn EXCEPT ![n][m] = p.checkpoint_sn]
        /\ SetNeighbor(n, m, Pruned(p))
  BY DEF ReceiveCheckpoint
<1>3. /\ r.state = "Synced"
      /\ UNCHANGED <<boot, sequencer, mrt, msgs, snapshots, faults,
                     buffer, interests, acks, delivered>>
  BY DEF ReceiveCheckpoint
<1>4. p.checkpoint_sn \in Nat
  BY <1>1 DEF CheckpointMsgs
<1>5. Pruned(p) \in Neighbor
  BY <1>1, <1>4 DEF Neighbor, Forgotten
<1>6. /\ SameHeader(Pruned(p), r) /\ Pruned(p).state = r.state
      /\ Pruned(p).current_sync_sn = r.current_sync_sn
  BY <1>1 DEF Neighbor, SameHeader
<1> HIDE DEF Pruned
<1>7. PairInv'
  BY <1>1, <1>2, <1>3, <1>5, <1>6, RestoreKeepsPairs
<1>8. buffer' \in [Routers -> [Trees -> Buffer]] /\ OutstandingIsPast'
  BY <1>1, <1>3, BuffersRest
<1>9. checkpoint_sn' \in [Routers -> [Routers -> Nat]]
  BY <1>1, <1>2, <1>4 DEF TransmissionPart
<1> QED
  BY <1>1, <1>3, <1>7, <1>8, <1>9 DEF TransmissionPart

-----------------------------------------------------------------------------
(* Type correctness, and agreement of the pairs *)

LEMMA TransmissionPairInvInit == TransmissionInit => TransmissionPairInv
<1> SUFFICES ASSUME TransmissionInit PROVE TransmissionPairInv
  OBVIOUS
<1>1. PairInv /\ TypeOK /\ MasterHasAnswered /\ Agreement
  BY PairInvInit DEF TransmissionInit, PairInv, TypeInv
<1>2. \A n \in Routers, t \in Trees : Pending(buffer[n][t]) = {}
  BY NothingPends DEF TransmissionInit
<1>3. TransmissionPart
  BY <1>2, NothingPends DEF TransmissionInit, TransmissionPart, OutstandingIsPast
<1>4. CheckpointHypothesis
  BY <1>1, <1>3 DEF TypeOK, TransmissionPart, CheckpointHypothesis
<1>5. hellos \subseteq CheckpointMsgs
  BY <1>4, CheckpointBounds
     DEF TransmissionInit, CheckpointIsBehind, CheckpointHello, CheckpointMsgs,
         CheckpointHypothesis
<1> QED
  BY <1>1, <1>3, <1>5
     DEF TransmissionPairInv, TransmissionTypeInv, TransmissionTypeOK, TransmissionPart

LEMMA TransmissionPairInvNext ==
  TransmissionPairInv /\ [TransmissionNext]_allVars => TransmissionPairInv'
<1> SUFFICES ASSUME TransmissionPairInv, [TransmissionNext]_allVars
             PROVE  TransmissionPairInv'
  OBVIOUS
<1>1. CASE TransmissionStep(Routers) /\ SendHellos
  <2>1. PairInv' /\ TransmissionPart'
    <3>1. ASSUME NEW n \in Routers, NEW m \in Routers, Synchronize(n, m)
          PROVE  PairInv' /\ TransmissionPart'
      BY <3>1, SynchronizeKeepsInv
    <3>2. ASSUME NEW n \in Routers, NEW m \in Routers,
                 ReceiveSequenced(n, m) \/ ReceiveAck(n, m) \/ ReceiveCheckpoint(n, m)
          PROVE  PairInv' /\ TransmissionPart'
      BY <3>2, ReceiveSequencedKeepsInv, ReceiveAckKeepsInv, ReceiveCheckpointKeepsInv
    <3>3. ASSUME NEW n \in Routers, NEW m \in Routers, NEW t \in Trees, SendInterest(n, m, t)
          PROVE  PairInv' /\ TransmissionPart'
      BY <3>3, SendInterestKeepsInv
    <3>4. ASSUME NEW n \in Routers, NEW t \in Trees,
                 Announce(n, t) \/ RetransmissionTimeout(n, t)
          PROVE  PairInv' /\ TransmissionPart'
      BY <3>4, AnnounceKeepsInv, RetransmissionKeepsInv
    <3>5. ASSUME NEW n \in Routers, NEW farewell \in BOOLEAN, RestartInterface(n, farewell)
          PROVE  PairInv' /\ TransmissionPart'
      BY <3>5, RestartKeepsInv
    <3> QED
      BY <1>1, <3>1, <3>2, <3>3, <3>4, <3>5 DEF TransmissionStep
  <2> QED
    BY <1>1, <2>1, InvParts, WholeInv
<1>2. CASE UNCHANGED allVars
  <2>1. UNCHANGED vars /\ UNCHANGED transmission
    BY <1>2 DEF allVars, vars, transmission
  <2>2. PairInv'
    BY <2>1, InvParts, PairInvNext
  <2>3. TransmissionPart'
    <3>1. OutstandingIsPast'
      BY <2>1, InvParts, BuffersRest DEF transmission, vars
    <3> QED
      BY <2>1, <3>1, InvParts DEF TransmissionPart, transmission
  <2>4. (hellos \subseteq CheckpointMsgs)'
    BY <2>1, InvParts DEF transmission
  <2> QED
    BY <2>2, <2>3, <2>4 DEF PairInv, TypeInv, TransmissionPart, TransmissionPairInv,
                           TransmissionTypeInv, TransmissionTypeOK
<1> QED
  BY <1>1, <1>2 DEF TransmissionNext

\* Every buffer, Ack and CheckpointSN is well formed; in particular no CheckpointSN
\* is below 0, since every outstanding message has a number and those of an
\* earlier BootTime are gone (get_checkpoint_sn, get_sequence_number).
THEOREM TransmissionTypeCorrect == TransmissionSpec => []TransmissionTypeOK
<1>1. TransmissionInit => TransmissionPairInv
  BY TransmissionPairInvInit
<1>2. TransmissionPairInv /\ [TransmissionNext]_allVars => TransmissionPairInv'
  BY TransmissionPairInvNext
<1>3. TransmissionPairInv => TransmissionTypeOK
  BY DEF TransmissionPairInv, TransmissionTypeInv
<1> QED
  BY <1>1, <1>2, <1>3, PTL DEF TransmissionSpec

\* Acks, failures after missed Acks, checkpoints and snapshots that count as Acks
\* do not make two Synced routers disagree on their snapshots, so that each
\* accepts the Acks of the other (recv_ack).
THEOREM TransmissionPairsAgree == TransmissionSpec => []SyncedPairsAgree
<1>1. TransmissionInit => TransmissionPairInv
  BY TransmissionPairInvInit
<1>2. TransmissionPairInv /\ [TransmissionNext]_allVars => TransmissionPairInv'
  BY TransmissionPairInvNext
<1>3. TransmissionPairInv => SyncedPairsAgree
  BY InvParts, PairInvImpliesAgreement
<1> QED
  BY <1>1, <1>2, <1>3, PTL DEF TransmissionSpec

-----------------------------------------------------------------------------
(* What a step does to one Neighbor object *)

NoNumbers == [t \in Trees |-> 0]

\* r2 is r, which goes on with its two snapshots once they are known.
Evolves(r2, r) ==
  /\ r2.my_snapshot_boot_time = r.my_snapshot_boot_time
  /\ r2.my_snapshot_sequencer = r.my_snapshot_sequencer
  /\ r2.time_of_boot = r.time_of_boot
  /\ r2.state = "Absent" <=> r.state = "Absent"
  /\ r.state = "Synced" => r2.state = "Synced"
  /\ r.current_sync_sn > 0 =>
       r2.current_sync_sn > 0 /\ r2.neighbor_snapshot_sn = r.neighbor_snapshot_sn

\* r2 has the snapshot that n takes in this step.
Restarted(n, r2) ==
  /\ r2.state # "Absent"
  /\ r2.my_snapshot_boot_time = NextBootTime(n)
  /\ r2.my_snapshot_sequencer = NextSequenceNumber(n)
  /\ r2.last_sequence_number = NoNumbers

SameNumbers(r2, r) == r2.last_sequence_number = r.last_sequence_number

LEMMA EvolvesAlong ==
  /\ \A r : Evolves(r, r) /\ SameNumbers(r, r)
  /\ \A r, r1, r2 : Evolves(r2, r1) /\ Evolves(r1, r) => Evolves(r2, r)
  /\ \A r, r1, r2 : SameNumbers(r2, r1) /\ SameNumbers(r1, r) => SameNumbers(r2, r)
BY DEF Evolves, SameNumbers

\* The functions the handlers are made of.
LEMMA HandlersEvolve ==
  ASSUME NEW r \in Neighbor, NEW k \in Nat, NEW trees \in SUBSET Trees
  PROVE  /\ r.state = "Slave" => /\ Evolves([r EXCEPT !.state = "Master"], r)
                                 /\ SameNumbers([r EXCEPT !.state = "Master"], r)
         /\ Evolves([r EXCEPT !.current_sync_sn = k + 1], r)
         /\ SameNumbers([r EXCEPT !.current_sync_sn = k + 1], r)
         /\ Evolves(InstallTreeState(r, trees), r)
         /\ SameNumbers(InstallTreeState(r, trees), r)
         /\ r.state # "Absent" => Evolves(FinishSync(r), r) /\ SameNumbers(FinishSync(r), r)
         /\ \A p \in SyncMsgs : Evolves(Adopted(r, p), r) /\ SameNumbers(Adopted(r, p), r)
<1>1. r.state = "Slave" => /\ Evolves([r EXCEPT !.state = "Master"], r)
                           /\ SameNumbers([r EXCEPT !.state = "Master"], r)
  BY DEF Evolves, SameNumbers, Neighbor
<1>2. /\ Evolves([r EXCEPT !.current_sync_sn = k + 1], r)
      /\ SameNumbers([r EXCEPT !.current_sync_sn = k + 1], r)
  BY DEF Evolves, SameNumbers, Neighbor
<1>3. Evolves(InstallTreeState(r, trees), r) /\ SameNumbers(InstallTreeState(r, trees), r)
  BY DEF Evolves, SameNumbers, Neighbor, InstallTreeState
<1>4. r.state # "Absent" => Evolves(FinishSync(r), r) /\ SameNumbers(FinishSync(r), r)
  BY DEF Evolves, SameNumbers, Neighbor, FinishSync
<1>5. ASSUME NEW p \in SyncMsgs
      PROVE  Evolves(Adopted(r, p), r) /\ SameNumbers(Adopted(r, p), r)
  BY DEF Evolves, SameNumbers, Neighbor, Adopted
<1> QED
  BY <1>1, <1>2, <1>3, <1>4, <1>5

LEMMA MasterAnswersKinds ==
  ASSUME NEW n, NEW m, NEW r \in Neighbor, NEW p \in SyncMsgs, r.state # "Absent",
         MasterAnswers(n, m, r, p)
  PROVE  \E r2 : SetNeighbor(n, m, r2) /\ Evolves(r2, r) /\ SameNumbers(r2, r)
<1> DEFINE k == r.current_sync_sn
           r1 == InstallTreeState(r, p.trees)
           r2 == [r1 EXCEPT !.current_sync_sn = k + 1]
           r3 == FinishSync(r1)
<1>1. SetNeighbor(n, m, r2) \/ SetNeighbor(n, m, r3)
  BY DEF MasterAnswers
<1>2. k \in Nat /\ p.trees \in SUBSET Trees
  BY DEF Neighbor, SyncMsgs
<1>3. r1 \in Neighbor /\ Evolves(r1, r) /\ SameNumbers(r1, r)
  BY <1>2, InstallType, HandlersEvolve
<1>4. r1.state # "Absent"
  BY <1>3 DEF Evolves
<1> HIDE DEF k, r1
<1>5. /\ Evolves(r2, r1) /\ SameNumbers(r2, r1)
      /\ Evolves(r3, r1) /\ SameNumbers(r3, r1)
  BY <1>2, <1>3, <1>4, HandlersEvolve
<1> QED
  BY <1>1, <1>3, <1>5, EvolvesAlong

LEMMA SlaveAdvancesKinds ==
  ASSUME NEW n, NEW m, NEW r \in Neighbor, NEW p \in SyncMsgs, r.state # "Absent",
         SlaveAdvances(n, m, r, p)
  PROVE  \E r2 : SetNeighbor(n, m, r2) /\ Evolves(r2, r) /\ SameNumbers(r2, r)
<1> DEFINE k == r.current_sync_sn
           r0 == [r EXCEPT !.current_sync_sn = k + 1]
           r1 == InstallTreeState(r0, p.trees)
           r3 == FinishSync(r)
<1>1. SetNeighbor(n, m, r1) \/ SetNeighbor(n, m, r3)
  BY DEF SlaveAdvances
<1>2. k \in Nat /\ k + 1 \in Nat /\ p.trees \in SUBSET Trees
  BY DEF Neighbor, SyncMsgs
<1>3. /\ Evolves(r0, r) /\ SameNumbers(r0, r)
      /\ Evolves(r3, r) /\ SameNumbers(r3, r)
  BY <1>2, HandlersEvolve
<1>4. r0 \in Neighbor
  BY <1>2, AdvanceType
<1> HIDE DEF k, r0
<1>5. Evolves(r1, r0) /\ SameNumbers(r1, r0)
  BY <1>2, <1>4, HandlersEvolve
<1> QED
  BY <1>1, <1>3, <1>5, EvolvesAlong

\* A step of the synchronization starts the object anew, goes on with it, or
\* removes it.
Synchronizes(n, m) ==
  \/ /\ GetSequenceNumber(n)
     /\ \E r2 : SetNeighbor(n, m, r2) /\ Restarted(n, r2)
  \/ /\ UNCHANGED <<boot, sequencer>> /\ nbr[n][m].state # "Absent"
     /\ \E r2 : /\ SetNeighbor(n, m, r2)
                /\ Evolves(r2, nbr[n][m]) /\ SameNumbers(r2, nbr[n][m])
  \/ UNCHANGED <<boot, sequencer>> /\ SetNeighbor(n, m, NoNeighbor)

LEMMA ResetRestarts ==
  ASSUME NEW n, NEW m, NEW b, AdjacencyReset(n, m, b)
  PROVE  Synchronizes(n, m)
BY DEF AdjacencyReset, StartSnapshot, Synchronizes, Restarted, CleanNeighbor, NoNumbers

LEMMA SynchronizeKinds ==
  ASSUME TypeOK, NEW n \in Routers, NEW m \in Routers, Synchronize(n, m)
  PROVE  Synchronizes(n, m)
<1> DEFINE x == nbr[n][m]
<1>1. x \in Neighbor
  BY NeighborTypes
<1>2. CASE ReceiveSyncUnknown(n, m)
  <2>1. PICK p \in msgs :
          /\ ReceivableSync(n, m, p)
          /\ IF p.sync_sn = 0 /\ p.master
             THEN LET r == [CleanNeighbor(n, "Master", p.boot) EXCEPT
                              !.neighbor_snapshot_sn = p.my_snapshot_sn]
                  IN  StartSnapshot(n) /\ MasterAnswers(n, m, r, p)
             ELSE AdjacencyReset(n, m, p.boot)
    BY <1>2 DEF ReceiveSyncUnknown
  <2>2. p \in SyncMsgs /\ p.boot \in Nat /\ p.my_snapshot_sn \in Nat
    BY <2>1, PacketTypes DEF ReceivableSync, SyncMsgs
  <2> DEFINE c == CleanNeighbor(n, "Master", p.boot)
             r == [c EXCEPT !.neighbor_snapshot_sn = p.my_snapshot_sn]
  <2>3. CASE StartSnapshot(n) /\ MasterAnswers(n, m, r, p)
    <3>1. c \in Neighbor
      BY <2>2, CleanNeighborType DEF States
    <3>2. /\ r \in Neighbor /\ r.state # "Absent" /\ Restarted(n, r)
      BY <2>2, <3>1 DEF CleanNeighbor, Neighbor, Restarted, NoNumbers
    <3> HIDE DEF c, r
    <3>3. PICK r2 : SetNeighbor(n, m, r2) /\ Evolves(r2, r) /\ SameNumbers(r2, r)
      BY <2>2, <2>3, <3>2, MasterAnswersKinds
    <3>4. Restarted(n, r2)
      BY <3>2, <3>3 DEF Restarted, Evolves, SameNumbers
    <3> QED
      BY <2>3, <3>3, <3>4 DEF StartSnapshot, Synchronizes
  <2>4. CASE AdjacencyReset(n, m, p.boot)
    BY <2>4, ResetRestarts
  <2> QED
    BY <2>1, <2>3, <2>4
<1>3. CASE ReceiveSyncReset(n, m)
  BY <1>3, ResetRestarts DEF ReceiveSyncReset
<1>4. CASE ReceiveSyncSlave(n, m)
  <2>1. x.state = "Slave" /\ UNCHANGED <<boot, sequencer>>
    BY <1>4 DEF ReceiveSyncSlave
  <2>2. PICK p \in msgs :
          LET r == Adopted(x, p)
          IN  /\ CurrentSync(n, m, r, p)
              /\ \/ MasterAnswers(n, m, [r EXCEPT !.state = "Master"], p)
                 \/ SlaveAdvances(n, m, r, p)
                 \/ SetNeighbor(n, m, r)
    BY <1>4 DEF ReceiveSyncSlave
  <2> DEFINE r == Adopted(x, p)
             a == [r EXCEPT !.state = "Master"]
  <2>3. p \in SyncMsgs
    BY <2>2, PacketTypes DEF CurrentSync, ReceivableSync
  <2>4. /\ r \in Neighbor /\ r.state = "Slave"
        /\ Evolves(r, x) /\ SameNumbers(r, x)
    BY <1>1, <2>1, <2>3, AdoptedType, HandlersEvolve
  <2> HIDE DEF r, x
  <2>5. a \in Neighbor /\ a.state # "Absent" /\ Evolves(a, r) /\ SameNumbers(a, r)
    BY <2>4, HandlersEvolve DEF Neighbor, States
  <2> HIDE DEF a
  <2>6. \E r2 : SetNeighbor(n, m, r2) /\ Evolves(r2, r) /\ SameNumbers(r2, r)
    <3>1. CASE MasterAnswers(n, m, a, p)
      <4>1. PICK r2 : SetNeighbor(n, m, r2) /\ Evolves(r2, a) /\ SameNumbers(r2, a)
        BY <2>3, <2>5, <3>1, MasterAnswersKinds
      <4> QED
        BY <2>5, <4>1, EvolvesAlong
    <3>2. CASE SlaveAdvances(n, m, r, p)
      BY <2>3, <2>4, <3>2, SlaveAdvancesKinds
    <3>3. CASE SetNeighbor(n, m, r)
      BY <3>3, EvolvesAlong
    <3> QED
      BY <2>2, <3>1, <3>2, <3>3 DEF r, a
  <2>7. \E r2 : SetNeighbor(n, m, r2) /\ Evolves(r2, x) /\ SameNumbers(r2, x)
    BY <2>4, <2>6, EvolvesAlong
  <2> QED
    BY <2>1, <2>7 DEF Synchronizes, x
<1>5. CASE ReceiveSyncMaster(n, m)
  <2>1. x.state = "Master" /\ UNCHANGED <<boot, sequencer>>
    BY <1>5 DEF ReceiveSyncMaster
  <2>2. PICK p \in msgs : CurrentSync(n, m, x, p) /\ MasterAnswers(n, m, x, p)
    BY <1>5 DEF ReceiveSyncMaster
  <2>3. p \in SyncMsgs
    BY <2>2, PacketTypes DEF CurrentSync, ReceivableSync
  <2>4. \E r2 : SetNeighbor(n, m, r2) /\ Evolves(r2, x) /\ SameNumbers(r2, x)
    BY <1>1, <2>1, <2>2, <2>3, MasterAnswersKinds
  <2> QED
    BY <2>1, <2>4 DEF Synchronizes
<1>6. CASE ReceiveHello(n, m)
  BY <1>6, ResetRestarts DEF ReceiveHello, Synchronizes
<1>7. CASE SyncTimeout(n, m)
  <2>1. x.state # "Absent" /\ UNCHANGED <<boot, sequencer, nbr>>
    BY <1>7 DEF SyncTimeout
  <2>2. SetNeighbor(n, m, x)
    BY <2>1 DEF SetNeighbor, TypeOK
  <2> QED
    BY <2>1, <2>2, EvolvesAlong DEF Synchronizes
<1>8. CASE RemoveNeighbor(n, m)
  BY <1>8 DEF RemoveNeighbor, Synchronizes
<1> QED
  BY <1>2, <1>3, <1>4, <1>5, <1>6, <1>7, <1>8 DEF Synchronize

-----------------------------------------------------------------------------
(* The numbers an object holds of the other router's messages *)

\* The object of n for m is gone, is new, or goes on.
Gone(n, m) ==
  /\ nbr'[n][m] = NoNeighbor
  /\ checkpoint_sn'[n][m] = 0 /\ delivered'[n][m] = NoNumbers

New(n, m) ==
  /\ GetSequenceNumber(n) /\ Restarted(n, nbr'[n][m])
  /\ checkpoint_sn'[n][m] = 0 /\ delivered'[n][m] = NoNumbers

\* What an object that goes on does with the numbers: nothing; it takes the word
\* p of the other router; it forgets those up to the checkpoint of Hello h.
Rests(n, m) ==
  /\ SameNumbers(nbr'[n][m], nbr[n][m])
  /\ checkpoint_sn'[n][m] = checkpoint_sn[n][m] /\ delivered'[n][m] = delivered[n][m]

Takes(n, m, p) ==
  /\ p.tree \in Trees /\ p.boot = nbr[n][m].time_of_boot
  /\ p.sn \in Nat /\ p.sn > checkpoint_sn[n][m]
  /\ p.sn > nbr[n][m].last_sequence_number[p.tree]
  /\ nbr'[n][m].last_sequence_number =
       [nbr[n][m].last_sequence_number EXCEPT ![p.tree] = p.sn]
  /\ checkpoint_sn'[n][m] = checkpoint_sn[n][m]
  /\ delivered'[n][m] = [delivered[n][m] EXCEPT ![p.tree] = p.sn]

Forgets(n, m, h) ==
  /\ nbr[n][m].state = "Synced"
  /\ h.src = m /\ h.boot = nbr[n][m].time_of_boot
  /\ h.checkpoint_sn \in Nat /\ h.checkpoint_sn > checkpoint_sn[n][m]
  /\ nbr'[n][m].last_sequence_number =
       [t \in Trees |-> Forgotten(nbr[n][m].last_sequence_number[t], h.checkpoint_sn)]
  /\ checkpoint_sn'[n][m] = h.checkpoint_sn /\ delivered'[n][m] = delivered[n][m]

GoesOn(n, m) ==
  /\ Evolves(nbr'[n][m], nbr[n][m])
  /\ \/ Rests(n, m)
     \/ \E p \in SequencedFrom(n, m) : Takes(n, m, p)
     \/ \E h \in hellos : Forgets(n, m, h)

ObjectOutcome(n, m) == Gone(n, m) \/ New(n, m) \/ GoesOn(n, m)
ObjectOutcomes == \A n, m \in Routers : ObjectOutcome(n, m)

\* Only a checkpoint makes a Synced object forget a number, the checkpoint covers it.
NumbersAreForgotten ==
  \A n, m \in Routers :
    LET r == nbr[n][m]
    IN  /\ r.state # "Synced" => r.last_sequence_number = delivered[n][m]
        /\ \A t \in Trees : r.last_sequence_number[t] # delivered[n][m][t] =>
             r.last_sequence_number[t] = 0 /\ delivered[n][m][t] <= checkpoint_sn[n][m]

\* What was passed on was sent, by the neighbor's interface of that BootTime.
DeliveredWasSent ==
  \A n, m \in Routers : \A t \in Trees : delivered[n][m][t] > 0 =>
    \E p \in SequencedFrom(n, m) :
      p.tree = t /\ p.boot = nbr[n][m].time_of_boot /\ p.sn = delivered[n][m][t]

CheckpointWasSent ==
  \A n, m \in Routers : checkpoint_sn[n][m] > 0 =>
    \E h \in hellos : /\ h.src = m /\ h.boot = nbr[n][m].time_of_boot
                      /\ h.checkpoint_sn = checkpoint_sn[n][m]

NumbersAreTrue == NumbersAreForgotten /\ DeliveredWasSent /\ CheckpointWasSent

PacketsStay ==
  /\ msgs \subseteq msgs' /\ interests \subseteq interests'
  /\ acks \subseteq acks' /\ hellos \subseteq hellos'

LEMMA SequencedStay ==
  ASSUME PacketsStay, NEW n, NEW m
  PROVE  SequencedFrom(n, m) \subseteq SequencedFrom(n, m)'
BY DEF PacketsStay, SequencedFrom

LEMMA OutcomesKeepNumbers ==
  ASSUME TransmissionTypeInv, TransmissionTypeInv', NumbersAreTrue, ObjectOutcomes, PacketsStay
  PROVE  NumbersAreTrue'
<1>1. ASSUME NEW n \in Routers, NEW m \in Routers
      PROVE  /\ nbr[n][m] \in Neighbor /\ nbr'[n][m] \in Neighbor
             /\ delivered[n][m] \in [Trees -> Nat] /\ delivered'[n][m] \in [Trees -> Nat]
             /\ checkpoint_sn[n][m] \in Nat /\ checkpoint_sn'[n][m] \in Nat
             /\ nbr[n][m].last_sequence_number \in [Trees -> Nat]
  <2>1. /\ nbr[n][m] \in Neighbor
        /\ delivered[n][m] \in [Trees -> Nat] /\ checkpoint_sn[n][m] \in Nat
    BY DEF TransmissionTypeInv, TransmissionTypeOK, TypeOK
  <2>2. /\ nbr'[n][m] \in Neighbor
        /\ delivered'[n][m] \in [Trees -> Nat] /\ checkpoint_sn'[n][m] \in Nat
    <3>1. /\ nbr' \in [Routers -> [Routers -> Neighbor]]
          /\ delivered' \in [Routers -> [Routers -> [Trees -> Nat]]]
          /\ checkpoint_sn' \in [Routers -> [Routers -> Nat]]
      BY DEF TransmissionTypeInv, TransmissionTypeOK, TypeOK, Neighbor, States
    <3> QED
      BY <3>1
  <2> QED
    BY <2>1, <2>2 DEF Neighbor
<1>2. NoNeighbor.last_sequence_number = NoNumbers /\ \A t \in Trees : NoNumbers[t] = 0
  BY DEF NoNeighbor, NoNumbers
<1>3. ASSUME NEW n \in Routers, NEW m \in Routers
      PROVE  /\ nbr'[n][m].state # "Synced" =>
                  nbr'[n][m].last_sequence_number = delivered'[n][m]
             /\ \A t \in Trees : nbr'[n][m].last_sequence_number[t] # delivered'[n][m][t] =>
                  /\ nbr'[n][m].last_sequence_number[t] = 0
                  /\ delivered'[n][m][t] <= checkpoint_sn'[n][m]
  <2> DEFINE r == nbr[n][m]
             r2 == nbr'[n][m]
             d == delivered[n][m]
             c == checkpoint_sn[n][m]
  <2>1. /\ r.state # "Synced" => r.last_sequence_number = d
        /\ \A t \in Trees : r.last_sequence_number[t] # d[t] =>
             r.last_sequence_number[t] = 0 /\ d[t] <= c
    BY DEF NumbersAreTrue, NumbersAreForgotten
  <2>2. CASE Gone(n, m) \/ New(n, m)
    BY <1>2, <2>2 DEF Gone, New, Restarted
  <2>3. CASE Evolves(r2, r) /\ Rests(n, m)
    BY <2>1, <2>3 DEF Evolves, Rests, SameNumbers
  <2>4. ASSUME NEW p \in SequencedFrom(n, m), Evolves(r2, r), Takes(n, m, p)
        PROVE  /\ r2.state # "Synced" => r2.last_sequence_number = delivered'[n][m]
               /\ \A t \in Trees : r2.last_sequence_number[t] # delivered'[n][m][t] =>
                    /\ r2.last_sequence_number[t] = 0
                    /\ delivered'[n][m][t] <= checkpoint_sn'[n][m]
    BY <1>1, <2>1, <2>4 DEF Evolves, Takes
  <2>5. ASSUME NEW h \in hellos, Evolves(r2, r), Forgets(n, m, h)
        PROVE  /\ r2.state # "Synced" => r2.last_sequence_number = delivered'[n][m]
               /\ \A t \in Trees : r2.last_sequence_number[t] # delivered'[n][m][t] =>
                    /\ r2.last_sequence_number[t] = 0
                    /\ delivered'[n][m][t] <= checkpoint_sn'[n][m]
    <3>1. r2.state = "Synced"
      BY <2>5 DEF Forgets, Evolves
    <3>2. /\ d = delivered'[n][m] /\ checkpoint_sn'[n][m] = h.checkpoint_sn
          /\ c < h.checkpoint_sn /\ h.checkpoint_sn \in Nat /\ c \in Nat
      BY <1>1, <2>5 DEF Forgets
    <3>3. ASSUME NEW t \in Trees, r2.last_sequence_number[t] # d[t]
          PROVE  r2.last_sequence_number[t] = 0 /\ d[t] <= h.checkpoint_sn
      <4>1. r2.last_sequence_number[t] = Forgotten(r.last_sequence_number[t], h.checkpoint_sn)
        BY <2>5 DEF Forgets
      <4>2. r.last_sequence_number[t] \in Nat /\ d[t] \in Nat
        BY <1>1
      <4>3. r.last_sequence_number[t] # d[t] => r.last_sequence_number[t] = 0 /\ d[t] <= c
        BY <2>1
      <4> QED
        BY <3>2, <3>3, <4>1, <4>2, <4>3 DEF Forgotten
    <3> QED
      BY <3>1, <3>2, <3>3
  <2> QED
    BY <2>2, <2>3, <2>4, <2>5 DEF ObjectOutcomes, ObjectOutcome, GoesOn
<1>4. NumbersAreForgotten'
  BY <1>3 DEF NumbersAreForgotten
<1>5. ASSUME NEW n \in Routers, NEW m \in Routers, NEW t \in Trees, delivered'[n][m][t] > 0
      PROVE  \E p \in SequencedFrom(n, m)' :
               /\ p.tree = t /\ p.boot = nbr'[n][m].time_of_boot
               /\ p.sn = delivered'[n][m][t]
  <2>1. SequencedFrom(n, m) \subseteq SequencedFrom(n, m)'
    BY SequencedStay
  <2>2. GoesOn(n, m)
    BY <1>2, <1>5 DEF ObjectOutcomes, ObjectOutcome, Gone, New
  <2>3. nbr'[n][m].time_of_boot = nbr[n][m].time_of_boot
    BY <2>2 DEF GoesOn, Evolves
  <2>4. CASE delivered'[n][m][t] = delivered[n][m][t]
    BY <1>5, <2>1, <2>3, <2>4 DEF NumbersAreTrue, DeliveredWasSent
  <2>5. ASSUME NEW p \in SequencedFrom(n, m), Takes(n, m, p)
        PROVE  \/ delivered'[n][m][t] = delivered[n][m][t]
               \/ /\ p \in SequencedFrom(n, m)' /\ p.tree = t
                  /\ p.boot = nbr'[n][m].time_of_boot /\ p.sn = delivered'[n][m][t]
    <3>1. p \in SequencedFrom(n, m)'
      BY <2>1
    <3>2. /\ delivered'[n][m] = [delivered[n][m] EXCEPT ![p.tree] = p.sn]
          /\ p.boot = nbr'[n][m].time_of_boot
      BY <2>3, <2>5 DEF Takes
    <3> QED
      BY <1>1, <3>1, <3>2
  <2>6. Rests(n, m) \/ (\E h \in hellos : Forgets(n, m, h)) =>
          delivered'[n][m][t] = delivered[n][m][t]
    BY DEF Rests, Forgets
  <2>7. CASE \E p \in SequencedFrom(n, m) : Takes(n, m, p)
    <3>1. PICK p \in SequencedFrom(n, m) : Takes(n, m, p)
      BY <2>7
    <3> QED
      BY <2>4, <2>5, <3>1
  <2> QED
    BY <2>2, <2>4, <2>6, <2>7 DEF GoesOn
<1>6. DeliveredWasSent'
  BY <1>5 DEF DeliveredWasSent
<1>7. ASSUME NEW n \in Routers, NEW m \in Routers, checkpoint_sn'[n][m] > 0
      PROVE  \E h \in hellos' : /\ h.src = m /\ h.boot = nbr'[n][m].time_of_boot
                                /\ h.checkpoint_sn = checkpoint_sn'[n][m]
  <2>1. hellos \subseteq hellos' /\ GoesOn(n, m)
    BY <1>7 DEF PacketsStay, ObjectOutcomes, ObjectOutcome, Gone, New
  <2>2. nbr'[n][m].time_of_boot = nbr[n][m].time_of_boot
    BY <2>1 DEF GoesOn, Evolves
  <2>3. CASE checkpoint_sn'[n][m] = checkpoint_sn[n][m]
    BY <1>7, <2>1, <2>2, <2>3 DEF NumbersAreTrue, CheckpointWasSent
  <2>4. ASSUME NEW h \in hellos, Forgets(n, m, h)
        PROVE  /\ h.src = m /\ h.boot = nbr'[n][m].time_of_boot
               /\ h.checkpoint_sn = checkpoint_sn'[n][m]
    BY <2>2, <2>4 DEF Forgets
  <2> QED
    BY <2>1, <2>3, <2>4 DEF GoesOn, Rests, Takes
<1>8. CheckpointWasSent'
  BY <1>7 DEF CheckpointWasSent
<1> QED
  BY <1>4, <1>6, <1>8 DEF NumbersAreTrue

\* What was passed on before has a smaller number.
LEMMA DeliveredGrows ==
  ASSUME TransmissionTypeInv, NumbersAreTrue, NEW n \in Routers, NEW m \in Routers,
         GoesOn(n, m), NEW t \in Trees
  PROVE  delivered'[n][m][t] \in Nat /\ delivered[n][m][t] <= delivered'[n][m][t]
<1> DEFINE r == nbr[n][m]
           d == delivered[n][m]
           c == checkpoint_sn[n][m]
<1>1. d \in [Trees -> Nat] /\ c \in Nat /\ r.last_sequence_number \in [Trees -> Nat]
  <2>1. r \in Neighbor /\ d \in [Trees -> Nat] /\ c \in Nat
    BY DEF TransmissionTypeInv, TransmissionTypeOK, TypeOK
  <2> QED
    BY <2>1 DEF Neighbor
<1>2. r.last_sequence_number[t] # d[t] => d[t] <= c
  BY DEF NumbersAreTrue, NumbersAreForgotten
<1>3. CASE delivered'[n][m] = d
  BY <1>1, <1>3
<1>4. ASSUME NEW p, Takes(n, m, p)
      PROVE  delivered'[n][m][t] \in Nat /\ d[t] <= delivered'[n][m][t]
  <2>1. /\ delivered'[n][m] = [d EXCEPT ![p.tree] = p.sn]
        /\ p.sn \in Nat /\ p.sn > c /\ p.sn > r.last_sequence_number[p.tree]
    BY <1>4 DEF Takes
  <2> HIDE DEF d, c, r
  <2>2. CASE p.tree = t
    BY <1>1, <1>2, <2>1, <2>2
  <2>3. CASE p.tree # t
    BY <1>1, <2>1, <2>3
  <2> QED
    BY <2>2, <2>3
<1> QED
  BY <1>3, <1>4 DEF GoesOn, Rests, Forgets

-----------------------------------------------------------------------------
(* Acks *)

\* An Ack p of a message of p.dst that p.src has passed on ...
TrueAck(p) ==
  LET r == nbr[p.src][p.dst]
  IN  /\ Past(boot, sequencer, p.src, p.boot, p.my_snapshot_sn)
      /\ /\ r.state # "Absent"
         /\ r.my_snapshot_boot_time = p.boot /\ r.my_snapshot_sequencer = p.my_snapshot_sn
         => p.sn <= delivered[p.src][p.dst][p.tree]

\* ... or one that names a snapshot of p.dst which was made for an earlier
\* BootTime of p.src, so that p.dst will not accept it.
StaleAck(p) ==
  \E y \in msgs : /\ SyncOf(y, p.dst, p.src)
                  /\ OfSnapshot(y, p.neighbor_boot_time, p.neighbor_snapshot_sn)
                  /\ y.neighbor_boot_time < p.boot

GoodAck(p) == p.neighbor_snapshot_sn = 0 \/ StaleAck(p) \/ TrueAck(p)
AcksAreTrue == \A p \in acks : GoodAck(p)

LEMMA OutcomesKeepAcks ==
  ASSUME TransmissionTypeInv, NumbersAreTrue, ObjectOutcomes, PacketsStay, ClocksGoOn,
         AcksAreTrue, NEW p \in acks
  PROVE  GoodAck(p)'
<1>1. /\ p.src \in Routers /\ p.dst \in Routers /\ p.boot \in Nat
      /\ p.my_snapshot_sn \in Nat /\ p.sn \in Nat /\ p.tree \in Trees
  BY DEF TransmissionTypeInv, TransmissionTypeOK, AckMsgs
<1>2. CASE p.neighbor_snapshot_sn = 0
  BY <1>2 DEF GoodAck
<1>3. CASE StaleAck(p)
  BY <1>3 DEF GoodAck, StaleAck, PacketsStay
<1>4. CASE TrueAck(p)
  <2> DEFINE n == p.src
             m == p.dst
             r == nbr[n][m]
             r2 == nbr'[n][m]
  <2>1. Past(boot, sequencer, n, p.boot, p.my_snapshot_sn)
    BY <1>4 DEF TrueAck
  <2>2. Past(boot', sequencer', n, p.boot, p.my_snapshot_sn)
    BY <1>1, <2>1 DEF ClocksGoOn
  <2>3. ASSUME r2.state # "Absent",
               r2.my_snapshot_boot_time = p.boot, r2.my_snapshot_sequencer = p.my_snapshot_sn
        PROVE  p.sn <= delivered'[n][m][p.tree]
    <3>1. ~Gone(n, m)
      BY <2>3 DEF Gone, NoNeighbor
    <3>2. ~New(n, m)
      <4>1. SUFFICES ASSUME New(n, m) PROVE FALSE
        OBVIOUS
      <4>2. ~Past(boot, sequencer, n, NextBootTime(n), NextSequenceNumber(n))
        BY <1>1, <4>1, ClocksAdvance DEF New, TransmissionTypeInv, TransmissionTypeOK
      <4> QED
        BY <2>1, <2>3, <4>1, <4>2 DEF New, Restarted
    <3>3. GoesOn(n, m)
      BY <1>1, <3>1, <3>2 DEF ObjectOutcomes, ObjectOutcome
    <3>4. p.sn <= delivered[n][m][p.tree]
      BY <1>4, <2>3, <3>3 DEF TrueAck, GoesOn, Evolves
    <3>5. /\ delivered[n][m][p.tree] \in Nat
          /\ delivered'[n][m][p.tree] \in Nat
          /\ delivered[n][m][p.tree] <= delivered'[n][m][p.tree]
      BY <1>1, <3>3, DeliveredGrows DEF TransmissionTypeInv, TransmissionTypeOK
    <3> QED
      BY <1>1, <3>4, <3>5
  <2> QED
    BY <2>2, <2>3 DEF GoodAck, TrueAck
<1> QED
  BY <1>2, <1>3, <1>4 DEF AcksAreTrue, GoodAck

\* The Ack that n sends of a message p of m, which it has passed on by now.
LEMMA NewAckIsGood ==
  ASSUME TransmissionPairInv, NEW n \in Routers, NEW m \in Routers, NEW p,
         nbr[n][m].state # "Absent", p.boot = nbr[n][m].time_of_boot,
         UNCHANGED <<boot, sequencer, msgs>>,
         p.sn <= delivered'[n][m][p.tree],
         NEW x, x = Ack(n, m, nbr[n][m], p)
  PROVE  GoodAck(x)'
<1> DEFINE r == nbr[n][m]
<1>1. TypeOK /\ Agreement /\ r \in Neighbor /\ boot[n] \in Nat
  BY InvParts, NeighborTypes DEF TypeOK
<1>2. /\ Past(boot, sequencer, n, r.my_snapshot_boot_time, r.my_snapshot_sequencer)
      /\ PairObject(n, m, r, msgs)
  BY <1>1 DEF Agreement, ObjectsArePast, PairObjects
<1>3. r.my_snapshot_boot_time \in Nat /\ r.my_snapshot_boot_time <= boot[n]
  BY <1>1, <1>2, ObjectNumbers DEF Past
<1>4. /\ x.src = n /\ x.dst = m /\ x.boot = boot[n] /\ x.neighbor_boot_time = p.boot
      /\ x.my_snapshot_sn = r.my_snapshot_sequencer
      /\ x.neighbor_snapshot_sn = r.neighbor_snapshot_sn /\ x.sn = p.sn /\ x.tree = p.tree
  BY DEF Ack
<1>5. CASE r.my_snapshot_boot_time = boot[n]
  <2>1. Past(boot', sequencer', n, x.boot, x.my_snapshot_sn)
    BY <1>2, <1>4, <1>5
  <2>2. TrueAck(x)'
    BY <1>4, <2>1 DEF TrueAck
  <2> QED
    BY <2>2 DEF GoodAck
<1>6. CASE r.neighbor_snapshot_sn = 0
  BY <1>4, <1>6 DEF GoodAck
<1>7. CASE r.neighbor_snapshot_sn # 0 /\ r.my_snapshot_boot_time < boot[n]
  <2>1. PICK y \in msgs : /\ SyncOf(y, m, n)
                          /\ OfSnapshot(y, r.time_of_boot, r.neighbor_snapshot_sn)
                          /\ y.neighbor_boot_time <= r.my_snapshot_boot_time
    BY <1>2, <1>7 DEF PairObject, InformedObject, Heard
  <2>2. y.neighbor_boot_time \in Nat
    BY <1>1, <2>1, SyncNumbers DEF SyncOf, TypeOK
  <2>3. y.neighbor_boot_time < boot[n]
    BY <1>1, <1>3, <1>7, <2>1, <2>2
  <2>4. y \in msgs' /\ y.neighbor_boot_time < x.boot
    BY <1>4, <2>1, <2>3
  <2>5. SyncOf(y, x.dst, x.src) /\ OfSnapshot(y, x.neighbor_boot_time, x.neighbor_snapshot_sn)
    BY <1>4, <2>1
  <2> QED
    BY <2>4, <2>5 DEF GoodAck, StaleAck
<1> QED
  BY <1>1, <1>3, <1>5, <1>6, <1>7

-----------------------------------------------------------------------------
(* The last word of a router *)

\* No Interest is ahead of its sender, as no announcement is; nor is a CheckpointSN.
WordsArePast ==
  \A n, m \in Routers : \A x \in SequencedFrom(n, m) : Past(boot, sequencer, m, x.boot, x.sn)
HellosArePast ==
  \A h \in hellos : Past(boot, sequencer, h.src, h.boot, h.checkpoint_sn)

LEMMA GreatestNumber ==
  ASSUME NEW S \in SUBSET Nat, S # {}, NEW b \in Nat, \A x \in S : x <= b
  PROVE  Max(S) \in S /\ \A x \in S : x <= Max(S)
<1> DEFINE D == {b - x : x \in S}
<1>1. D \in SUBSET Nat /\ D # {}
  <2>1. \A x \in S : b - x \in Nat
    OBVIOUS
  <2>2. PICK x \in S : TRUE
    OBVIOUS
  <2> QED
    BY <2>1, <2>2
<1>2. Min(D) \in D /\ \A d \in D : Min(D) <= d
  BY ONLY <1>1, LeastNumber
<1>3. PICK x \in S : Min(D) = b - x
  BY <1>2
<1>4. ASSUME NEW y \in S PROVE x >= y
  <2>1. x \in Nat /\ y \in Nat /\ b - x <= b - y
    BY <1>2, <1>3
  <2> QED
    BY <2>1
<1>5. Max(S) \in S /\ \A y \in S : Max(S) >= y
  BY <1>4 DEF Max
<1> QED
  BY <1>5

LastSentHypothesis ==
  /\ boot \in [Routers -> Nat] /\ sequencer \in [Routers -> Nat]
  /\ msgs \subseteq HelloMsgs \cup SyncMsgs \cup UpstreamMsgs
  /\ interests \subseteq InterestMsgs
  /\ WordsArePast

LastSentIsGreatest ==
  \A n, m \in Routers : \A t \in Trees :
    /\ LastSent(n, m, t) \in Nat /\ LastSent(n, m, t) <= sequencer[m]
    /\ \A x \in SequencedFrom(n, m) :
         x.tree = t /\ x.boot = boot[m] => x.sn \in Nat /\ x.sn <= LastSent(n, m, t)

LEMMA LastSentBounds == LastSentHypothesis => LastSentIsGreatest
<1> SUFFICES ASSUME LastSentHypothesis, NEW n \in Routers, NEW m \in Routers, NEW t \in Trees
             PROVE  /\ LastSent(n, m, t) \in Nat /\ LastSent(n, m, t) <= sequencer[m]
                    /\ \A x \in SequencedFrom(n, m) : x.tree = t /\ x.boot = boot[m] =>
                         x.sn \in Nat /\ x.sn <= LastSent(n, m, t)
  BY DEF LastSentIsGreatest
<1> DEFINE W == {x \in SequencedFrom(n, m) : x.tree = t /\ x.boot = boot[m]}
           S == {0} \cup {x.sn : x \in W}
<1>1. boot[m] \in Nat /\ sequencer[m] \in Nat
  BY DEF LastSentHypothesis
<1>2. ASSUME NEW x \in W PROVE x.sn \in Nat /\ x.sn <= sequencer[m]
  <2>1. x.sn \in Nat
    BY DEF SequencedFrom, LastSentHypothesis, InterestMsgs, UpstreamMsgs, HelloMsgs, SyncMsgs
  <2>2. Past(boot, sequencer, m, boot[m], x.sn)
    BY DEF LastSentHypothesis, WordsArePast
  <2> QED
    BY <1>1, <2>1, <2>2 DEF Past
<1>3. LastSent(n, m, t) = Max(S)
  BY DEF LastSent
<1> HIDE DEF W
<1>4. S \in SUBSET Nat /\ S # {} /\ \A k \in S : k <= sequencer[m]
  BY <1>1, <1>2
<1>5. \A x \in W : x.sn \in S
  OBVIOUS
<1> HIDE DEF S
<1>6. Max(S) \in S /\ \A k \in S : k <= Max(S)
  BY ONLY <1>1, <1>4, GreatestNumber
<1> QED
  BY <1>2, <1>3, <1>4, <1>5, <1>6 DEF W

LEMMA LastSentBoundsNext == LastSentHypothesis' => LastSentIsGreatest'
BY LastSentBounds, PTL

\* Nobody says anything new.
NoNewWord == NoNewUpstream /\ UNCHANGED interests

LEMMA WordsRest ==
  ASSUME NoNewWord, NEW n, NEW m
  PROVE  /\ SequencedFrom(n, m)' = SequencedFrom(n, m)
         /\ \A t : boot'[m] = boot[m] => LastSent(n, m, t)' = LastSent(n, m, t)
<1>1. SequencedFrom(n, m)' = SequencedFrom(n, m)
  BY DEF NoNewWord, NoNewUpstream, SequencedFrom
<1>2. ASSUME NEW t, boot'[m] = boot[m]
      PROVE  LastSent(n, m, t)' = LastSent(n, m, t)
  BY <1>1, <1>2 DEF LastSent
<1> QED
  BY <1>1, <1>2

LEMMA WordsStayPast ==
  ASSUME TransmissionTypeInv, WordsArePast, ClocksGoOn,
         \A n, m \in Routers : \A x \in SequencedFrom(n, m)' :
           x \in SequencedFrom(n, m) \/ Past(boot', sequencer', m, x.boot, x.sn)
  PROVE  WordsArePast'
<1>1. ASSUME NEW n \in Routers, NEW m \in Routers, NEW x \in SequencedFrom(n, m)'
      PROVE  Past(boot', sequencer', m, x.boot, x.sn)
  <2>1. SUFFICES ASSUME x \in SequencedFrom(n, m) PROVE Past(boot', sequencer', m, x.boot, x.sn)
    OBVIOUS
  <2>2. x.boot \in Nat /\ x.sn \in Nat
    BY <2>1, SequencedTypes DEF TransmissionTypeInv, TransmissionTypeOK
  <2> QED
    BY <2>1, <2>2 DEF WordsArePast, ClocksGoOn
<1> QED
  BY <1>1 DEF WordsArePast, Past

\* A CheckpointSN is never ahead.
LEMMA HellosStayPast ==
  ASSUME TransmissionPairInv, TransmissionPairInv', HellosArePast, ClocksGoOn,
         SendHellos \/ UNCHANGED hellos
  PROVE  HellosArePast'
<1>1. CheckpointIsBehind'
  <2>1. (TransmissionPairInv => CheckpointHypothesis)'
    BY InvParts, PTL
  <2> QED
    BY <2>1, CheckpointBoundsNext
<1>2. ASSUME NEW h \in hellos'
      PROVE  Past(boot', sequencer', h.src, h.boot, h.checkpoint_sn)
  <2>1. CASE h \in hellos
    <3>1. h.src \in Routers /\ h.boot \in Nat /\ h.checkpoint_sn \in Nat
      BY <2>1 DEF TransmissionPairInv, TransmissionTypeInv, TransmissionTypeOK, CheckpointMsgs
    <3> QED
      BY <2>1, <3>1 DEF HellosArePast, ClocksGoOn
  <2>2. ASSUME NEW n \in Routers, h = CheckpointHello(n)'
        PROVE  Past(boot', sequencer', h.src, h.boot, h.checkpoint_sn)
    <3>1. h.src = n /\ h.boot = boot'[n] /\ h.checkpoint_sn = CheckpointSN(n)'
      BY <2>2 DEF CheckpointHello
    <3>2. CheckpointSN(n)' <= sequencer'[n]
      BY <1>1 DEF CheckpointIsBehind
    <3> QED
      BY <3>1, <3>2 DEF Past
  <2> QED
    BY <2>1, <2>2 DEF SendHellos
<1> QED
  BY <1>2 DEF HellosArePast, Past

-----------------------------------------------------------------------------
(* Debts: the last word of m about t, for n *)

\* Buffer b waits for n's Ack of the message with number L.
Debt(b, n, L) ==
  \/ b.multicast # Nothing /\ n \notin b.neighbors_that_acked /\ b.multicast.sn = L
  \/ b.unicast[n] # Nothing /\ b.unicast[n].sn = L

\* m has no reason to wait: its snapshot for n covers the last word, or an Ack
\* does that m would accept.
Settled(n, m, t) ==
  \/ LastSent(n, m, t) <= nbr[m][n].my_snapshot_sequencer
  \/ \E p \in acks : /\ p.src = n /\ p.dst = m /\ p.tree = t
                     /\ MatchesSnapshots(nbr[m][n], p) /\ LastSent(n, m, t) <= p.sn

\* m's snapshot for n is of m's present BootTime.
Current(n, m) ==
  nbr[m][n].state # "Absent" /\ nbr[m][n].my_snapshot_boot_time = boot[m]

OwedOrSettled ==
  \A n, m \in Routers : \A t \in Trees :
    Current(n, m) => Debt(buffer[m][t], n, LastSent(n, m, t)) \/ Settled(n, m, t)

CheckpointsAreSettled ==
  \A h \in hellos : \A n \in Routers : \A t \in Trees :
    /\ Current(n, h.src) /\ h.boot = boot[h.src]
    /\ LastSent(n, h.src, t) <= h.checkpoint_sn
    => Settled(n, h.src, t)

\* What a step does to the debt of n: there is none any more; there is a new one;
\* it stays, or is settled.
IsFree(n, m, t) == ~Current(n, m)' \/ Settled(n, m, t)'
Incurs(n, m, t) ==
  /\ boot'[m] = boot[m] /\ LastSent(n, m, t)' > sequencer[m]
  /\ Debt(buffer'[m][t], n, LastSent(n, m, t)')
Owes(n, m, t) ==
  /\ Current(n, m) /\ boot'[m] = boot[m] /\ LastSent(n, m, t)' = LastSent(n, m, t)
  /\ Settled(n, m, t) => Settled(n, m, t)'
  /\ Debt(buffer[m][t], n, LastSent(n, m, t)) =>
       Debt(buffer'[m][t], n, LastSent(n, m, t)) \/ Settled(n, m, t)'

DebtOutcome(n, m, t) == IsFree(n, m, t) \/ Incurs(n, m, t) \/ Owes(n, m, t)
DebtOutcomes == \A n, m \in Routers : \A t \in Trees : DebtOutcome(n, m, t)

LEMMA OutcomesKeepDebts ==
  ASSUME TransmissionPairInv, TransmissionPairInv', WordsArePast', HellosArePast,
         OwedOrSettled, CheckpointsAreSettled, SendHellos \/ UNCHANGED hellos, DebtOutcomes
  PROVE  OwedOrSettled' /\ CheckpointsAreSettled'
<1>1. ASSUME NEW n \in Routers, NEW m \in Routers, NEW t \in Trees
      PROVE  Current(n, m)' =>
               Debt(buffer'[m][t], n, LastSent(n, m, t)') \/ Settled(n, m, t)'
  BY DEF DebtOutcomes, DebtOutcome, IsFree, Incurs, Owes, OwedOrSettled
<1>3. OwedOrSettled'
  BY <1>1 DEF OwedOrSettled, Debt
<1>4. CheckpointIsBehind' /\ LastSentIsGreatest'
  <2>1. (TransmissionPairInv => CheckpointHypothesis)'
    BY InvParts, PTL
  <2>2. LastSentHypothesis'
    BY DEF LastSentHypothesis, TransmissionPairInv, TransmissionTypeInv,
           TransmissionTypeOK, TypeOK
  <2> QED
    BY <2>1, <2>2, CheckpointBoundsNext, LastSentBoundsNext
<1>5. ASSUME NEW h \in hellos', NEW n \in Routers, NEW t \in Trees,
             Current(n, h.src)', h.boot = boot'[h.src],
             LastSent(n, h.src, t)' <= h.checkpoint_sn
      PROVE  Settled(n, h.src, t)'
  <2>1. CASE h \in hellos
    <3> DEFINE m == h.src
    <3>1. m \in Routers /\ h.boot \in Nat /\ h.checkpoint_sn \in Nat
      BY <2>1 DEF TransmissionPairInv, TransmissionTypeInv, TransmissionTypeOK, CheckpointMsgs
    <3>2. ~Incurs(n, m, t)
      <4>1. SUFFICES ASSUME Incurs(n, m, t) PROVE FALSE
        OBVIOUS
      <4>2. Past(boot, sequencer, m, boot[m], h.checkpoint_sn)
        BY <1>5, <2>1, <4>1 DEF HellosArePast, Incurs
      <4>3. boot[m] \in Nat /\ sequencer[m] \in Nat /\ LastSent(n, m, t)' \in Nat
        BY <1>4, <3>1 DEF LastSentIsGreatest, TransmissionPairInv, TransmissionTypeInv,
                          TransmissionTypeOK, TypeOK
      <4>4. h.checkpoint_sn <= sequencer[m] /\ LastSent(n, m, t)' > sequencer[m]
        BY <4>1, <4>2, <4>3 DEF Past, Incurs
      <4> QED
        BY <1>5, <3>1, <4>3, <4>4
    <3>3. CASE IsFree(n, m, t)
      BY <1>5, <3>3 DEF IsFree
    <3>4. CASE Owes(n, m, t)
      BY <1>5, <2>1, <3>4 DEF Owes, CheckpointsAreSettled
    <3> QED
      BY <3>1, <3>2, <3>3, <3>4 DEF DebtOutcomes, DebtOutcome
  <2>2. ASSUME NEW m \in Routers, h = CheckpointHello(m)'
        PROVE  Settled(n, h.src, t)'
    <3>1. h.src = m /\ h.checkpoint_sn = CheckpointSN(m)'
      BY <2>2 DEF CheckpointHello
    <3>2. ~Debt(buffer'[m][t], n, LastSent(n, m, t)')
      <4>1. SUFFICES ASSUME Debt(buffer'[m][t], n, LastSent(n, m, t)') PROVE FALSE
        OBVIOUS
      <4>2. PICK x \in Pending(buffer'[m][t]) : x.sn = LastSent(n, m, t)'
        BY <4>1 DEF Debt, Pending
      <4>3. CheckpointSN(m)' < x.sn
        BY <1>4, <4>2 DEF CheckpointIsBehind, Pending
      <4>4. CheckpointSN(m)' \in Nat /\ LastSent(n, m, t)' \in Nat
        BY <1>4 DEF CheckpointIsBehind, LastSentIsGreatest
      <4> QED
        BY <1>5, <3>1, <4>2, <4>3, <4>4
    <3> QED
      BY <1>1, <1>5, <3>1, <3>2
  <2> QED
    BY <2>1, <2>2 DEF SendHellos
<1>6. CheckpointsAreSettled'
  BY <1>5 DEF CheckpointsAreSettled
<1> QED
  BY <1>3, <1>6

\* While m's object for n goes on and nothing is said, what is settled stays so.
LEMMA SettledStays ==
  ASSUME NEW n, NEW m, NEW t, NoNewWord, boot'[m] = boot[m], acks \subseteq acks',
         Evolves(nbr'[m][n], nbr[m][n]), Settled(n, m, t),
         nbr[m][n] \in Neighbor
  PROVE  Settled(n, m, t)'
<1> DEFINE r == nbr[m][n]
           r2 == nbr'[m][n]
<1>1. LastSent(n, m, t)' = LastSent(n, m, t)
  BY WordsRest
<1>2. \A p : MatchesSnapshots(r, p) => MatchesSnapshots(r2, p)
  BY DEF MatchesSnapshots, Evolves
<1>3. r2.my_snapshot_sequencer = r.my_snapshot_sequencer
  BY DEF Evolves
<1> QED
  BY <1>1, <1>2, <1>3 DEF Settled, MatchesSnapshots

LEMMA QuietOutcome ==
  ASSUME NEW n \in Routers, NEW m \in Routers, NEW t \in Trees, TypeOK, NoNewWord,
         boot'[m] = boot[m], acks \subseteq acks',
         nbr'[m][n] = NoNeighbor \/ Evolves(nbr'[m][n], nbr[m][n]),
         Current(n, m) /\ Debt(buffer[m][t], n, LastSent(n, m, t)) =>
           Debt(buffer'[m][t], n, LastSent(n, m, t)) \/ Settled(n, m, t) \/ Settled(n, m, t)'
  PROVE  DebtOutcome(n, m, t)
<1>1. CASE nbr'[m][n] = NoNeighbor
  BY <1>1 DEF DebtOutcome, IsFree, Current, NoNeighbor
<1>2. CASE Evolves(nbr'[m][n], nbr[m][n])
  <2>1. Current(n, m)' => Current(n, m)
    BY <1>2 DEF Current, Evolves
  <2>2. Settled(n, m, t) => Settled(n, m, t)'
    BY <1>2, SettledStays, NeighborTypes
  <2>3. LastSent(n, m, t)' = LastSent(n, m, t)
    BY WordsRest
  <2> QED
    BY <2>1, <2>2, <2>3 DEF DebtOutcome, IsFree, Owes
<1> QED
  BY <1>1, <1>2

\* An Ack of m does not touch what another neighbor owes.
LEMMA AckedByKeepsDebts ==
  ASSUME NEW b \in Buffer, NEW m \in Routers, NEW bt, NEW sn, NEW neighbors,
         NEW n \in neighbors, n \in Routers, n # m, NEW L, Debt(b, n, L)
  PROVE  Debt(AckedBy(b, m, bt, sn, neighbors), n, L)
<1> DEFINE noted == [b EXCEPT !.neighbors_that_acked = @ \cup {m}]
           c == CancelMulticast(noted)
<1>1. PICK b1 \in {b, noted, c} :
        /\ AckedBy(b, m, bt, sn, neighbors) \in {b1, CancelUnicast(b1, m)}
        /\ b1 \in {b, noted} \/ AllAcked(noted, neighbors)
  BY DEF AckedBy
<1>2. /\ noted.multicast = b.multicast /\ noted.unicast = b.unicast
      /\ noted.neighbors_that_acked = b.neighbors_that_acked \cup {m}
      /\ noted \in Buffer
  BY DEF Buffer
<1> HIDE DEF noted
<1>3. c.unicast = b.unicast /\ c \in Buffer
  BY <1>2, CancelMulticastShrinks DEF CancelMulticast, Buffer, Shrinks
<1> HIDE DEF c
<1>4. Debt(b1, n, L) /\ b1 \in Buffer
  BY <1>1, <1>2, <1>3 DEF Debt, AllAcked
<1>5. Debt(CancelUnicast(b1, m), n, L)
  BY <1>4 DEF Debt, CancelUnicast, Buffer
<1> QED
  BY <1>1, <1>4, <1>5

\* Nor does an Ack of n itself that does not cover the message.
LEMMA UncoveredDebtStays ==
  ASSUME NEW b \in Buffer, NEW n \in Routers, NEW bt \in Nat, NEW sn \in Nat, NEW neighbors,
         NEW L \in Nat, Debt(b, n, L), sn < L, \A x \in Pending(b) : x.boot = bt
  PROVE  Debt(AckedBy(b, n, bt, sn, neighbors), n, L)
<1> DEFINE noted == [b EXCEPT !.neighbors_that_acked = @ \cup {n}]
           c == CancelMulticast(noted)
<1>1. PICK b1 \in {b, noted, c} :
        /\ AckedBy(b, n, bt, sn, neighbors) \in {b1, CancelUnicast(b1, n)}
        /\ AckedBy(b, n, bt, sn, neighbors) # b1 =>
             b.unicast[n] # Nothing /\ Covers(bt, sn, b.unicast[n])
        /\ b1 # b => b.multicast # Nothing /\ Covers(bt, sn, b.multicast)
  BY DEF AckedBy
<1>2. /\ noted.unicast = b.unicast /\ noted \in Buffer
  BY DEF Buffer
<1> HIDE DEF noted
<1>3. c.unicast = b.unicast /\ c \in Buffer
  BY <1>2, CancelMulticastShrinks DEF CancelMulticast, Buffer, Shrinks
<1> HIDE DEF c
<1>4. \A x \in Pending(b) : x.sn = L => ~Covers(bt, sn, x)
  BY DEF Covers
<1>5. CASE b.multicast # Nothing /\ n \notin b.neighbors_that_acked /\ b.multicast.sn = L
  <2>1. b1 = b
    BY <1>1, <1>4, <1>5 DEF Pending
  <2>2. Debt(CancelUnicast(b, n), n, L)
    BY <1>5 DEF Debt, CancelUnicast, Buffer
  <2> QED
    BY <1>1, <2>1, <2>2
<1>6. CASE b.unicast[n] # Nothing /\ b.unicast[n].sn = L
  <2>1. b1.unicast = b.unicast
    BY <1>1, <1>2, <1>3
  <2>2. AckedBy(b, n, bt, sn, neighbors) = b1
    BY <1>1, <1>4, <1>6 DEF Pending
  <2> QED
    BY <1>6, <2>1, <2>2 DEF Debt
<1> QED
  BY <1>5, <1>6 DEF Debt

\* The timer forgets the debts of who is no neighbor any more, and no others.
LEMMA RecheckedKeepsDebts ==
  ASSUME NEW m \in Routers, NEW b \in Buffer, NEW n \in Neighbors(m), NEW L, Debt(b, n, L)
  PROVE  Debt(Rechecked(m, b), n, L)
<1> DEFINE b1 == RecheckedMulticast(m, b)
           gone == {o \in Routers \ Neighbors(m) : b.unicast[o] # Nothing}
<1>1. n \in Routers
  BY DEF Neighbors
<1>2. Debt(b1, n, L) /\ b1 \in Buffer
  <2>1. CASE b1 = b
    BY <2>1
  <2>2. CASE b1 = CancelMulticast(b) /\ AllAcked(b, Neighbors(m))
    <3>1. b.unicast[n] # Nothing /\ b.unicast[n].sn = L
      BY <2>2 DEF Debt, AllAcked
    <3>2. b1 \in Buffer
      BY <2>2, CancelMulticastShrinks DEF Shrinks
    <3>3. b1.unicast = b.unicast
      BY <2>2 DEF CancelMulticast, Buffer
    <3> HIDE DEF b1
    <3> QED
      BY <3>1, <3>2, <3>3 DEF Debt
  <2> QED
    BY <2>1, <2>2 DEF RecheckedMulticast
<1> HIDE DEF b1
<1>3. n \notin gone
  OBVIOUS
<1> HIDE DEF gone
<1> DEFINE b2 == [b1 EXCEPT
                    !.unicast = [o \in Routers |-> IF o \in gone THEN Nothing ELSE @[o]],
                    !.failed_acks = [o \in Routers |-> IF o \in gone THEN 0 ELSE @[o]]]
<1>4. Rechecked(m, b) = b2
  BY DEF Rechecked, b1, gone
<1>5. /\ b2.multicast = b1.multicast /\ b2.unicast[n] = b1.unicast[n]
      /\ b2.neighbors_that_acked = b1.neighbors_that_acked
  BY <1>1, <1>2, <1>3 DEF Buffer
<1> HIDE DEF b2
<1> QED
  BY <1>2, <1>4, <1>5 DEF Debt

-----------------------------------------------------------------------------
(* What each action does to objects, debts and words *)

Effects ==
  /\ ObjectOutcomes /\ DebtOutcomes /\ WordsArePast' /\ ClocksGoOn
  /\ msgs \subseteq msgs' /\ interests \subseteq interests' /\ acks \subseteq acks'
  /\ \A p \in acks' : p \in acks \/ GoodAck(p)'

LEMMA RestingObject ==
  ASSUME NEW n, NEW m, nbr'[n][m] = nbr[n][m], checkpoint_sn'[n][m] = checkpoint_sn[n][m],
         delivered'[n][m] = delivered[n][m]
  PROVE  ObjectOutcome(n, m)
BY EvolvesAlong DEF ObjectOutcome, GoesOn, Rests

\* Where the variables are functions of the routers.
LEMMA FunctionTypes ==
  ASSUME TransmissionPairInv
  PROVE  /\ boot \in [Routers -> Nat] /\ sequencer \in [Routers -> Nat]
         /\ nbr \in [Routers -> [Routers -> Neighbor]]
         /\ buffer \in [Routers -> [Trees -> Buffer]]
         /\ checkpoint_sn \in [Routers -> [Routers -> Nat]]
         /\ delivered \in [Routers -> [Routers -> [Trees -> Nat]]]
BY DEF TransmissionPairInv, TransmissionTypeInv, TransmissionTypeOK, TypeOK

LEMMA QuietWords ==
  ASSUME TransmissionPairInv, WordsArePast, NoNewWord, ClocksGoOn
  PROVE  WordsArePast'
<1>1. \A n, m \in Routers : SequencedFrom(n, m)' = SequencedFrom(n, m)
  BY WordsRest
<1> QED
  BY <1>1, InvParts, WordsStayPast

LEMMA WordsAreBounded ==
  ASSUME TransmissionPairInv', WordsArePast'
  PROVE  LastSentIsGreatest'
<1>1. LastSentHypothesis'
  BY DEF LastSentHypothesis, TransmissionPairInv, TransmissionTypeInv,
         TransmissionTypeOK, TypeOK
<1> QED
  BY <1>1, LastSentBoundsNext

\* A new BootTime of m leaves none of its snapshots current but the newest.
LEMMA WrapFrees ==
  ASSUME TransmissionPairInv, NEW n \in Routers, NEW m \in Routers, NEW t,
         GetSequenceNumber(m), Wraps(m), nbr'[m][n] = nbr[m][n]
  PROVE  IsFree(n, m, t)
<1> DEFINE r == nbr[m][n]
<1>1. /\ boot[m] \in Nat /\ r \in Neighbor /\ TypeOK /\ Agreement
  BY InvParts, NeighborTypes DEF TypeOK
<1>2. boot'[m] = boot[m] + 1
  BY <1>1, TickIsSeen DEF NextBootTime
<1>3. r.state # "Absent" => Past(boot, sequencer, m, r.my_snapshot_boot_time, r.my_snapshot_sequencer)
  BY <1>1 DEF Agreement, ObjectsArePast
<1>4. r.my_snapshot_boot_time \in Nat
  BY <1>1, ObjectNumbers
<1>5. r.state # "Absent" => r.my_snapshot_boot_time # boot'[m]
  BY <1>1, <1>2, <1>3, <1>4 DEF Past
<1> QED
  BY <1>5 DEF IsFree, Current

\* The snapshot that m takes for n0: n0 owes nothing any more, the others go on owing.
LEMMA SnapshotDebts ==
  ASSUME TransmissionPairInv, TransmissionPairInv', WordsArePast', NoNewWord,
         NEW m \in Routers, NEW n0 \in Routers, NEW r2,
         GetSequenceNumber(m), SetNeighbor(m, n0, r2), Restarted(m, r2),
         SnapshotAcks(m, n0), UNCHANGED acks,
         NEW n \in Routers, NEW t \in Trees
  PROVE  DebtOutcome(n, m, t)
<1>1. TypeOK /\ nbr \in [Routers -> [Routers -> Neighbor]]
  BY InvParts, FunctionTypes
<1>2. sequencer'[m] = NextSequenceNumber(m) /\ boot'[m] = NextBootTime(m)
  BY <1>1, TickIsSeen
<1>3. CASE n = n0
  <2>1. nbr'[m][n] = r2
    BY <1>1, <1>3 DEF SetNeighbor
  <2>2. LastSent(n, m, t)' <= sequencer'[m]
    BY WordsAreBounded DEF LastSentIsGreatest
  <2>3. LastSent(n, m, t)' <= nbr'[m][n].my_snapshot_sequencer
    BY <1>2, <2>1, <2>2 DEF Restarted
  <2> QED
    BY <2>3 DEF DebtOutcome, IsFree, Settled
<1>4. CASE n # n0
  <2>1. nbr'[m][n] = nbr[m][n]
    BY <1>1, <1>4 DEF SetNeighbor
  <2>2. CASE Wraps(m)
    BY <2>1, <2>2, WrapFrees DEF DebtOutcome
  <2>3. CASE ~Wraps(m)
    <3>1. boot'[m] = boot[m] /\ Renumbered(m) = buffer[m]
      BY <1>2, <2>3 DEF NextBootTime, Renumbered
    <3>2. buffer'[m][t] = AckedBy(buffer[m][t], n0, NextBootTime(m), NextSequenceNumber(m),
                                  Neighbors(m) \cup {n0})
      BY <3>1, FunctionTypes DEF SnapshotAcks
    <3>3. buffer[m][t] \in Buffer
      BY FunctionTypes
    <3>4. Current(n, m) => n \in Neighbors(m) \cup {n0}
      BY DEF Current, Neighbors
    <3>5. Current(n, m) /\ Debt(buffer[m][t], n, LastSent(n, m, t)) =>
            Debt(buffer'[m][t], n, LastSent(n, m, t))
      BY <1>4, <3>2, <3>3, <3>4, AckedByKeepsDebts
    <3> QED
      BY <1>1, <2>1, <3>1, <3>5, QuietOutcome, EvolvesAlong
  <2> QED
    BY <2>2, <2>3
<1> QED
  BY <1>3, <1>4

\* The debt of n stays when m's objects do and m says nothing about t to n.
LEMMA UnmovedDebt ==
  ASSUME NEW m \in Routers, NEW n \in Routers, NEW t \in Trees,
         boot'[m] = boot[m], nbr'[m] = nbr[m], acks \subseteq acks',
         \A x : x.tree = t => (x \in SequencedFrom(n, m)' <=> x \in SequencedFrom(n, m)),
         Debt(buffer[m][t], n, LastSent(n, m, t)) =>
           Debt(buffer'[m][t], n, LastSent(n, m, t))
  PROVE  DebtOutcome(n, m, t)
<1> DEFINE W == {x \in SequencedFrom(n, m) : x.tree = t /\ x.boot = boot[m]}
           W2 == {x \in SequencedFrom(n, m)' : x.tree = t /\ x.boot = boot'[m]}
<1>1. LastSent(n, m, t)' = LastSent(n, m, t)
  <2>1. W2 = W
    OBVIOUS
  <2>2. /\ LastSent(n, m, t) = Max({0} \cup {p.sn : p \in W})
        /\ LastSent(n, m, t)' = Max({0} \cup {p.sn : p \in W2})
    BY DEF LastSent
  <2> HIDE DEF W, W2
  <2> QED
    BY <2>1, <2>2
<1>2. Current(n, m)' <=> Current(n, m)
  BY DEF Current
<1>3. Settled(n, m, t) => Settled(n, m, t)'
  BY <1>1 DEF Settled, MatchesSnapshots
<1> QED
  BY <1>1, <1>2, <1>3 DEF DebtOutcome, IsFree, Owes

LEMMA ResetEffects ==
  ASSUME TransmissionPairInv, TransmissionPairInv', WordsArePast, NoNewWord,
         NEW n \in Routers, NEW m \in Routers, NEW r2,
         GetSequenceNumber(n), SetNeighbor(n, m, r2), Restarted(n, r2), AdjacencyStep(n, m)
  PROVE  Effects
<1>1. /\ TypeOK /\ ClocksGoOn /\ sequencer'[n] # sequencer[n]
      /\ \A o \in Routers : o # n => boot'[o] = boot[o]
  BY InvParts, ClocksTick, TickIsSeen
<1>2. SnapshotAcks(n, m) /\ ForgetNumbers(n, m) /\ UNCHANGED <<interests, acks>>
  BY <1>1 DEF AdjacencyStep
<1>3. WordsArePast'
  BY <1>1, QuietWords
<1>4. ASSUME NEW i \in Routers, NEW j \in Routers
      PROVE  ObjectOutcome(i, j)
  <2>1. CASE i = n /\ j = m
    <3>1. /\ nbr'[n][m] = r2 /\ checkpoint_sn'[n][m] = 0
          /\ delivered'[n][m] = [t \in Trees |-> 0]
      BY <1>2, FunctionTypes DEF SetNeighbor, ForgetNumbers
    <3> QED
      BY <2>1, <3>1 DEF ObjectOutcome, New, NoNumbers
  <2>2. CASE ~(i = n /\ j = m)
    <3>1. /\ nbr'[i][j] = nbr[i][j] /\ checkpoint_sn'[i][j] = checkpoint_sn[i][j]
          /\ delivered'[i][j] = delivered[i][j]
      BY <1>2, <2>2, FunctionTypes DEF SetNeighbor, ForgetNumbers
    <3> QED
      BY <3>1, RestingObject
  <2> QED
    BY <2>1, <2>2
<1>5. ASSUME NEW i \in Routers, NEW j \in Routers, NEW t \in Trees
      PROVE  DebtOutcome(j, i, t)
  <2>1. CASE i = n
    BY <1>2, <1>3, <2>1, SnapshotDebts
  <2>2. CASE i # n
    <3>1. nbr'[i] = nbr[i] /\ buffer'[i] = buffer[i] /\ boot'[i] = boot[i]
      BY <1>1, <1>2, <2>2, FunctionTypes DEF SetNeighbor, SnapshotAcks
    <3>2. SequencedFrom(j, i)' = SequencedFrom(j, i)
      BY WordsRest
    <3> QED
      BY <1>2, <3>1, <3>2, UnmovedDebt
  <2> QED
    BY <2>1, <2>2
<1>6. msgs \subseteq msgs'
  BY DEF NoNewWord, NoNewUpstream
<1> QED
  BY <1>1, <1>2, <1>3, <1>4, <1>5, <1>6 DEF Effects, ObjectOutcomes, DebtOutcomes

\* A step that takes no number, says no word and does not touch the buffers.
LEMMA QuietEffects ==
  ASSUME TransmissionPairInv, WordsArePast, NoNewWord, UNCHANGED <<boot, sequencer, buffer>>,
         acks \subseteq acks', \A p \in acks' : p \in acks \/ GoodAck(p)',
         ObjectOutcomes
  PROVE  Effects
<1>1. ClocksGoOn /\ TypeOK
  BY InvParts, ClocksRest
<1>2. ASSUME NEW n \in Routers, NEW m \in Routers, NEW t \in Trees
      PROVE  DebtOutcome(n, m, t)
  <2>1. ~New(m, n)
    BY <1>1, TickIsSeen DEF New
  <2>2. nbr'[m][n] = NoNeighbor \/ Evolves(nbr'[m][n], nbr[m][n])
    BY <2>1 DEF ObjectOutcomes, ObjectOutcome, Gone, GoesOn
  <2> QED
    BY <1>1, <2>2, QuietOutcome
<1> QED
  BY <1>1, <1>2, QuietWords DEF Effects, DebtOutcomes, NoNewWord, NoNewUpstream

LEMMA SynchronizeEffects ==
  ASSUME TransmissionPairInv, TransmissionPairInv', WordsArePast,
         NEW n \in Routers, NEW m \in Routers, Synchronize(n, m)
  PROVE  Effects
<1>1. TypeOK /\ AdjacencyStep(n, m) /\ UNCHANGED <<interests, acks>>
  BY InvParts DEF Synchronize, AdjacencyStep
<1>2. NoNewWord
  <2>1. Receive(n, m) \/ SyncTimeout(n, m) \/ RemoveNeighbor(n, m)
    BY DEF Synchronize, Receive
  <2> QED
    BY <1>1, <2>1, ReceiveKinds DEF NoNewWord, Silent, Counts
<1>3. CASE GetSequenceNumber(n) /\ \E r2 : SetNeighbor(n, m, r2) /\ Restarted(n, r2)
  BY <1>1, <1>2, <1>3, ResetEffects
<1>4. ASSUME UNCHANGED <<boot, sequencer>>, NEW r2, SetNeighbor(n, m, r2),
             \/ r2 = NoNeighbor
             \/ /\ nbr[n][m].state # "Absent"
                /\ Evolves(r2, nbr[n][m]) /\ SameNumbers(r2, nbr[n][m])
      PROVE  Effects
  <2>1. nbr'[n][m] = r2 /\ UNCHANGED buffer
    BY <1>1, <1>4, FunctionTypes DEF SetNeighbor, AdjacencyStep
  <2>2. ASSUME NEW i \in Routers, NEW j \in Routers
        PROVE  ObjectOutcome(i, j)
    <3>1. CASE i = n /\ j = m /\ r2 = NoNeighbor
      <4>1. ForgetNumbers(n, m)
        BY <1>1, <2>1, <3>1 DEF AdjacencyStep, NoNeighbor
      <4>2. checkpoint_sn'[n][m] = 0 /\ delivered'[n][m] = [t \in Trees |-> 0]
        BY <4>1, FunctionTypes DEF ForgetNumbers
      <4> QED
        BY <2>1, <3>1, <4>2 DEF ObjectOutcome, Gone, NoNumbers
    <3>2. CASE i = n /\ j = m /\ r2 # NoNeighbor
      <4>1. r2.state # "Absent"
        BY <1>4, <3>2 DEF Evolves
      <4>2. UNCHANGED <<checkpoint_sn, delivered>>
        BY <1>1, <1>4, <2>1, <4>1 DEF AdjacencyStep
      <4> QED
        BY <1>4, <2>1, <3>2, <4>2 DEF ObjectOutcome, GoesOn, Rests
    <3>3. CASE ~(i = n /\ j = m)
      <4>1. ForgetNumbers(n, m) \/ UNCHANGED <<checkpoint_sn, delivered>>
        BY <1>1 DEF AdjacencyStep
      <4>2. nbr'[i][j] = nbr[i][j]
        BY <1>4, <3>3, FunctionTypes DEF SetNeighbor
      <4>3. /\ checkpoint_sn'[i][j] = checkpoint_sn[i][j]
            /\ delivered'[i][j] = delivered[i][j]
        BY <3>3, <4>1, FunctionTypes DEF ForgetNumbers
      <4> QED
        BY <4>2, <4>3, RestingObject
    <3> QED
      BY <3>1, <3>2, <3>3
  <2> QED
    BY <1>1, <1>2, <1>4, <2>1, <2>2, QuietEffects DEF ObjectOutcomes
<1>5. Synchronizes(n, m)
  BY <1>1, SynchronizeKinds
<1> QED
  BY <1>3, <1>4, <1>5 DEF Synchronizes

LEMMA ReceivedResetEffects ==
  ASSUME TransmissionPairInv, TransmissionPairInv', WordsArePast,
         NEW n \in Routers, NEW m \in Routers, NEW b,
         AdjacencyReset(n, m, b), AdjacencyStep(n, m)
  PROVE  Effects
<1>1. GetSequenceNumber(n) /\ NoNewWord
  BY DEF AdjacencyReset, StartSnapshot, Send, Sync, NoNewWord, NoNewUpstream, AdjacencyStep
<1>2. Synchronizes(n, m)
  BY ResetRestarts
<1>3. sequencer'[n] # sequencer[n]
  BY <1>1, InvParts, TickIsSeen
<1>4. PICK r2 : SetNeighbor(n, m, r2) /\ Restarted(n, r2)
  BY <1>2, <1>3 DEF Synchronizes
<1> QED
  BY <1>1, <1>4, ResetEffects

LEMMA ToldEvolves ==
  ASSUME NEW r \in Neighbor, NEW p, p.tree \in Trees
  PROVE  /\ Evolves(Told(r, p), r)
         /\ Told(r, p).last_sequence_number = [r.last_sequence_number EXCEPT ![p.tree] = p.sn]
BY DEF Told, Neighbor, Evolves

LEMMA ReceiveSequencedEffects ==
  ASSUME TransmissionPairInv, TransmissionPairInv', WordsArePast, NumbersAreTrue,
         NEW n \in Routers, NEW m \in Routers, ReceiveSequenced(n, m)
  PROVE  Effects
<1> DEFINE r == nbr[n][m]
<1>1. TypeOK /\ r \in Neighbor /\ checkpoint_sn[n][m] \in Nat
      /\ delivered[n][m] \in [Trees -> Nat]
  BY InvParts, NeighborTypes, FunctionTypes
<1>2. PICK p \in SequencedFrom(n, m) :
        \/ AdjacencyReset(n, m, p.boot) /\ AdjacencyStep(n, m)
        \/ /\ r.state # "Absent" /\ p.boot = r.time_of_boot
           /\ IsAcknowledged(r, checkpoint_sn[n][m], p)
           /\ acks' = acks \cup {Ack(n, m, r, p)}
           /\ IF p.sn > r.last_sequence_number[p.tree]
              THEN Deliver(n, m, r, p) ELSE UNCHANGED <<nbr, delivered>>
           /\ UNCHANGED <<boot, sequencer, msgs, snapshots, buffer, interests, checkpoint_sn>>
  BY DEF ReceiveSequenced
<1>3. p.boot \in Nat /\ p.sn \in Nat /\ p.tree \in Trees
  BY <1>1, InvParts, SequencedTypes DEF TransmissionPart
<1>4. CASE AdjacencyReset(n, m, p.boot) /\ AdjacencyStep(n, m)
  BY <1>4, ReceivedResetEffects
<1>5. CASE /\ r.state # "Absent" /\ p.boot = r.time_of_boot
           /\ IsAcknowledged(r, checkpoint_sn[n][m], p)
           /\ acks' = acks \cup {Ack(n, m, r, p)}
           /\ IF p.sn > r.last_sequence_number[p.tree]
              THEN Deliver(n, m, r, p) ELSE UNCHANGED <<nbr, delivered>>
           /\ UNCHANGED <<boot, sequencer, msgs, snapshots, buffer, interests, checkpoint_sn>>
  <2>1. NoNewWord
    BY <1>5 DEF NoNewWord, NoNewUpstream
  <2>2. ObjectOutcomes /\ p.sn <= delivered'[n][m][p.tree]
    <3>1. CASE p.sn > r.last_sequence_number[p.tree]
      <4>1. /\ nbr' = [nbr EXCEPT ![n][m] = Told(r, p)]
            /\ delivered' = [delivered EXCEPT ![n][m][p.tree] = p.sn]
        BY <1>5, <3>1 DEF Deliver, Told, SetNeighbor
      <4>2. /\ nbr'[n][m] = Told(r, p)
            /\ delivered'[n][m] = [delivered[n][m] EXCEPT ![p.tree] = p.sn]
            /\ checkpoint_sn'[n][m] = checkpoint_sn[n][m]
        BY <1>5, <4>1, FunctionTypes
      <4>3. Evolves(nbr'[n][m], r) /\ Takes(n, m, p)
        BY <1>1, <1>3, <1>5, <3>1, <4>2, ToldEvolves DEF Takes, IsAcknowledged
      <4>4. \A i, j \in Routers : ~(i = n /\ j = m) =>
              /\ nbr'[i][j] = nbr[i][j] /\ checkpoint_sn'[i][j] = checkpoint_sn[i][j]
              /\ delivered'[i][j] = delivered[i][j]
        BY <1>5, <4>1, FunctionTypes
      <4>5. ObjectOutcomes
        BY <4>3, <4>4, RestingObject DEF ObjectOutcomes, ObjectOutcome, GoesOn
      <4>6. delivered'[n][m][p.tree] = p.sn
        BY <1>1, <1>3, <4>2
      <4> QED
        BY <1>3, <4>5, <4>6
    <3>2. CASE ~(p.sn > r.last_sequence_number[p.tree])
      <4>1. UNCHANGED <<nbr, delivered, checkpoint_sn>>
        BY <1>5, <3>2
      <4>2. ObjectOutcomes
        BY <4>1, RestingObject DEF ObjectOutcomes
      <4>3. /\ r.last_sequence_number[p.tree] \in Nat /\ r.neighbor_snapshot_sn \in Nat
            /\ delivered[n][m][p.tree] \in Nat
        BY <1>1, <1>3 DEF Neighbor
      <4>4. p.sn = r.last_sequence_number[p.tree] /\ p.sn > 0
        BY <1>3, <1>5, <3>2, <4>3 DEF IsAcknowledged
      <4>5. r.last_sequence_number[p.tree] = delivered[n][m][p.tree]
        BY <1>3, <4>4 DEF NumbersAreTrue, NumbersAreForgotten
      <4> QED
        BY <4>1, <4>2, <4>3, <4>4, <4>5
    <3> QED
      BY <3>1, <3>2
  <2>3. \A x \in acks' : x \in acks \/ GoodAck(x)'
    BY <1>5, <2>2, NewAckIsGood
  <2> QED
    BY <1>5, <2>1, <2>2, <2>3, QuietEffects
<1> QED
  BY <1>2, <1>4, <1>5

LEMMA ReceiveCheckpointEffects ==
  ASSUME TransmissionPairInv, WordsArePast,
         NEW n \in Routers, NEW m \in Routers, ReceiveCheckpoint(n, m)
  PROVE  Effects
<1> DEFINE r == nbr[n][m]
           Pruned(p) == [r EXCEPT !.last_sequence_number =
                           [t \in Trees |-> Forgotten(@[t], p.checkpoint_sn)]]
<1>1. /\ TypeOK /\ r \in Neighbor /\ hellos \subseteq CheckpointMsgs
  BY InvParts, NeighborTypes
<1>2. PICK p \in hellos :
        /\ p.src = m /\ p.boot = r.time_of_boot
        /\ p.checkpoint_sn > checkpoint_sn[n][m]
        /\ checkpoint_sn' = [checkpoint_sn EXCEPT ![n][m] = p.checkpoint_sn]
        /\ SetNeighbor(n, m, Pruned(p))
  BY DEF ReceiveCheckpoint
<1>3. /\ r.state = "Synced"
      /\ UNCHANGED <<boot, sequencer, mrt, msgs, snapshots, faults,
                     buffer, interests, acks, delivered>>
  BY DEF ReceiveCheckpoint
<1>4. p.checkpoint_sn \in Nat
  BY <1>1 DEF CheckpointMsgs
<1>5. /\ Evolves(Pruned(p), r)
      /\ Pruned(p).last_sequence_number =
           [t \in Trees |-> Forgotten(r.last_sequence_number[t], p.checkpoint_sn)]
  BY <1>1 DEF Neighbor, Evolves
<1> HIDE DEF Pruned
<1>6. nbr'[n][m] = Pruned(p) /\ checkpoint_sn'[n][m] = p.checkpoint_sn
  BY <1>2, FunctionTypes DEF SetNeighbor
<1>7. Evolves(nbr'[n][m], r) /\ Forgets(n, m, p)
  BY <1>2, <1>3, <1>4, <1>5, <1>6 DEF Forgets
<1>8. \A i, j \in Routers : ~(i = n /\ j = m) =>
        nbr'[i][j] = nbr[i][j] /\ checkpoint_sn'[i][j] = checkpoint_sn[i][j]
  BY <1>2, FunctionTypes DEF SetNeighbor
<1>9. ObjectOutcomes
  BY <1>3, <1>7, <1>8, RestingObject DEF ObjectOutcomes, ObjectOutcome, GoesOn
<1>10. NoNewWord
  BY <1>3 DEF NoNewWord, NoNewUpstream
<1> QED
  BY <1>3, <1>9, <1>10, QuietEffects

\* What m acknowledges or gives up in its buffer for t0, and the objects that it
\* forgets then.
LEMMA BufferEffects ==
  ASSUME TransmissionPairInv, WordsArePast, NEW m \in Routers, NEW t0 \in Trees, NEW b2,
         buffer' = [buffer EXCEPT ![m][t0] = b2],
         UNCHANGED <<boot, sequencer, msgs, interests, acks>>,
         \A i, j \in Routers : Gone(i, j) \/ (Evolves(nbr'[i][j], nbr[i][j]) /\ Rests(i, j)),
         \A n \in Routers : Current(n, m) /\ Debt(buffer[m][t0], n, LastSent(n, m, t0)) =>
           Debt(b2, n, LastSent(n, m, t0)) \/ Settled(n, m, t0)
  PROVE  Effects
<1>1. ClocksGoOn /\ TypeOK /\ NoNewWord
  BY InvParts, ClocksRest DEF NoNewWord, NoNewUpstream
<1>2. ObjectOutcomes
  BY DEF ObjectOutcomes, ObjectOutcome, GoesOn
<1>3. ASSUME NEW n \in Routers, NEW i \in Routers, NEW t \in Trees
      PROVE  DebtOutcome(n, i, t)
  <2>1. nbr'[i][n] = NoNeighbor \/ Evolves(nbr'[i][n], nbr[i][n])
    BY DEF Gone
  <2>2. buffer'[i][t] = IF i = m /\ t = t0 THEN b2 ELSE buffer[i][t]
    BY FunctionTypes
  <2>3. Current(n, i) /\ Debt(buffer[i][t], n, LastSent(n, i, t)) =>
          Debt(buffer'[i][t], n, LastSent(n, i, t)) \/ Settled(n, i, t)
    BY <2>2
  <2> QED
    BY <1>1, <2>1, <2>3, QuietOutcome
<1> QED
  BY <1>1, <1>2, <1>3, QuietWords DEF Effects, DebtOutcomes

LEMMA ReceiveAckEffects ==
  ASSUME TransmissionPairInv, TransmissionPairInv', WordsArePast,
         NEW n \in Routers, NEW m \in Routers, ReceiveAck(n, m)
  PROVE  Effects
<1> DEFINE r == nbr[n][m]
<1>1. TransmissionTypeInv /\ TransmissionPart /\ TypeOK /\ r \in Neighbor
  BY InvParts, NeighborTypes
<1>2. PICK p \in acks :
        /\ p.src = m /\ p.dst = n
        /\ \/ AdjacencyReset(n, m, p.boot) /\ AdjacencyStep(n, m)
           \/ /\ r.state # "Absent" /\ MatchesSnapshots(r, p)
              /\ buffer' = [buffer EXCEPT ![n][p.tree] =
                   AckedBy(@, m, p.neighbor_boot_time, p.sn, Neighbors(n))]
              /\ UNCHANGED <<boot, sequencer, nbr, msgs, snapshots,
                             interests, acks, checkpoint_sn, delivered>>
  BY DEF ReceiveAck
<1>3. /\ p.boot \in Nat /\ p.tree \in Trees /\ p.sn \in Nat /\ p.neighbor_boot_time \in Nat
  BY <1>1 DEF TransmissionPart, AckMsgs
<1>4. CASE AdjacencyReset(n, m, p.boot) /\ AdjacencyStep(n, m)
  BY <1>4, ReceivedResetEffects
<1>5. CASE /\ r.state # "Absent" /\ MatchesSnapshots(r, p)
           /\ buffer' = [buffer EXCEPT ![n][p.tree] =
                AckedBy(@, m, p.neighbor_boot_time, p.sn, Neighbors(n))]
           /\ UNCHANGED <<boot, sequencer, nbr, msgs, snapshots,
                          interests, acks, checkpoint_sn, delivered>>
  <2> DEFINE t0 == p.tree
             b == buffer[n][t0]
             b2 == AckedBy(b, m, p.neighbor_boot_time, p.sn, Neighbors(n))
  <2>1. buffer' = [buffer EXCEPT ![n][t0] = b2]
    BY <1>5
  <2>2. b \in Buffer
    BY <1>3, FunctionTypes
  <2>3. ASSUME NEW o \in Routers, Current(o, n), Debt(b, o, LastSent(o, n, t0))
        PROVE  Debt(b2, o, LastSent(o, n, t0)) \/ Settled(o, n, t0)
    <3>1. o \in Neighbors(n)
      BY <2>3 DEF Current, Neighbors
    <3>2. CASE o # m
      BY <1>3, <2>2, <2>3, <3>1, <3>2, AckedByKeepsDebts
    <3>3. CASE o = m /\ LastSent(o, n, t0) <= p.sn
      BY <1>2, <1>5, <3>3 DEF Settled
    <3>4. CASE o = m /\ ~(LastSent(o, n, t0) <= p.sn)
      <4>1. LastSent(o, n, t0) \in Nat
        <5>1. LastSentHypothesis
          BY <1>1 DEF LastSentHypothesis, TransmissionTypeInv, TransmissionTypeOK, TypeOK
        <5> QED
          BY <1>3, <5>1, LastSentBounds DEF LastSentIsGreatest
      <4>2. p.neighbor_boot_time = boot[n]
        BY <1>5, <2>3, <3>4 DEF Current, MatchesSnapshots
      <4>3. \A x \in Pending(b) : x.boot = p.neighbor_boot_time
        BY <1>1, <1>3, <4>2 DEF TransmissionTypeInv, OutstandingIsPast, Numbered
      <4>4. p.sn < LastSent(o, n, t0)
        BY <1>3, <3>4, <4>1
      <4> HIDE DEF b
      <4> QED
        BY <1>3, <2>2, <2>3, <3>4, <4>1, <4>3, <4>4, UncoveredDebtStays
    <3> QED
      BY <3>2, <3>3, <3>4
  <2> HIDE DEF b2
  <2>4. \A i, j \in Routers : Evolves(nbr'[i][j], nbr[i][j]) /\ Rests(i, j)
    BY <1>5, EvolvesAlong DEF Rests
  <2> QED
    BY <1>3, <1>5, <2>1, <2>3, <2>4, BufferEffects
<1> QED
  BY <1>2, <1>4, <1>5

LEMMA RetransmissionEffects ==
  ASSUME TransmissionPairInv, WordsArePast, NEW m \in Routers, NEW t0 \in Trees,
         RetransmissionTimeout(m, t0)
  PROVE  Effects
<1> DEFINE b == Rechecked(m, buffer[m][t0])
           missed == [o \in Routers |-> b.failed_acks[o] + (IF o \in Owing(m, b) THEN 1 ELSE 0)]
           failed == {o \in Routers : Failed(missed[o])}
           counts == [o \in Routers |-> IF o \in failed THEN 0 ELSE missed[o]]
           b2 == [b EXCEPT !.failed_acks = counts]
<1>1. /\ buffer' = [buffer EXCEPT ![m][t0] = b2]
      /\ nbr' = [nbr EXCEPT ![m] = [o \in Routers |-> IF o \in failed THEN NoNeighbor ELSE @[o]]]
      /\ checkpoint_sn' = [checkpoint_sn EXCEPT ![m] =
           [o \in Routers |-> IF o \in failed THEN 0 ELSE @[o]]]
      /\ delivered' = [delivered EXCEPT ![m] =
           [o \in Routers |-> IF o \in failed THEN [u \in Trees |-> 0] ELSE @[o]]]
      /\ UNCHANGED <<boot, sequencer, msgs, interests, acks>>
  BY DEF RetransmissionTimeout
<1>2. b \in Buffer
  BY FunctionTypes, RecheckedShrinks DEF Shrinks
<1>3. ASSUME NEW n \in Routers, Current(n, m), NEW L, Debt(buffer[m][t0], n, L)
      PROVE  Debt(b2, n, L)
  <2>1. Debt(b, n, L)
    BY <1>3, FunctionTypes, RecheckedKeepsDebts DEF Current, Neighbors
  <2> HIDE DEF b, counts
  <2>2. /\ b2.multicast = b.multicast /\ b2.unicast = b.unicast
        /\ b2.neighbors_that_acked = b.neighbors_that_acked
    BY <1>2 DEF Buffer
  <2> HIDE DEF b2
  <2> QED
    BY <2>1, <2>2 DEF Debt
<1> HIDE DEF b2, failed
<1>4. ASSUME NEW i \in Routers, NEW j \in Routers
      PROVE  Gone(i, j) \/ (Evolves(nbr'[i][j], nbr[i][j]) /\ Rests(i, j))
  <2>1. CASE i = m /\ j \in failed
    BY <1>1, <2>1, FunctionTypes DEF Gone, NoNumbers
  <2>2. CASE ~(i = m /\ j \in failed)
    <3>1. /\ nbr'[i][j] = nbr[i][j] /\ checkpoint_sn'[i][j] = checkpoint_sn[i][j]
          /\ delivered'[i][j] = delivered[i][j]
      BY <1>1, <2>2, FunctionTypes
    <3> QED
      BY <3>1, EvolvesAlong DEF Rests
  <2> QED
    BY <2>1, <2>2
<1> QED
  BY <1>1, <1>3, <1>4, BufferEffects

\* A new word of m is the last that it said.
LEMMA NewWordIsLast ==
  ASSUME TransmissionPairInv, TransmissionPairInv', WordsArePast',
         NEW m \in Routers, NEW n \in Routers, NEW t \in Trees,
         GetSequenceNumber(m), ~Wraps(m), NEW x \in SequencedFrom(n, m)',
         x.tree = t, x.boot = NextBootTime(m), x.sn = NextSequenceNumber(m)
  PROVE  /\ boot'[m] = boot[m] /\ NewMessage(m) # Nothing
         /\ LastSent(n, m, t)' = NewMessage(m).sn /\ LastSent(n, m, t)' > sequencer[m]
<1>1. /\ TypeOK /\ sequencer[m] \in Nat
      /\ sequencer'[m] = NextSequenceNumber(m) /\ boot'[m] = NextBootTime(m)
  BY InvParts, FunctionTypes, TickIsSeen
<1>2. boot'[m] = boot[m] /\ sequencer'[m] = sequencer[m] + 1
  BY <1>1 DEF NextBootTime, NextSequenceNumber
<1>3. /\ LastSent(n, m, t)' \in Nat /\ LastSent(n, m, t)' <= sequencer'[m]
      /\ x.sn <= LastSent(n, m, t)'
  BY <1>1, WordsAreBounded DEF LastSentIsGreatest
<1>4. LastSent(n, m, t)' = sequencer[m] + 1
  BY <1>1, <1>2, <1>3
<1>5. NewMessage(m).sn = sequencer[m] + 1
  BY <1>1, <1>2 DEF NewMessage
<1> QED
  BY <1>1, <1>2, <1>4, <1>5 DEF Nothing

LEMMA AnnounceEffects ==
  ASSUME TransmissionPairInv, TransmissionPairInv', WordsArePast,
         NEW m \in Routers, NEW t0 \in Trees, Announce(m, t0)
  PROVE  Effects
<1>1. PICK upstream \in BOOLEAN : SendUpstream(m, t0, upstream)
  BY DEF Announce, BecomeUpstream, StopUpstream
<1> DEFINE x == [type |-> "Upstream", src |-> m, boot |-> NextBootTime(m),
                 sn |-> NextSequenceNumber(m), tree |-> t0, upstream |-> upstream]
           b == [NoMessages EXCEPT !.multicast = NewMessage(m)]
<1>2. /\ GetSequenceNumber(m) /\ msgs' = msgs \cup {x}
      /\ buffer' = [buffer EXCEPT ![m] = [Renumbered(m) EXCEPT ![t0] = b]]
      /\ UNCHANGED <<nbr, interests, acks, checkpoint_sn, delivered>>
  BY <1>1 DEF SendUpstream, Send, Announce
<1>3. /\ TypeOK /\ ClocksGoOn
      /\ Past(boot', sequencer', m, NextBootTime(m), NextSequenceNumber(m))
      /\ \A o \in Routers : o # m => boot'[o] = boot[o]
  BY <1>2, InvParts, ClocksTick, TickIsSeen
<1>4. /\ x.type = "Upstream" /\ x.src = m /\ x.tree = t0
      /\ x.boot = NextBootTime(m) /\ x.sn = NextSequenceNumber(m)
  OBVIOUS
<1> HIDE DEF x
<1>5. \A n, i \in Routers :
        SequencedFrom(n, i)' = SequencedFrom(n, i) \cup (IF i = m THEN {x} ELSE {})
  BY <1>2, <1>4 DEF SequencedFrom
<1>6. WordsArePast'
  BY <1>3, <1>4, <1>5, InvParts, WordsStayPast
<1>7. ObjectOutcomes
  BY <1>2, RestingObject DEF ObjectOutcomes
<1>8. b.multicast = NewMessage(m) /\ b.neighbors_that_acked = {}
  BY DEF NoMessages
<1> HIDE DEF b
<1>9. ASSUME NEW n \in Routers, NEW i \in Routers, NEW t \in Trees
      PROVE  DebtOutcome(n, i, t)
  <2>1. CASE i # m
    <3>1. nbr'[i] = nbr[i] /\ buffer'[i] = buffer[i] /\ boot'[i] = boot[i]
      BY <1>2, <1>3, <2>1, FunctionTypes
    <3> QED
      BY <1>2, <1>5, <2>1, <3>1, UnmovedDebt
  <2>2. CASE i = m /\ Wraps(m)
    BY <1>2, <2>2, WrapFrees DEF DebtOutcome
  <2>3. CASE i = m /\ ~Wraps(m)
    <3>1. Renumbered(m) = buffer[m] /\ boot'[m] = boot[m]
      BY <1>2, <1>3, <2>3, TickIsSeen DEF Renumbered, NextBootTime
    <3>2. buffer'[m][t] = IF t = t0 THEN b ELSE buffer[m][t]
      BY <1>2, <3>1, FunctionTypes
    <3>3. CASE t = t0
      <4>1. x \in SequencedFrom(n, m)'
        BY <1>5
      <4>2. /\ NewMessage(m) # Nothing /\ LastSent(n, m, t)' = NewMessage(m).sn
            /\ LastSent(n, m, t)' > sequencer[m]
        BY <1>2, <1>4, <1>6, <2>3, <3>3, <4>1, NewWordIsLast
      <4>3. Debt(buffer'[m][t], n, LastSent(n, m, t)')
        BY <1>8, <3>2, <3>3, <4>2 DEF Debt
      <4> QED
        BY <2>3, <3>1, <4>2, <4>3 DEF DebtOutcome, Incurs
    <3>4. CASE t # t0
      BY <1>2, <1>4, <1>5, <2>3, <3>1, <3>2, <3>4, UnmovedDebt
    <3> QED
      BY <3>3, <3>4
  <2> QED
    BY <2>1, <2>2, <2>3
<1> QED
  BY <1>2, <1>3, <1>6, <1>7, <1>9 DEF Effects, DebtOutcomes

LEMMA SendInterestEffects ==
  ASSUME TransmissionPairInv, TransmissionPairInv', WordsArePast,
         NEW m \in Routers, NEW n0 \in Routers, NEW t0 \in Trees, SendInterest(m, n0, t0)
  PROVE  Effects
<1> DEFINE c == CancelUnicast(Renumbered(m)[t0], n0)
           b == [c EXCEPT !.unicast[n0] = NewMessage(m),
                          !.neighbors_that_acked =
                             IF c.multicast # Nothing THEN @ \cup {n0} ELSE @]
           x == [type |-> "Interest", src |-> m, dst |-> n0, boot |-> NextBootTime(m),
                 sn |-> NextSequenceNumber(m), tree |-> t0]
<1>1. /\ GetSequenceNumber(m) /\ interests' = interests \cup {x}
      /\ buffer' = [buffer EXCEPT ![m] = [Renumbered(m) EXCEPT ![t0] = b]]
      /\ UNCHANGED <<nbr, msgs, acks, checkpoint_sn, delivered>>
  BY DEF SendInterest
<1>2. /\ TransmissionTypeInv /\ TypeOK /\ ClocksGoOn
      /\ Past(boot', sequencer', m, NextBootTime(m), NextSequenceNumber(m))
      /\ \A o \in Routers : o # m => boot'[o] = boot[o]
  BY <1>1, InvParts, ClocksTick, TickIsSeen
<1>3. /\ x.type = "Interest" /\ x.src = m /\ x.dst = n0 /\ x.tree = t0
      /\ x.boot = NextBootTime(m) /\ x.sn = NextSequenceNumber(m)
  OBVIOUS
<1> HIDE DEF x
<1>4. \A n, i \in Routers :
        SequencedFrom(n, i)' =
          SequencedFrom(n, i) \cup (IF i = m /\ n = n0 THEN {x} ELSE {})
  BY <1>1, <1>3 DEF SequencedFrom
<1>5. WordsArePast'
  BY <1>2, <1>3, <1>4, InvParts, WordsStayPast
<1>6. ObjectOutcomes
  BY <1>1, RestingObject DEF ObjectOutcomes
<1>7. ASSUME NEW n \in Routers, NEW i \in Routers, NEW t \in Trees
      PROVE  DebtOutcome(n, i, t)
  <2>1. CASE i # m
    <3>1. nbr'[i] = nbr[i] /\ buffer'[i] = buffer[i] /\ boot'[i] = boot[i]
      BY <1>1, <1>2, <2>1, FunctionTypes
    <3> QED
      BY <1>1, <1>4, <2>1, <3>1, UnmovedDebt
  <2>2. CASE i = m /\ Wraps(m)
    BY <1>1, <2>2, WrapFrees DEF DebtOutcome
  <2>3. CASE i = m /\ ~Wraps(m)
    <3>1. Renumbered(m) = buffer[m] /\ boot'[m] = boot[m]
      BY <1>1, <1>2, <2>3, TickIsSeen DEF Renumbered, NextBootTime
    <3>2. /\ buffer'[m][t] = IF t = t0 THEN b ELSE buffer[m][t]
          /\ buffer[m][t] \in Buffer /\ c = CancelUnicast(buffer[m][t0], n0)
      BY <1>1, <3>1, FunctionTypes
    <3>3. c \in Buffer /\ buffer[m][t0] \in Buffer
      BY <3>2, FunctionTypes, CancelUnicastShrinks DEF Shrinks
    <3>4. CASE t = t0 /\ n = n0
      <4>1. x \in SequencedFrom(n, m)'
        BY <1>4, <3>4
      <4>2. /\ NewMessage(m) # Nothing /\ LastSent(n, m, t)' = NewMessage(m).sn
            /\ LastSent(n, m, t)' > sequencer[m]
        BY <1>1, <1>3, <1>5, <2>3, <3>4, <4>1, NewWordIsLast
      <4> HIDE DEF c
      <4>3. b.unicast[n0] = NewMessage(m)
        BY <3>3 DEF Buffer
      <4> HIDE DEF b
      <4>4. Debt(buffer'[m][t], n, LastSent(n, m, t)')
        BY <3>2, <3>4, <4>2, <4>3 DEF Debt
      <4> QED
        BY <2>3, <3>1, <4>2, <4>4 DEF DebtOutcome, Incurs
    <3>5. CASE t = t0 /\ n # n0
      <4> HIDE DEF c
      <4>1. /\ c.multicast = buffer[m][t0].multicast
            /\ c.neighbors_that_acked = buffer[m][t0].neighbors_that_acked
            /\ c.unicast[n] = buffer[m][t0].unicast[n]
        BY <3>2, <3>3, <3>5 DEF CancelUnicast, Buffer
      <4>2. /\ b.multicast = c.multicast
            /\ b.neighbors_that_acked \subseteq c.neighbors_that_acked \cup {n0}
            /\ b.unicast[n] = c.unicast[n]
        BY <3>3, <3>5 DEF Buffer
      <4> HIDE DEF b
      <4>3. Debt(buffer[m][t], n, LastSent(n, m, t)) =>
              Debt(buffer'[m][t], n, LastSent(n, m, t))
        BY <3>2, <3>5, <4>1, <4>2 DEF Debt
      <4> QED
        BY <1>1, <1>4, <2>3, <3>1, <3>5, <4>3, UnmovedDebt
    <3>6. CASE t # t0
      BY <1>1, <1>3, <1>4, <2>3, <3>1, <3>2, <3>6, UnmovedDebt
    <3> QED
      BY <3>4, <3>5, <3>6
  <2> QED
    BY <2>1, <2>2, <2>3
<1> QED
  BY <1>1, <1>2, <1>5, <1>6, <1>7 DEF Effects, DebtOutcomes

LEMMA RestartEffects ==
  ASSUME TransmissionPairInv, WordsArePast, NEW m \in Routers, NEW farewell \in BOOLEAN,
         RestartInterface(m, farewell)
  PROVE  Effects
<1>1. /\ Restart(m, farewell) /\ UNCHANGED <<interests, acks>>
      /\ nbr' = [nbr EXCEPT ![m] = [j \in Routers |-> NoNeighbor]]
      /\ boot' = [boot EXCEPT ![m] = @ + 1]
      /\ sequencer' = [sequencer EXCEPT ![m] = 0]
      /\ buffer' = [buffer EXCEPT ![m] = [t \in Trees |-> NoMessages]]
      /\ checkpoint_sn' = [checkpoint_sn EXCEPT ![m] = [j \in Routers |-> 0]]
      /\ delivered' = [delivered EXCEPT ![m] = [j \in Routers |-> [t \in Trees |-> 0]]]
  BY DEF RestartInterface, Restart
<1>2. NoNewWord
  BY <1>1 DEF NoNewWord, NoNewUpstream, Restart, Send, Farewell
<1>3. ClocksGoOn
  BY <1>1, FunctionTypes DEF ClocksGoOn, Past
<1>4. WordsArePast'
  BY <1>2, <1>3, QuietWords
<1>5. ASSUME NEW i \in Routers, NEW j \in Routers
      PROVE  ObjectOutcome(i, j)
  <2>1. CASE i = m
    BY <1>1, <2>1, FunctionTypes DEF ObjectOutcome, Gone, NoNumbers
  <2>2. CASE i # m
    BY <1>1, <2>2, FunctionTypes, RestingObject
  <2> QED
    BY <2>1, <2>2
<1>6. ASSUME NEW n \in Routers, NEW i \in Routers, NEW t \in Trees
      PROVE  DebtOutcome(n, i, t)
  <2>1. CASE i = m
    <3>1. nbr'[m][n] = NoNeighbor
      BY <1>1, FunctionTypes
    <3> QED
      BY <2>1, <3>1 DEF DebtOutcome, IsFree, Current, NoNeighbor
  <2>2. CASE i # m
    <3>1. nbr'[i] = nbr[i] /\ buffer'[i] = buffer[i] /\ boot'[i] = boot[i]
      BY <1>1, <2>2, FunctionTypes
    <3>2. SequencedFrom(n, i)' = SequencedFrom(n, i)
      BY <1>2, WordsRest
    <3> QED
      BY <1>1, <3>1, <3>2, UnmovedDebt
  <2> QED
    BY <2>1, <2>2
<1> QED
  BY <1>1, <1>2, <1>3, <1>4, <1>5, <1>6
     DEF Effects, ObjectOutcomes, DebtOutcomes, NoNewWord, NoNewUpstream

-----------------------------------------------------------------------------
(* The invariant *)

DeliveryInv ==
  /\ TransmissionPairInv
  /\ WordsArePast /\ HellosArePast
  /\ NumbersAreTrue /\ AcksAreTrue
  /\ OwedOrSettled /\ CheckpointsAreSettled

LEMMA DeliveryInvInit == TransmissionInit => DeliveryInv
<1> SUFFICES ASSUME TransmissionInit PROVE DeliveryInv
  OBVIOUS
<1>1. TransmissionPairInv /\ CheckpointIsBehind
  BY TransmissionPairInvInit, InvParts, CheckpointBounds
<1>2. /\ \A n, m \in Routers : nbr[n][m] = NoNeighbor /\ SequencedFrom(n, m) = {}
      /\ \A n, m \in Routers : checkpoint_sn[n][m] = 0
      /\ \A n, m \in Routers : delivered[n][m] = [t \in Trees |-> 0]
      /\ acks = {} /\ hellos = {CheckpointHello(n) : n \in Routers}
  BY DEF TransmissionInit, Init, SequencedFrom
<1>3. WordsArePast /\ AcksAreTrue
  BY <1>2 DEF WordsArePast, AcksAreTrue
<1>4. HellosArePast
  BY <1>1, <1>2 DEF HellosArePast, CheckpointHello, CheckpointIsBehind, Past
<1>5. NumbersAreTrue
  BY <1>2 DEF NumbersAreTrue, NumbersAreForgotten, DeliveredWasSent, CheckpointWasSent,
              NoNeighbor
<1>6. \A n, m \in Routers : ~Current(n, m)
  BY <1>2 DEF Current, NoNeighbor
<1>7. OwedOrSettled /\ CheckpointsAreSettled
  BY <1>1, <1>2, <1>6 DEF OwedOrSettled, CheckpointsAreSettled, CheckpointHello
<1> QED
  BY <1>1, <1>3, <1>4, <1>5, <1>7 DEF DeliveryInv

LEMMA StepEffects ==
  ASSUME TransmissionPairInv, TransmissionPairInv', WordsArePast, NumbersAreTrue,
         TransmissionStep(Routers)
  PROVE  Effects
<1>1. ASSUME NEW n \in Routers, NEW m \in Routers,
             \/ Synchronize(n, m) \/ ReceiveSequenced(n, m)
             \/ ReceiveAck(n, m) \/ ReceiveCheckpoint(n, m)
      PROVE  Effects
  BY <1>1, SynchronizeEffects, ReceiveSequencedEffects, ReceiveAckEffects,
     ReceiveCheckpointEffects
<1>2. ASSUME NEW n \in Routers, NEW m \in Routers, NEW t \in Trees, SendInterest(n, m, t)
      PROVE  Effects
  BY <1>2, SendInterestEffects
<1>3. ASSUME NEW n \in Routers, NEW t \in Trees,
             Announce(n, t) \/ RetransmissionTimeout(n, t)
      PROVE  Effects
  BY <1>3, AnnounceEffects, RetransmissionEffects
<1>4. ASSUME NEW n \in Routers, NEW farewell \in BOOLEAN, RestartInterface(n, farewell)
      PROVE  Effects
  BY <1>4, RestartEffects
<1> QED
  BY <1>1, <1>2, <1>3, <1>4 DEF TransmissionStep

LEMMA DeliveryInvNext ==
  DeliveryInv /\ [TransmissionNext]_allVars => DeliveryInv'
<1> SUFFICES ASSUME DeliveryInv, [TransmissionNext]_allVars PROVE DeliveryInv'
  OBVIOUS
<1>1. TransmissionPairInv'
  BY TransmissionPairInvNext DEF DeliveryInv
<1>2. Effects /\ (SendHellos \/ UNCHANGED hellos)
  <2>1. CASE TransmissionNext
    BY <1>1, <2>1, StepEffects DEF TransmissionNext, DeliveryInv
  <2>2. CASE UNCHANGED allVars
    <3>1. UNCHANGED vars /\ UNCHANGED transmission
      BY <2>2 DEF allVars, vars, transmission
    <3>2. NoNewWord /\ ObjectOutcomes
      BY <3>1, RestingObject
         DEF NoNewWord, NoNewUpstream, ObjectOutcomes, vars, transmission
    <3> QED
      BY <3>1, <3>2, QuietEffects DEF DeliveryInv, vars, transmission
  <2> QED
    BY <2>1, <2>2
<1>3. /\ WordsArePast' /\ ObjectOutcomes /\ DebtOutcomes /\ ClocksGoOn /\ PacketsStay
      /\ \A p \in acks' : p \in acks \/ GoodAck(p)'
  BY <1>2 DEF Effects, PacketsStay, SendHellos
<1>4. HellosArePast'
  BY <1>1, <1>2, <1>3, HellosStayPast DEF DeliveryInv
<1>5. /\ TransmissionTypeInv /\ TransmissionTypeInv'
  BY <1>1 DEF DeliveryInv, TransmissionPairInv
<1>6. NumbersAreTrue'
  BY <1>3, <1>5, OutcomesKeepNumbers DEF DeliveryInv
<1>7. AcksAreTrue'
  <2>1. \A p \in acks' : GoodAck(p)'
    BY <1>3, <1>5, OutcomesKeepAcks DEF DeliveryInv
  <2> QED
    BY <2>1 DEF AcksAreTrue
<1>8. OwedOrSettled' /\ CheckpointsAreSettled'
  BY <1>1, <1>2, <1>3, OutcomesKeepDebts DEF DeliveryInv
<1> QED
  BY <1>1, <1>3, <1>4, <1>6, <1>7, <1>8 DEF DeliveryInv

-----------------------------------------------------------------------------
(* What is settled was passed on *)

\* n has passed on the last word of m about t, or its snapshot of m covers it.
HasLastWord(n, m, t) ==
  \/ LastSent(n, m, t) <= nbr[n][m].neighbor_snapshot_sn
  \/ delivered[n][m][t] = LastSent(n, m, t)

LEMMA SettledIsPassed ==
  ASSUME DeliveryInv, NEW n \in Routers, NEW m \in Routers, NEW t \in Trees,
         HoldsPresentSnapshot(n, m), Settled(n, m, t)
  PROVE  HasLastWord(n, m, t)
<1> DEFINE r == nbr[n][m]
           q == nbr[m][n]
           L == LastSent(n, m, t)
<1>1. /\ TransmissionTypeInv /\ TypeOK /\ Agreement /\ LastSentIsGreatest
      /\ delivered[n][m] \in [Trees -> Nat]
  <2>1. TransmissionPairInv /\ WordsArePast
    BY DEF DeliveryInv
  <2>2. LastSentHypothesis
    BY <2>1 DEF LastSentHypothesis, TransmissionPairInv, TransmissionTypeInv,
                TransmissionTypeOK, TypeOK
  <2> QED
    BY <2>1, <2>2, InvParts, FunctionTypes, LastSentBounds
<1>2. /\ r.state = "Synced" /\ q.state # "Absent" /\ r.time_of_boot = boot[m]
      /\ q.my_snapshot_boot_time = boot[m]
      /\ r.neighbor_snapshot_sn = q.my_snapshot_sequencer
  BY DEF HoldsPresentSnapshot
<1>3. L \in Nat /\ delivered[n][m][t] \in Nat
  BY <1>1 DEF LastSentIsGreatest
<1>4. ASSUME NEW p \in acks, p.src = n, p.dst = m, p.tree = t, MatchesSnapshots(q, p),
             L <= p.sn
      PROVE  delivered[n][m][t] = L
  <2>1. /\ p.boot = q.time_of_boot /\ p.neighbor_boot_time = q.my_snapshot_boot_time
        /\ p.my_snapshot_sn = q.neighbor_snapshot_sn
        /\ p.neighbor_snapshot_sn = q.my_snapshot_sequencer
    BY <1>4 DEF MatchesSnapshots
  <2>2. PairObject(n, m, r, msgs) /\ PairObject(m, n, q, msgs)
    BY <1>1 DEF Agreement, PairObjects
  <2>3. r.my_snapshot_sequencer > 0 /\ q.my_snapshot_sequencer > 0
    BY <1>2, <2>2 DEF PairObject, NumberedObject
  <2>4. PICK y \in msgs : /\ SyncOf(y, m, n)
                          /\ OfSnapshot(y, r.time_of_boot, r.neighbor_snapshot_sn)
                          /\ y.neighbor_boot_time = r.my_snapshot_boot_time
                          /\ y.neighbor_snapshot_sn = r.my_snapshot_sequencer
    BY <1>2, <2>2 DEF PairObject, ConfirmedObject
  <2>5. \A z \in msgs : SyncOf(z, m, n)
             /\ OfSnapshot(z, q.my_snapshot_boot_time, q.my_snapshot_sequencer) =>
          /\ z.neighbor_boot_time = q.time_of_boot
          /\ z.neighbor_snapshot_sn \in {0, q.neighbor_snapshot_sn}
    BY <1>2, <2>2 DEF PairObject, LatestObject
  <2>6. /\ r.my_snapshot_boot_time = q.time_of_boot
        /\ r.my_snapshot_sequencer = q.neighbor_snapshot_sn
    BY <1>2, <2>3, <2>4, <2>5
  <2>7. ~StaleAck(p)
    <3>1. SUFFICES ASSUME StaleAck(p) PROVE FALSE
      OBVIOUS
    <3>2. PICK z \in msgs : /\ SyncOf(z, m, n)
                            /\ OfSnapshot(z, p.neighbor_boot_time, p.neighbor_snapshot_sn)
                            /\ z.neighbor_boot_time < p.boot
      BY <1>4, <3>1 DEF StaleAck
    <3>3. z.neighbor_boot_time = q.time_of_boot /\ z.neighbor_boot_time \in Nat
      BY <1>1, <2>1, <2>5, <3>2, SyncNumbers DEF TypeOK, SyncOf
    <3> QED
      BY <2>1, <3>2, <3>3
  <2>8. TrueAck(p)
    BY <2>1, <2>3, <2>7 DEF DeliveryInv, AcksAreTrue, GoodAck
  <2>9. p.sn <= delivered[n][m][t] /\ p.sn \in Nat
    <3>1. p.sn \in Nat
      BY <1>1 DEF TransmissionTypeInv, TransmissionTypeOK, AckMsgs
    <3> QED
      BY <1>2, <1>4, <2>1, <2>6, <2>8, <3>1 DEF TrueAck
  <2>10. delivered[n][m][t] <= L
    <3>1. CASE delivered[n][m][t] = 0
      BY <1>3, <3>1
    <3>2. CASE delivered[n][m][t] > 0
      <4>1. PICK x \in SequencedFrom(n, m) :
              x.tree = t /\ x.boot = r.time_of_boot /\ x.sn = delivered[n][m][t]
        BY <3>2 DEF DeliveryInv, NumbersAreTrue, DeliveredWasSent
      <4> QED
        BY <1>1, <1>2, <4>1 DEF LastSentIsGreatest
    <3> QED
      BY <1>3, <3>1, <3>2
  <2> QED
    BY <1>3, <1>4, <2>9, <2>10
<1> QED
  BY <1>2, <1>4 DEF Settled, HasLastWord

\* The first half of IsUpToDate, of SettledIsKnown ...
SettledHasLastWord ==
  \A n, m \in Routers : \A t \in Trees :
    HoldsPresentSnapshot(n, m) /\ n \notin Owing(m, buffer[m][t]) => HasLastWord(n, m, t)

\* ... and of CheckpointHidesNoNews.
CheckpointHidesLastWord ==
  \A n, m \in Routers : \A t \in Trees :
    HoldsPresentSnapshot(n, m) /\ LastSent(n, m, t) <= checkpoint_sn[n][m]
      => HasLastWord(n, m, t)

LEMMA DeliveryInvImpliesSettled == DeliveryInv => SettledHasLastWord
<1> SUFFICES ASSUME DeliveryInv, NEW n \in Routers, NEW m \in Routers, NEW t \in Trees,
                    HoldsPresentSnapshot(n, m), n \notin Owing(m, buffer[m][t])
             PROVE  HasLastWord(n, m, t)
  BY DEF SettledHasLastWord
<1>1. Current(n, m) /\ n \in Neighbors(m)
  BY DEF HoldsPresentSnapshot, Current, Neighbors
<1>2. ~Debt(buffer[m][t], n, LastSent(n, m, t))
  BY <1>1 DEF Owing, Debt
<1>3. Settled(n, m, t)
  BY <1>1, <1>2 DEF DeliveryInv, OwedOrSettled
<1> QED
  BY <1>3, SettledIsPassed

LEMMA DeliveryInvImpliesNothingHidden == DeliveryInv => CheckpointHidesLastWord
<1> SUFFICES ASSUME DeliveryInv, NEW n \in Routers, NEW m \in Routers, NEW t \in Trees,
                    HoldsPresentSnapshot(n, m), LastSent(n, m, t) <= checkpoint_sn[n][m]
             PROVE  HasLastWord(n, m, t)
  BY DEF CheckpointHidesLastWord
<1>1. /\ Current(n, m) /\ nbr[n][m].time_of_boot = boot[m]
  BY DEF HoldsPresentSnapshot, Current
<1>2. Settled(n, m, t)
  <2>1. CASE checkpoint_sn[n][m] > 0
    <3>1. PICK h \in hellos : /\ h.src = m /\ h.boot = boot[m]
                              /\ h.checkpoint_sn = checkpoint_sn[n][m]
      BY <1>1, <2>1 DEF DeliveryInv, NumbersAreTrue, CheckpointWasSent
    <3> QED
      BY <1>1, <3>1 DEF DeliveryInv, CheckpointsAreSettled
  <2>2. CASE ~(checkpoint_sn[n][m] > 0)
    <3>1. /\ LastSent(n, m, t) \in Nat /\ checkpoint_sn[n][m] \in Nat
          /\ nbr[m][n].my_snapshot_sequencer \in Nat
      <4>1. TransmissionPairInv /\ WordsArePast
        BY DEF DeliveryInv
      <4>2. LastSentHypothesis
        BY <4>1 DEF LastSentHypothesis, TransmissionPairInv, TransmissionTypeInv,
                    TransmissionTypeOK, TypeOK
      <4>3. LastSent(n, m, t) \in Nat
        BY <4>2, LastSentBounds DEF LastSentIsGreatest
      <4> QED
        BY <4>1, <4>3, InvParts, FunctionTypes, NeighborTypes, ObjectNumbers
    <3>2. LastSent(n, m, t) <= nbr[m][n].my_snapshot_sequencer
      BY <2>2, <3>1
    <3> QED
      BY <3>2 DEF Settled
  <2> QED
    BY <2>1, <2>2
<1> QED
  BY <1>2, SettledIsPassed

-----------------------------------------------------------------------------
(* What an object holds, as if it had forgotten nothing *)

\* An Interest says of its sender what an IamNoLongerUpstream says.
SaidAs(p) ==
  [type |-> "Upstream", src |-> p.src, boot |-> p.boot, sn |-> p.sn, tree |-> p.tree,
   upstream |-> FALSE]
Said == msgs \cup {SaidAs(p) : p \in interests}

\* The object of n for m, with the numbers of all that it passed on.
Remembering(n, m) == [nbr[n][m] EXCEPT !.last_sequence_number = delivered[n][m]]

GoodMemory(n, m) == GoodObject(n, m, Remembering(n, m), Said, snapshots)
GoodMemories == \A n, m \in Routers : GoodMemory(n, m)

\* The last word of m about t, if it is an Interest, is true.
InterestsAreTrue ==
  \A p \in interests :
    p.boot = boot[p.src] /\ NothingAfter(msgs, p.src, p.boot, p.tree, p.sn)
      => p.tree \notin ToSet(mrt[p.src])

WordsAreTrue == TablesAreTrue /\ InterestsAreTrue

KnowledgeInv == SnapshotsAreSound /\ WordsAreTrue /\ GoodMemories

LEMMA RememberingFields ==
  ASSUME TransmissionPairInv, NEW n \in Routers, NEW m \in Routers
  PROVE  /\ Remembering(n, m) \in Neighbor
         /\ Remembering(n, m).state = nbr[n][m].state
         /\ Remembering(n, m).time_of_boot = nbr[n][m].time_of_boot
         /\ Remembering(n, m).neighbor_snapshot_sn = nbr[n][m].neighbor_snapshot_sn
         /\ Remembering(n, m).current_sync_sn = nbr[n][m].current_sync_sn
         /\ Remembering(n, m).tree_metric_state = nbr[n][m].tree_metric_state
         /\ Remembering(n, m).last_sequence_number = delivered[n][m]
         /\ nbr[n][m].last_sequence_number = delivered[n][m] => Remembering(n, m) = nbr[n][m]
<1>1. nbr[n][m] \in Neighbor /\ delivered[n][m] \in [Trees -> Nat]
  BY FunctionTypes
<1> QED
  BY <1>1 DEF Remembering, Neighbor

ObjectTypes ==
  /\ nbr \in [Routers -> [Routers -> Neighbor]]
  /\ delivered \in [Routers -> [Routers -> [Trees -> Nat]]]

LEMMA ObjectTypesNext == TransmissionPairInv' => ObjectTypes'
<1>1. TransmissionPairInv => ObjectTypes
  BY FunctionTypes DEF ObjectTypes
<1> QED
  BY <1>1, PTL

\* An object that still synchronizes has forgotten nothing.
LEMMA MemoryWhileSynchronizing ==
  ASSUME TransmissionPairInv, NumbersAreTrue, GoodMemories, NEW n \in Routers, NEW m \in Routers
  PROVE  GoodWhileSynchronizing(n, m, Said)
<1>1. nbr[n][m].state # "Synced" => Remembering(n, m) = nbr[n][m]
  BY RememberingFields DEF NumbersAreTrue, NumbersAreForgotten
<1> QED
  BY <1>1 DEF GoodWhileSynchronizing, Synchronizing, GoodMemories, GoodMemory

LEMMA SaidGrows ==
  ASSUME msgs \subseteq msgs', interests \subseteq interests'
  PROVE  Said \subseteq Said'
BY DEF Said

LEMMA AbsentIsGood ==
  ASSUME NEW n, NEW m, NEW r, r.state = "Absent", NEW M, NEW S
  PROVE  GoodObject(n, m, r, M, S)
BY DEF GoodObject, Synchronizing

\* More was said and more snapshots were taken.
Grows ==
  msgs \subseteq msgs' /\ interests \subseteq interests' /\ snapshots \subseteq snapshots'

LEMMA MemoryStays ==
  ASSUME TransmissionPairInv', Grows, NEW n \in Routers, NEW m \in Routers,
         GoodMemory(n, m),
         nbr'[n][m].state = "Absent"
           \/ (nbr'[n][m] = nbr[n][m] /\ delivered'[n][m] = delivered[n][m])
  PROVE  GoodMemory(n, m)'
<1> DEFINE r == Remembering(n, m)
<1>1. Said \subseteq Said' /\ snapshots \subseteq snapshots'
  BY SaidGrows DEF Grows
<1>2. GoodMemory(n, m)' <=> GoodObject(n, m, r', Said', snapshots')
  BY DEF GoodMemory
<1>3. CASE nbr'[n][m].state = "Absent"
  <2>1. r'.state = nbr'[n][m].state
    <3>1. nbr' \in [Routers -> [Routers -> Neighbor]]
      BY ObjectTypesNext DEF ObjectTypes
    <3> QED
      BY <3>1 DEF Remembering, Neighbor
  <2> HIDE DEF r
  <2> QED
    BY <1>2, <1>3, <2>1, AbsentIsGood
<1>4. CASE nbr'[n][m] = nbr[n][m] /\ delivered'[n][m] = delivered[n][m]
  <2>1. r' = r
    BY <1>4 DEF Remembering
  <2>2. GoodObject(n, m, r, Said, snapshots)
    BY DEF GoodMemory
  <2> HIDE DEF r
  <2> QED
    BY <1>1, <1>2, <2>1, <2>2, GoodGrows
<1> QED
  BY <1>3, <1>4

LEMMA MemoriesStay ==
  ASSUME TransmissionPairInv', Grows, GoodMemories,
         \A n, m \in Routers :
           \/ nbr'[n][m].state = "Absent"
           \/ nbr'[n][m] = nbr[n][m] /\ delivered'[n][m] = delivered[n][m]
  PROVE  GoodMemories'
<1>1. \A n, m \in Routers : GoodMemory(n, m)'
  BY MemoryStays DEF GoodMemories
<1> QED
  BY <1>1 DEF GoodMemories

\* The object of n for m changes.
LEMMA MemoryIsRenewed ==
  ASSUME TransmissionPairInv', Grows, GoodMemories, NEW n \in Routers, NEW m \in Routers,
         \A i, j \in Routers : i # n \/ j # m =>
           nbr'[i][j] = nbr[i][j] /\ delivered'[i][j] = delivered[i][j],
         GoodObject(n, m, Remembering(n, m)', Said, snapshots')
  PROVE  GoodMemories'
<1>1. Said \subseteq Said' /\ snapshots' \subseteq snapshots'
  BY SaidGrows DEF Grows
<1>2. GoodObject(n, m, Remembering(n, m)', Said', snapshots')
  BY <1>1, GoodGrows
<1>3. GoodMemory(n, m)'
  BY <1>2 DEF GoodMemory
<1>4. \A i, j \in Routers : GoodMemory(i, j)'
  BY <1>3, MemoryStays DEF GoodMemories
<1> QED
  BY <1>4 DEF GoodMemories

-----------------------------------------------------------------------------
(* Every step keeps the memories good *)

\* A Synced object goes on as it is, or not at all.
LEMMA SyncedRests ==
  ASSUME NEW n \in Routers, NEW m \in Routers, Synchronize(n, m), nbr[n][m].state = "Synced"
  PROVE  GetSequenceNumber(n) \/ UNCHANGED nbr \/ SetNeighbor(n, m, NoNeighbor)
BY DEF Synchronize, ReceiveSyncUnknown, ReceiveSyncReset, ReceiveSyncSlave,
       ReceiveSyncMaster, ReceiveHello, SyncTimeout, RemoveNeighbor, AdjacencyReset,
       StartSnapshot

LEMMA AdjacencyMemory ==
  ASSUME TransmissionPairInv, TransmissionPairInv', NumbersAreTrue, GoodMemories,
         NEW n \in Routers, NEW m \in Routers,
         GoodStep(n, m, Said), Synchronizes(n, m), AdjacencyStep(n, m),
         nbr[n][m].state = "Synced" =>
           GetSequenceNumber(n) \/ UNCHANGED nbr \/ SetNeighbor(n, m, NoNeighbor)
  PROVE  GoodMemories'
<1> DEFINE r2 == nbr'[n][m]
<1>1. /\ TypeOK /\ ObjectsArePast
      /\ nbr \in [Routers -> [Routers -> Neighbor]]
      /\ sequencer \in [Routers -> Nat] /\ boot \in [Routers -> Nat]
      /\ delivered \in [Routers -> [Routers -> [Trees -> Nat]]]
  BY InvParts, FunctionTypes DEF Agreement
<1>2. Grows
  BY DEF GoodStep, AdjacencyStep, Grows
<1>3. /\ ForgetNumbers(n, m) \/ UNCHANGED delivered
      /\ sequencer'[n] # sequencer[n] => ForgetNumbers(n, m)
      /\ sequencer'[n] = sequencer[n] /\ r2.state # "Absent" => UNCHANGED delivered
  BY DEF AdjacencyStep
<1>4. \A r : SetNeighbor(n, m, r) =>
        r2 = r /\ \A i, j \in Routers : i # n \/ j # m => nbr'[i][j] = nbr[i][j]
  BY <1>1 DEF SetNeighbor
<1>5. ForgetNumbers(n, m) =>
        /\ delivered'[n][m] = NoNumbers
        /\ \A i, j \in Routers : i # n \/ j # m => delivered'[i][j] = delivered[i][j]
  BY <1>1 DEF ForgetNumbers, NoNumbers
<1>6. \A i, j \in Routers : i # n \/ j # m =>
        nbr'[i][j] = nbr[i][j] /\ delivered'[i][j] = delivered[i][j]
  BY <1>3, <1>4, <1>5 DEF Synchronizes
<1>7. UNCHANGED nbr \/ GoodObject(n, m, r2, Said, snapshots')
  BY <1>4 DEF GoodStep
<1>8. ASSUME r2.last_sequence_number = delivered'[n][m],
             GoodObject(n, m, r2, Said, snapshots')
      PROVE  GoodMemories'
  <2>1. Remembering(n, m)' = r2
    <3>1. r2 \in Neighbor
      BY ObjectTypesNext DEF ObjectTypes
    <3> QED
      BY <1>8, <3>1 DEF Remembering, Neighbor
  <2> HIDE DEF r2
  <2> QED
    BY <1>2, <1>6, <1>8, <2>1, MemoryIsRenewed
<1>9. CASE r2.state = "Absent"
  BY <1>2, <1>6, <1>9, MemoriesStay
<1>10. CASE r2.state # "Absent" /\ GetSequenceNumber(n)
  <2>1. /\ sequencer'[n] # sequencer[n]
        /\ ~Past(boot, sequencer, n, NextBootTime(n), NextSequenceNumber(n))
    BY <1>1, <1>10, TickIsSeen, ClocksAdvance
  <2>2. Restarted(n, r2)
    BY <1>4, <2>1 DEF Synchronizes
  <2>3. ~UNCHANGED nbr
    BY <1>1, <2>1, <2>2 DEF Restarted, ObjectsArePast
  <2>4. r2.last_sequence_number = delivered'[n][m]
    BY <1>3, <1>5, <2>1, <2>2 DEF Restarted
  <2> QED
    BY <1>7, <1>8, <2>3, <2>4
<1>11. CASE r2.state # "Absent" /\ ~GetSequenceNumber(n)
  <2>1. UNCHANGED <<boot, sequencer, delivered>>
    BY <1>3, <1>11 DEF Synchronizes
  <2>2. CASE UNCHANGED nbr
    BY <1>2, <2>1, <2>2, MemoriesStay
  <2>3. CASE ~UNCHANGED nbr
    <3>1. ~SetNeighbor(n, m, NoNeighbor)
      BY <1>4, <1>11 DEF NoNeighbor
    <3>2. SameNumbers(r2, nbr[n][m]) /\ nbr[n][m].state # "Synced"
      BY <1>4, <1>11, <2>3, <3>1 DEF Synchronizes
    <3>3. r2.last_sequence_number = delivered'[n][m]
      BY <2>1, <3>2 DEF SameNumbers, NumbersAreTrue, NumbersAreForgotten
    <3> QED
      BY <1>7, <1>8, <2>3, <3>3
  <2> QED
    BY <2>2, <2>3
<1> QED
  BY <1>9, <1>10, <1>11

LEMMA MemoryOfNews ==
  ASSUME NEW r \in Neighbor, NEW d \in [Trees -> Nat], NEW t \in Trees, NEW sn \in Nat,
         NEW isUpstream
  PROVE  [[r EXCEPT !.last_sequence_number[t] = sn,
                    !.tree_metric_state = IF isUpstream THEN @ \cup {t} ELSE @ \ {t}]
            EXCEPT !.last_sequence_number = [d EXCEPT ![t] = sn]]
         = [[r EXCEPT !.last_sequence_number = d]
              EXCEPT !.last_sequence_number[t] = sn,
                     !.tree_metric_state = IF isUpstream THEN @ \cup {t} ELSE @ \ {t}]
BY DEF Neighbor

\* A word that an object takes is news, also for the object had it not forgotten.
LEMMA DeliverMemory ==
  ASSUME TransmissionPairInv, TransmissionPairInv', NumbersAreTrue, GoodMemories,
         NEW n \in Routers, NEW m \in Routers, NEW p \in SequencedFrom(n, m),
         p.boot = nbr[n][m].time_of_boot,
         IsAcknowledged(nbr[n][m], checkpoint_sn[n][m], p),
         p.sn > nbr[n][m].last_sequence_number[p.tree], Deliver(n, m, nbr[n][m], p),
         UNCHANGED <<msgs, interests, snapshots>>
  PROVE  GoodMemories'
<1> DEFINE r == nbr[n][m]
           R == Remembering(n, m)
           q == IF p.type = "Upstream" THEN p ELSE SaidAs(p)
           R2 == [R EXCEPT !.last_sequence_number[q.tree] = q.sn,
                           !.tree_metric_state = IF q.upstream THEN @ \cup {q.tree}
                                                 ELSE @ \ {q.tree}]
<1>1. /\ r \in Neighbor /\ delivered[n][m] \in [Trees -> Nat] /\ checkpoint_sn[n][m] \in Nat
      /\ interests \subseteq InterestMsgs /\ snapshots \subseteq Snapshots /\ TypeOK
  BY InvParts, FunctionTypes DEF TransmissionPart, TypeOK
<1>2. /\ p.sn \in Nat /\ p.tree \in Trees
      /\ p.type = "Upstream" => p \in msgs /\ p \in UpstreamMsgs
      /\ p.type # "Upstream" => p \in interests /\ p \in InterestMsgs
      /\ p.src = m
  BY <1>1, SequencedTypes DEF SequencedFrom
<1>3. /\ q \in UpstreamMsgs /\ q \in Said /\ q.src = m
      /\ q.boot = p.boot /\ q.sn = p.sn /\ q.tree = p.tree
      /\ q.upstream = (p.type = "Upstream" /\ p.upstream)
  BY <1>2 DEF SaidAs, Said, UpstreamMsgs, InterestMsgs
<1>4. /\ R \in Neighbor /\ R.time_of_boot = r.time_of_boot
      /\ R.neighbor_snapshot_sn = r.neighbor_snapshot_sn
      /\ R.current_sync_sn = r.current_sync_sn
      /\ R.last_sequence_number = delivered[n][m]
  BY RememberingFields
<1>5. p.sn > delivered[n][m][p.tree]
  <2>1. p.sn > checkpoint_sn[n][m] /\ delivered[n][m][p.tree] \in Nat
    BY <1>1, <1>2 DEF IsAcknowledged
  <2>2. \/ r.last_sequence_number[p.tree] = delivered[n][m][p.tree]
        \/ delivered[n][m][p.tree] <= checkpoint_sn[n][m]
    BY <1>2 DEF NumbersAreTrue, NumbersAreForgotten
  <2> QED
    BY <1>1, <1>2, <2>1, <2>2
<1>6. IsNews(R, q)
  BY <1>3, <1>4, <1>5 DEF IsNews, IsAcknowledged
<1>7. Remembering(n, m)' = R2
  <2>1. /\ nbr'[n][m] = Told(r, p)
        /\ delivered'[n][m] = [delivered[n][m] EXCEPT ![p.tree] = p.sn]
    BY FunctionTypes DEF Deliver, SetNeighbor, Told
  <2>2. /\ Remembering(n, m)' = [Told(r, p) EXCEPT !.last_sequence_number = delivered'[n][m]]
        /\ R = [r EXCEPT !.last_sequence_number = delivered[n][m]]
    BY <2>1 DEF Remembering
  <2> HIDE DEF r, R, q
  <2> DEFINE isUpstream == p.type = "Upstream" /\ p.upstream
             d == delivered[n][m]
  <2>3. R2 = [R EXCEPT !.last_sequence_number[p.tree] = p.sn,
                       !.tree_metric_state = IF isUpstream THEN @ \cup {p.tree}
                                             ELSE @ \ {p.tree}]
    BY <1>3
  <2>4. Remembering(n, m)' =
          [[r EXCEPT !.last_sequence_number[p.tree] = p.sn,
                     !.tree_metric_state = IF isUpstream THEN @ \cup {p.tree}
                                           ELSE @ \ {p.tree}]
             EXCEPT !.last_sequence_number = [d EXCEPT ![p.tree] = p.sn]]
    BY <2>1, <2>2 DEF Told
  <2>5. r \in Neighbor /\ d \in [Trees -> Nat] /\ R = [r EXCEPT !.last_sequence_number = d]
    BY <1>1, <2>2 DEF r
  <2> HIDE DEF isUpstream, d, R2
  <2>6. [[r EXCEPT !.last_sequence_number[p.tree] = p.sn,
                   !.tree_metric_state = IF isUpstream THEN @ \cup {p.tree}
                                         ELSE @ \ {p.tree}]
           EXCEPT !.last_sequence_number = [d EXCEPT ![p.tree] = p.sn]]
        = [[r EXCEPT !.last_sequence_number = d]
             EXCEPT !.last_sequence_number[p.tree] = p.sn,
                    !.tree_metric_state = IF isUpstream THEN @ \cup {p.tree}
                                          ELSE @ \ {p.tree}]
    BY <1>2, <2>5, MemoryOfNews
  <2> QED
    BY <2>3, <2>4, <2>5, <2>6
<1>8. GoodObject(n, m, R, Said, snapshots)
  BY DEF GoodMemories, GoodMemory
<1> HIDE DEF r, R, q
<1>9. GoodObject(n, m, R2, Said, snapshots)
  BY <1>1, <1>3, <1>4, <1>6, <1>8, NewsIsGood DEF r
<1>10. \A i, j \in Routers : i # n \/ j # m =>
         nbr'[i][j] = nbr[i][j] /\ delivered'[i][j] = delivered[i][j]
  BY FunctionTypes DEF Deliver, SetNeighbor
<1> HIDE DEF R2
<1> QED
  BY <1>7, <1>9, <1>10, MemoryIsRenewed DEF Grows

-----------------------------------------------------------------------------
(* Every step keeps what was said last true *)

\* A new Interest is one of n, in a tree of which n is not UPSTREAM.
Asks(n) ==
  \A p \in interests' : p \in interests \/ (p.src = n /\ p.tree \notin ToSet(mrt[n]))

LEMMA InterestTypes ==
  ASSUME TransmissionPairInv, WordsArePast, NEW p \in interests
  PROVE  /\ p.src \in Routers /\ p.boot \in Nat /\ p.sn \in Nat /\ p.tree \in Trees
         /\ p.boot < boot[p.src] \/ (p.boot = boot[p.src] /\ p.sn <= sequencer[p.src])
<1>1. p \in InterestMsgs
  BY InvParts DEF TransmissionPart
<1>2. p.src \in Routers /\ p.dst \in Routers /\ p \in SequencedFrom(p.dst, p.src)
  BY <1>1 DEF InterestMsgs, SequencedFrom
<1>3. Past(boot, sequencer, p.src, p.boot, p.sn)
  BY <1>2 DEF WordsArePast
<1> QED
  BY <1>1, <1>3 DEF InterestMsgs, Past

LEMMA SilentKeepsWords ==
  ASSUME WordsAreTrue, Silent, UNCHANGED interests
  PROVE  WordsAreTrue'
<1>1. UNCHANGED <<boot, mrt, interests>> /\ NoNewUpstream
  BY DEF Silent
<1>2. InterestsAreTrue'
  BY <1>1, NothingNew DEF WordsAreTrue, InterestsAreTrue
<1> QED
  BY <1>2, SilentKeepsView DEF WordsAreTrue

\* A clock that moves on leaves no Interest of the new BootTime.
LEMMA NextBootHasNoInterest ==
  ASSUME TransmissionPairInv, WordsArePast, NEW n \in Routers, GetSequenceNumber(n),
         NEW p \in interests, p.boot = boot'[p.src]
  PROVE  /\ p.boot = boot[p.src]
         /\ p.src = n => p.sn < NextSequenceNumber(n) /\ boot'[n] = NextBootTime(n)
<1>1. /\ p.src \in Routers /\ p.boot \in Nat /\ p.sn \in Nat
      /\ p.boot < boot[p.src] \/ (p.boot = boot[p.src] /\ p.sn <= sequencer[p.src])
      /\ boot \in [Routers -> Nat] /\ sequencer \in [Routers -> Nat]
      /\ boot'[n] = NextBootTime(n)
      /\ \A o \in Routers : o # n => boot'[o] = boot[o]
  BY InterestTypes, FunctionTypes, InvParts, TickIsSeen
<1>2. boot'[n] = boot[n] + 1 \/ (boot'[n] = boot[n] /\ NextSequenceNumber(n) = sequencer[n] + 1)
  BY <1>1 DEF NextBootTime, NextSequenceNumber
<1>3. p.boot = boot[p.src]
  BY <1>1, <1>2
<1>4. ASSUME p.src = n
      PROVE  p.sn < NextSequenceNumber(n)
  <2>1. boot[n] \in Nat /\ sequencer[n] \in Nat /\ boot'[n] = boot[n]
    BY <1>1, <1>3, <1>4
  <2>2. NextSequenceNumber(n) = sequencer[n] + 1 /\ p.sn <= sequencer[n]
    BY <1>1, <1>2, <1>3, <1>4, <2>1
  <2> QED
    BY <1>1, <2>1, <2>2
<1> QED
  BY <1>1, <1>3, <1>4

LEMMA NumberKeepsWords ==
  ASSUME TransmissionPairInv, WordsArePast, SnapshotsArePast, WordsAreTrue,
         NEW n \in Routers, Counts(n), Asks(n)
  PROVE  WordsAreTrue'
<1>1. TypeOK /\ GetSequenceNumber(n) /\ UNCHANGED mrt /\ NoNewUpstream
  BY InvParts DEF Counts
<1>2. SUFFICES InterestsAreTrue'
  BY <1>1, NumberKeepsView DEF WordsAreTrue
<1>3. SUFFICES ASSUME NEW p \in interests', p.boot = boot'[p.src],
                      NothingAfter(msgs', p.src, p.boot, p.tree, p.sn)
               PROVE  p.tree \notin ToSet(mrt[p.src])
  BY <1>1 DEF InterestsAreTrue
<1>4. CASE p \in interests
  <2>1. p.boot = boot[p.src]
    BY <1>1, <1>3, <1>4, NextBootHasNoInterest
  <2>2. NothingAfter(msgs, p.src, p.boot, p.tree, p.sn)
    BY <1>1, <1>3, NothingNew
  <2> QED
    BY <1>4, <2>1, <2>2 DEF WordsAreTrue, InterestsAreTrue
<1> QED
  BY <1>4 DEF Asks

LEMMA AnnouncementKeepsWords ==
  ASSUME TransmissionPairInv, WordsArePast, SnapshotsArePast, WordsAreTrue,
         NEW n \in Routers, NEW t \in Trees, NEW upstream \in BOOLEAN,
         Announces(n, t, upstream), UNCHANGED interests
  PROVE  WordsAreTrue'
<1> DEFINE p0 == [type |-> "Upstream", src |-> n, boot |-> NextBootTime(n),
                  sn |-> NextSequenceNumber(n), tree |-> t, upstream |-> upstream]
<1>1. /\ TypeOK /\ GetSequenceNumber(n) /\ msgs' = msgs \cup {p0}
      /\ NextSequenceNumber(n) \in Nat
  BY InvParts, SequenceTypes DEF Announces, SendUpstream, Send
<1>2. SUFFICES InterestsAreTrue'
  BY <1>1, AnnouncementKeepsView DEF WordsAreTrue
<1>3. SUFFICES ASSUME NEW p \in interests, p.boot = boot'[p.src],
                      NothingAfter(msgs', p.src, p.boot, p.tree, p.sn)
               PROVE  p.tree \notin ToSet(mrt'[p.src])
  BY DEF InterestsAreTrue
<1>4. /\ p.boot = boot[p.src] /\ p.src \in Routers /\ p.tree \in Trees /\ p.sn \in Nat
      /\ p.src = n => p.sn < NextSequenceNumber(n) /\ boot'[n] = NextBootTime(n)
  BY <1>1, <1>3, NextBootHasNoInterest, InterestTypes
<1>5. p.tree \notin ToSet(mrt[p.src])
  <2>1. NothingAfter(msgs, p.src, p.boot, p.tree, p.sn)
    BY <1>1, <1>3 DEF NothingAfter
  <2> QED
    BY <1>4, <2>1 DEF WordsAreTrue, InterestsAreTrue
<1>6. ~(p.src = n /\ p.tree = t)
  <2>1. SUFFICES ASSUME p.src = n, p.tree = t PROVE FALSE
    OBVIOUS
  <2>2. Announcement(p0, p.src, p.boot, p.tree)
    BY <1>3, <1>4, <2>1 DEF Announcement
  <2>3. NextSequenceNumber(n) <= p.sn
    BY <1>1, <1>3, <2>2 DEF NothingAfter
  <2> QED
    BY <1>1, <1>4, <2>1, <2>3
<1> QED
  BY <1>4, <1>5, <1>6 DEF Announces

LEMMA RestartKeepsWords ==
  ASSUME TransmissionPairInv, WordsArePast, SnapshotsArePast, WordsAreTrue,
         NEW n \in Routers, NEW farewell \in BOOLEAN, Restart(n, farewell),
         UNCHANGED interests
  PROVE  WordsAreTrue'
<1>1. /\ boot' = [boot EXCEPT ![n] = @ + 1] /\ mrt' = [mrt EXCEPT ![n] = <<>>]
      /\ TypeOK /\ boot \in [Routers -> Nat] /\ mrt \in [Routers -> Seq(Trees)]
  BY InvParts DEF Restart, TypeOK
<1>2. NoNewUpstream
  BY DEF Restart, Send, Farewell, NoNewUpstream
<1>3. SUFFICES InterestsAreTrue'
  BY <1>1, RestartKeepsView DEF WordsAreTrue
<1>4. SUFFICES ASSUME NEW p \in interests, p.boot = boot'[p.src],
                      NothingAfter(msgs', p.src, p.boot, p.tree, p.sn)
               PROVE  p.tree \notin ToSet(mrt'[p.src])
  BY DEF InterestsAreTrue
<1>5. p.src \in Routers /\ p.boot \in Nat /\ p.boot <= boot[p.src]
  BY <1>1, InterestTypes
<1>6. p.src # n
  BY <1>1, <1>4, <1>5
<1>7. p.boot = boot[p.src] /\ mrt'[p.src] = mrt[p.src]
  BY <1>1, <1>4, <1>5, <1>6
<1>8. NothingAfter(msgs, p.src, p.boot, p.tree, p.sn)
  BY <1>2, <1>4, NothingNew
<1> QED
  BY <1>7, <1>8 DEF WordsAreTrue, InterestsAreTrue

-----------------------------------------------------------------------------
(* Each action keeps the invariant *)

\* Between n and m, the handlers of NeighborSync.
LEMMA AdjacencyKnowledge ==
  ASSUME DeliveryInv, DeliveryInv', KnowledgeInv, NEW n \in Routers, NEW m \in Routers,
         GoodStep(n, m, Said), Synchronizes(n, m), AdjacencyStep(n, m),
         nbr[n][m].state = "Synced" =>
           GetSequenceNumber(n) \/ UNCHANGED nbr \/ SetNeighbor(n, m, NoNeighbor),
         Silent \/ Counts(n)
  PROVE  KnowledgeInv'
<1>1. /\ TransmissionPairInv /\ TransmissionPairInv' /\ NumbersAreTrue /\ WordsArePast
      /\ SnapshotsAreSound /\ SnapshotsArePast /\ WordsAreTrue /\ GoodMemories
  BY DEF DeliveryInv, KnowledgeInv, SnapshotsAreSound
<1>2. GoodMemories'
  BY <1>1, AdjacencyMemory
<1>3. TypeInv'
  BY <1>1 DEF TransmissionPairInv, TransmissionTypeInv, TransmissionTypeOK, TypeInv
<1>4. SnapshotsAreSound'
  BY <1>3 DEF GoodStep, SnapshotsAreSound
<1>5. UNCHANGED interests
  BY DEF AdjacencyStep
<1>6. WordsAreTrue'
  BY <1>1, <1>5, SilentKeepsWords, NumberKeepsWords DEF Asks
<1> QED
  BY <1>2, <1>4, <1>6 DEF KnowledgeInv

LEMMA SynchronizeKnowledge ==
  ASSUME DeliveryInv, DeliveryInv', KnowledgeInv, NEW n \in Routers, NEW m \in Routers,
         Synchronize(n, m)
  PROVE  KnowledgeInv'
<1>1. /\ TransmissionPairInv /\ NumbersAreTrue /\ SnapshotsAreSound /\ GoodMemories
      /\ TypeOK /\ TypeInv'
  BY InvParts
     DEF DeliveryInv, KnowledgeInv, TransmissionPairInv, TransmissionTypeInv,
         TransmissionTypeOK, TypeInv
<1>2. GoodWhileSynchronizing(n, m, Said)
  BY <1>1, MemoryWhileSynchronizing
<1>3. GoodStep(n, m, Said)
  BY <1>1, <1>2, ReceiveSyncUnknownIsGood, ReceiveSyncResetIsGood, ReceiveSyncSlaveIsGood,
     ReceiveSyncMasterIsGood, ReceiveHelloIsGood, SyncTimeoutIsGood, RemoveNeighborIsGood
     DEF Synchronize
<1>4. Silent \/ Counts(n)
  BY ReceiveKinds DEF Synchronize, Receive
<1>5. Synchronizes(n, m) /\ AdjacencyStep(n, m)
  BY <1>1, SynchronizeKinds DEF Synchronize
<1> QED
  BY <1>3, <1>4, <1>5, SyncedRests, AdjacencyKnowledge

LEMMA ResetKnowledge ==
  ASSUME DeliveryInv, DeliveryInv', KnowledgeInv, NEW n \in Routers, NEW m \in Routers,
         NEW b \in Nat, AdjacencyReset(n, m, b), AdjacencyStep(n, m), UNCHANGED mrt
  PROVE  KnowledgeInv'
<1>1. GoodStep(n, m, Said)
  BY AdjacencyResetIsGood DEF KnowledgeInv
<1>2. Synchronizes(n, m) /\ Counts(n) /\ GetSequenceNumber(n)
  BY ResetRestarts, ResetCounts DEF Counts
<1> QED
  BY <1>1, <1>2, AdjacencyKnowledge

\* Nothing that is said or numbered changes.
LEMMA RestingKnowledge ==
  ASSUME DeliveryInv', KnowledgeInv, GoodMemories',
         UNCHANGED <<boot, sequencer, mrt, msgs, snapshots, interests>>
  PROVE  KnowledgeInv'
<1>1. TypeInv' /\ SnapshotsAreSound /\ WordsAreTrue
  BY DEF DeliveryInv, KnowledgeInv, TransmissionPairInv, TransmissionTypeInv,
         TransmissionTypeOK, TypeInv
<1>2. SnapshotsAreSound'
  BY <1>1 DEF SnapshotsAreSound, SnapshotsArePast, SnapshotsAreUnique, GoodSyncs
<1>3. Silent
  BY DEF Silent, NoNewUpstream
<1> QED
  BY <1>1, <1>2, <1>3, SilentKeepsWords DEF KnowledgeInv

LEMMA ReceiveSequencedKnowledge ==
  ASSUME DeliveryInv, DeliveryInv', KnowledgeInv, NEW n \in Routers, NEW m \in Routers,
         ReceiveSequenced(n, m)
  PROVE  KnowledgeInv'
<1> DEFINE r == nbr[n][m]
<1>1. /\ TransmissionPairInv /\ TransmissionPairInv' /\ NumbersAreTrue /\ GoodMemories
      /\ TypeOK /\ TransmissionPart
  BY InvParts DEF DeliveryInv, KnowledgeInv
<1>2. PICK p \in SequencedFrom(n, m) :
        \/ AdjacencyReset(n, m, p.boot) /\ AdjacencyStep(n, m)
        \/ /\ p.boot = r.time_of_boot /\ IsAcknowledged(r, checkpoint_sn[n][m], p)
           /\ IF p.sn > r.last_sequence_number[p.tree]
              THEN Deliver(n, m, r, p) ELSE UNCHANGED <<nbr, delivered>>
           /\ UNCHANGED <<boot, sequencer, msgs, snapshots, buffer, interests, checkpoint_sn>>
  BY DEF ReceiveSequenced
<1>3. p.boot \in Nat /\ UNCHANGED mrt
  BY <1>1, SequencedTypes DEF ReceiveSequenced, TransmissionPart
<1>4. CASE AdjacencyReset(n, m, p.boot) /\ AdjacencyStep(n, m)
  BY <1>3, <1>4, ResetKnowledge
<1>5. CASE /\ p.boot = r.time_of_boot /\ IsAcknowledged(r, checkpoint_sn[n][m], p)
           /\ IF p.sn > r.last_sequence_number[p.tree]
              THEN Deliver(n, m, r, p) ELSE UNCHANGED <<nbr, delivered>>
           /\ UNCHANGED <<boot, sequencer, msgs, snapshots, buffer, interests, checkpoint_sn>>
  <2>1. GoodMemories'
    <3>1. CASE p.sn > r.last_sequence_number[p.tree]
      BY <1>1, <1>5, <3>1, DeliverMemory
    <3>2. CASE ~(p.sn > r.last_sequence_number[p.tree])
      BY <1>1, <1>5, <3>2, MemoriesStay DEF Grows
    <3> QED
      BY <3>1, <3>2
  <2> QED
    BY <1>3, <1>5, <2>1, RestingKnowledge
<1> QED
  BY <1>2, <1>4, <1>5

LEMMA ReceiveAckKnowledge ==
  ASSUME DeliveryInv, DeliveryInv', KnowledgeInv, NEW n \in Routers, NEW m \in Routers,
         ReceiveAck(n, m)
  PROVE  KnowledgeInv'
<1>1. TransmissionPairInv' /\ GoodMemories /\ TransmissionPart
  BY InvParts DEF DeliveryInv, KnowledgeInv
<1>2. PICK p \in acks :
        \/ AdjacencyReset(n, m, p.boot) /\ AdjacencyStep(n, m)
        \/ UNCHANGED <<boot, sequencer, nbr, msgs, snapshots, interests, delivered>>
  BY DEF ReceiveAck
<1>3. p.boot \in Nat /\ UNCHANGED mrt
  BY <1>1 DEF ReceiveAck, TransmissionPart, AckMsgs
<1>4. CASE AdjacencyReset(n, m, p.boot) /\ AdjacencyStep(n, m)
  BY <1>3, <1>4, ResetKnowledge
<1>5. CASE UNCHANGED <<boot, sequencer, nbr, msgs, snapshots, interests, delivered>>
  BY <1>1, <1>3, <1>5, MemoriesStay, RestingKnowledge DEF Grows
<1> QED
  BY <1>2, <1>4, <1>5

\* What the checkpoint makes an object forget, its memory keeps.
LEMMA ReceiveCheckpointKnowledge ==
  ASSUME DeliveryInv, DeliveryInv', KnowledgeInv, NEW n \in Routers, NEW m \in Routers,
         ReceiveCheckpoint(n, m)
  PROVE  KnowledgeInv'
<1> DEFINE r == nbr[n][m]
<1>1. /\ TransmissionPairInv /\ TransmissionPairInv' /\ GoodMemories /\ r \in Neighbor
      /\ nbr \in [Routers -> [Routers -> Neighbor]]
      /\ GoodMemory(n, m)
  BY InvParts, FunctionTypes DEF DeliveryInv, KnowledgeInv, GoodMemories
<1>2. PICK c : SetNeighbor(n, m, [r EXCEPT !.last_sequence_number =
                                    [t \in Trees |-> Forgotten(@[t], c)]])
  BY DEF ReceiveCheckpoint
<1>3. UNCHANGED <<boot, sequencer, mrt, msgs, snapshots, interests, delivered>>
  BY DEF ReceiveCheckpoint
<1>4. Remembering(n, m)' = Remembering(n, m)
  <2>1. nbr'[n][m] = [r EXCEPT !.last_sequence_number = [t \in Trees |-> Forgotten(@[t], c)]]
    BY <1>1, <1>2 DEF SetNeighbor
  <2>2. \A x, y, d : [[x EXCEPT !.last_sequence_number = y] EXCEPT !.last_sequence_number = d]
                     = [x EXCEPT !.last_sequence_number = d]
    OBVIOUS
  <2> QED
    BY <1>3, <2>1, <2>2 DEF Remembering
<1>5. \A i, j \in Routers : i # n \/ j # m =>
        nbr'[i][j] = nbr[i][j] /\ delivered'[i][j] = delivered[i][j]
  BY <1>1, <1>2, <1>3 DEF SetNeighbor
<1>6. GoodObject(n, m, Remembering(n, m)', Said, snapshots')
  BY <1>1, <1>3, <1>4 DEF GoodMemory
<1>7. GoodMemories'
  BY <1>1, <1>3, <1>5, <1>6, MemoryIsRenewed DEF Grows
<1> QED
  BY <1>3, <1>7, RestingKnowledge

LEMMA RetransmissionKnowledge ==
  ASSUME DeliveryInv, DeliveryInv', KnowledgeInv, NEW n \in Routers, NEW t \in Trees,
         RetransmissionTimeout(n, t)
  PROVE  KnowledgeInv'
<1>1. /\ TransmissionPairInv /\ TransmissionPairInv' /\ GoodMemories
      /\ nbr \in [Routers -> [Routers -> Neighbor]]
      /\ delivered \in [Routers -> [Routers -> [Trees -> Nat]]]
  BY FunctionTypes DEF DeliveryInv, KnowledgeInv
<1>2. UNCHANGED <<boot, sequencer, mrt, msgs, snapshots, interests>>
  BY DEF RetransmissionTimeout
<1>3. PICK failed \in SUBSET Routers :
        /\ nbr' = [nbr EXCEPT ![n] = [m \in Routers |-> IF m \in failed THEN NoNeighbor
                                                        ELSE @[m]]]
        /\ delivered' = [delivered EXCEPT ![n] =
             [m \in Routers |-> IF m \in failed THEN [u \in Trees |-> 0] ELSE @[m]]]
  BY DEF RetransmissionTimeout
<1>4. \A i, j \in Routers :
        \/ nbr'[i][j].state = "Absent"
        \/ nbr'[i][j] = nbr[i][j] /\ delivered'[i][j] = delivered[i][j]
  BY <1>1, <1>3 DEF NoNeighbor
<1> QED
  BY <1>1, <1>2, <1>4, MemoriesStay, RestingKnowledge DEF Grows

LEMMA SendInterestKnowledge ==
  ASSUME DeliveryInv, DeliveryInv', KnowledgeInv, NEW n \in Routers, NEW m \in Routers,
         NEW t \in Trees, SendInterest(n, m, t)
  PROVE  KnowledgeInv'
<1>1. /\ TransmissionPairInv /\ TransmissionPairInv' /\ WordsArePast /\ GoodMemories
      /\ WordsAreTrue /\ TypeOK /\ SnapshotsArePast /\ SnapshotsAreUnique /\ GoodSyncs
      /\ TypeInv'
  BY InvParts
     DEF DeliveryInv, KnowledgeInv, SnapshotsAreSound, TransmissionPairInv,
         TransmissionTypeInv, TransmissionTypeOK, TypeInv
<1>2. /\ t \notin ToSet(mrt[n]) /\ GetSequenceNumber(n)
      /\ interests' = interests \cup
           {[type |-> "Interest", src |-> n, dst |-> m, boot |-> NextBootTime(n),
             sn |-> NextSequenceNumber(n), tree |-> t]}
      /\ UNCHANGED <<mrt, nbr, msgs, snapshots, delivered>>
  BY DEF SendInterest
<1>3. Counts(n) /\ Asks(n)
  BY <1>2 DEF Counts, Asks, NoNewUpstream
<1>4. GoodMemories'
  BY <1>1, <1>2, MemoriesStay DEF Grows
<1>5. SnapshotsAreSound'
  BY <1>1, <1>2, ClockKeepsSnapshots DEF SnapshotsAreSound, GoodSyncs
<1> QED
  BY <1>1, <1>3, <1>4, <1>5, NumberKeepsWords DEF KnowledgeInv

LEMMA AnnounceKnowledge ==
  ASSUME DeliveryInv, DeliveryInv', KnowledgeInv, NEW n \in Routers, NEW t \in Trees,
         Announce(n, t)
  PROVE  KnowledgeInv'
<1>1. /\ TransmissionPairInv /\ TransmissionPairInv' /\ WordsArePast /\ GoodMemories
      /\ SnapshotsAreSound /\ SnapshotsArePast /\ WordsAreTrue /\ NoTreeTwice /\ TypeOK
      /\ TypeInv'
  BY InvParts
     DEF DeliveryInv, KnowledgeInv, SnapshotsAreSound, WordsAreTrue, TablesAreTrue,
         TransmissionPairInv, TransmissionTypeInv, TransmissionTypeOK, TypeInv
<1>2. UNCHANGED <<interests, delivered>>
  BY DEF Announce
<1>3. PICK upstream \in BOOLEAN : Announces(n, t, upstream)
  BY <1>1, TableKinds DEF Announce
<1>4. SnapshotsAreSound' /\ msgs \subseteq msgs' /\ UNCHANGED <<nbr, snapshots>>
  BY <1>1, <1>3, SendUpstreamIsGood DEF Announces
<1>5. GoodMemories'
  BY <1>1, <1>2, <1>4, MemoriesStay DEF Grows
<1>6. WordsAreTrue'
  BY <1>1, <1>2, <1>3, AnnouncementKeepsWords
<1> QED
  BY <1>4, <1>5, <1>6 DEF KnowledgeInv

LEMMA RestartKnowledge ==
  ASSUME DeliveryInv, DeliveryInv', KnowledgeInv, NEW n \in Routers,
         NEW farewell \in BOOLEAN, RestartInterface(n, farewell)
  PROVE  KnowledgeInv'
<1>1. /\ TransmissionPairInv /\ TransmissionPairInv' /\ WordsArePast /\ GoodMemories
      /\ SnapshotsAreSound /\ SnapshotsArePast /\ WordsAreTrue /\ TypeInv'
      /\ delivered \in [Routers -> [Routers -> [Trees -> Nat]]]
  BY FunctionTypes
     DEF DeliveryInv, KnowledgeInv, SnapshotsAreSound,
         TransmissionPairInv, TransmissionTypeInv, TransmissionTypeOK, TypeInv
<1>2. /\ Restart(n, farewell) /\ UNCHANGED interests
      /\ delivered' = [delivered EXCEPT ![n] = [m \in Routers |-> [t \in Trees |-> 0]]]
  BY DEF RestartInterface
<1>3. /\ SnapshotsAreSound' /\ msgs \subseteq msgs' /\ UNCHANGED snapshots
      /\ \A i, j \in Routers : nbr'[i][j] = (IF i = n THEN NoNeighbor ELSE nbr[i][j])
  BY <1>1, <1>2, RestartIsGood
<1>4. GoodMemories'
  BY <1>1, <1>2, <1>3, MemoriesStay DEF Grows, NoNeighbor
<1>5. WordsAreTrue'
  BY <1>1, <1>2, RestartKeepsWords
<1> QED
  BY <1>3, <1>4, <1>5 DEF KnowledgeInv

LEMMA KnowledgeInvInit == TransmissionInit => KnowledgeInv
<1> SUFFICES ASSUME TransmissionInit PROVE KnowledgeInv
  OBVIOUS
<1>1. /\ Init /\ interests = {}
      /\ delivered = [n \in Routers |-> [m \in Routers |-> [t \in Trees |-> 0]]]
  BY DEF TransmissionInit
<1>2. SnapshotsAreSound /\ TablesAreTrue
  BY <1>1, ViewInvInit DEF ViewInv, SnapshotInv
<1>3. InterestsAreTrue
  BY <1>1 DEF InterestsAreTrue
<1>4. ASSUME NEW n \in Routers, NEW m \in Routers
      PROVE  GoodMemory(n, m)
  <2>1. nbr[n][m] = NoNeighbor
    BY <1>1 DEF Init
  <2>2. Remembering(n, m).state = "Absent"
    BY <2>1 DEF Remembering, NoNeighbor
  <2> QED
    BY <2>2, AbsentIsGood DEF GoodMemory
<1> QED
  BY <1>2, <1>3, <1>4 DEF KnowledgeInv, WordsAreTrue, GoodMemories

LEMMA KnowledgeInvNext ==
  DeliveryInv /\ KnowledgeInv /\ [TransmissionNext]_allVars => KnowledgeInv'
<1> SUFFICES ASSUME DeliveryInv, KnowledgeInv, [TransmissionNext]_allVars
             PROVE  KnowledgeInv'
  OBVIOUS
<1>1. DeliveryInv'
  BY DeliveryInvNext
<1>2. ASSUME NEW n \in Routers, NEW m \in Routers,
             \/ Synchronize(n, m) \/ ReceiveSequenced(n, m)
             \/ ReceiveAck(n, m) \/ ReceiveCheckpoint(n, m)
      PROVE  KnowledgeInv'
  BY <1>1, <1>2, SynchronizeKnowledge, ReceiveSequencedKnowledge, ReceiveAckKnowledge,
     ReceiveCheckpointKnowledge
<1>3. ASSUME NEW n \in Routers, NEW m \in Routers, NEW t \in Trees, SendInterest(n, m, t)
      PROVE  KnowledgeInv'
  BY <1>1, <1>3, SendInterestKnowledge
<1>4. ASSUME NEW n \in Routers, NEW t \in Trees,
             Announce(n, t) \/ RetransmissionTimeout(n, t)
      PROVE  KnowledgeInv'
  BY <1>1, <1>4, AnnounceKnowledge, RetransmissionKnowledge
<1>5. ASSUME NEW n \in Routers, NEW farewell \in BOOLEAN, RestartInterface(n, farewell)
      PROVE  KnowledgeInv'
  BY <1>1, <1>5, RestartKnowledge
<1>6. CASE UNCHANGED allVars
  <2>1. /\ UNCHANGED <<nbr, delivered>>
        /\ UNCHANGED <<boot, sequencer, mrt, msgs, snapshots, interests>>
    BY <1>6 DEF allVars, vars, transmission
  <2>2. GoodMemories'
    BY <1>1, <2>1, MemoriesStay DEF Grows, DeliveryInv, KnowledgeInv
  <2> QED
    BY <1>1, <2>1, <2>2, RestingKnowledge
<1> QED
  BY <1>2, <1>3, <1>4, <1>5, <1>6 DEF TransmissionNext, TransmissionStep

-----------------------------------------------------------------------------
(* What a router knows *)

\* All that m announced about t is covered by the snapshot, or no later than the
\* last word that was passed on.
LEMMA NothingMissed ==
  ASSUME TransmissionPairInv, KnowledgeInv,
         NEW n \in Routers, NEW m \in Routers, NEW t \in Trees,
         nbr[n][m].state = "Synced", nbr[n][m].time_of_boot = boot[m],
         \A p \in msgs : Announcement(p, m, boot[m], t) =>
           p.sn <= nbr[n][m].neighbor_snapshot_sn \/ p.sn <= delivered[n][m][t]
  PROVE  t \in nbr[n][m].tree_metric_state <=> t \in ToSet(mrt[m])
<1> DEFINE r == Remembering(n, m)
           d == delivered[n][m][t]
           nss == nbr[n][m].neighbor_snapshot_sn
<1>1. /\ TypeOK /\ TablesAreTrue /\ InterestsAreTrue /\ GoodObject(n, m, r, Said, snapshots)
      /\ interests \subseteq InterestMsgs
  BY InvParts DEF KnowledgeInv, WordsAreTrue, GoodMemories, GoodMemory, TransmissionPart
<1>2. /\ r.state = "Synced" /\ r.time_of_boot = boot[m]
      /\ r.neighbor_snapshot_sn = nss /\ r.last_sequence_number[t] = d
      /\ r.tree_metric_state = nbr[n][m].tree_metric_state
  BY RememberingFields
<1>3. nss \in Nat /\ d \in Nat
  BY <1>1, FunctionTypes, NeighborTypes DEF Neighbor
<1> HIDE DEF r, d, nss
<1>4. PICK s \in snapshots :
        SnapshotOf(s, m, boot[m], nss) /\ Follows(r, m, ToSet(s.trees), Said)
  BY <1>1, <1>2 DEF GoodObject
<1>5. \A p \in msgs : Announcement(p, m, boot[m], t) =>
        p.sn \in Nat /\ (p.sn <= nss \/ p.sn <= d)
  BY <1>1, UpstreamTypes DEF Announcement, nss, d
<1>6. CASE d > nss
  <2>1. PICK p \in Said :
          /\ p.type = "Upstream" /\ p.src = m /\ p.boot = boot[m] /\ p.tree = t /\ p.sn = d
          /\ p.upstream = (t \in r.tree_metric_state)
    BY <1>2, <1>4, <1>6 DEF Follows
  <2>2. NothingAfter(msgs, m, boot[m], t, d)
    BY <1>3, <1>5, <1>6 DEF NothingAfter
  <2>3. CASE p \in msgs
    <3>1. Announcement(p, m, boot[m], t)
      BY <2>1 DEF Announcement
    <3>2. p.upstream = TRUE <=> t \in ToSet(mrt[m])
      BY <1>1, <2>1, <2>2, <2>3, <3>1 DEF TablesAreTrue, LastWordIsTrue
    <3> QED
      BY <1>2, <2>1, <3>2
  <2>4. CASE p \notin msgs
    <3>1. PICK i \in interests : p = SaidAs(i)
      BY <2>4 DEF Said
    <3>2. i.src = m /\ i.boot = boot[m] /\ i.sn = d /\ i.tree = t /\ p.upstream = FALSE
      BY <2>1, <3>1 DEF SaidAs
    <3>3. t \notin ToSet(mrt[m])
      BY <1>1, <2>2, <3>2 DEF InterestsAreTrue
    <3> QED
      BY <1>2, <2>1, <3>2, <3>3
  <2> QED
    BY <2>3, <2>4
<1>7. CASE ~(d > nss)
  <2>1. t \in r.tree_metric_state <=> t \in ToSet(s.trees)
    BY <1>2, <1>4, <1>7 DEF Follows
  <2>2. s.owner = m /\ s.boot = boot[m] /\ s.sn = nss
    BY <1>4 DEF SnapshotOf
  <2>3. NothingAfter(msgs, m, boot[m], t, s.sn)
    BY <1>3, <1>5, <1>7, <2>2 DEF NothingAfter
  <2> QED
    BY <1>1, <1>2, <2>1, <2>2, <2>3 DEF TablesAreTrue, SnapshotIsTrue
<1> QED
  BY <1>6, <1>7

\* Who has the last word of m about t knows t.
LEMMA LastWordIsKnown ==
  ASSUME DeliveryInv, KnowledgeInv, NEW n \in Routers, NEW m \in Routers, NEW t \in Trees,
         HoldsPresentSnapshot(n, m), HasLastWord(n, m, t)
  PROVE  IsUpToDate(n, m, t)
<1>1. /\ TransmissionPairInv /\ TypeOK /\ LastSentIsGreatest
      /\ nbr[n][m].neighbor_snapshot_sn \in Nat
  <2>1. TransmissionPairInv /\ WordsArePast
    BY DEF DeliveryInv
  <2>2. LastSentHypothesis
    BY <2>1 DEF LastSentHypothesis, TransmissionPairInv, TransmissionTypeInv,
                TransmissionTypeOK, TypeOK
  <2> QED
    BY <2>1, <2>2, InvParts, LastSentBounds, NeighborTypes DEF Neighbor
<1>2. ASSUME NEW p \in msgs, Announcement(p, m, boot[m], t)
      PROVE  p.sn <= nbr[n][m].neighbor_snapshot_sn \/ p.sn <= delivered[n][m][t]
  <2>1. p \in SequencedFrom(n, m) /\ p.tree = t /\ p.boot = boot[m]
    BY <1>2 DEF Announcement, SequencedFrom
  <2>2. p.sn \in Nat /\ p.sn <= LastSent(n, m, t) /\ LastSent(n, m, t) \in Nat
    BY <1>1, <2>1 DEF LastSentIsGreatest
  <2> QED
    BY <1>1, <2>2 DEF HasLastWord
<1>3. t \in nbr[n][m].tree_metric_state <=> t \in ToSet(mrt[m])
  BY <1>1, <1>2, NothingMissed DEF HoldsPresentSnapshot
<1> QED
  BY <1>3 DEF IsUpToDate, HasLastWord

LEMMA KnowledgeImpliesSettled == DeliveryInv /\ KnowledgeInv => SettledIsKnown
<1> SUFFICES ASSUME DeliveryInv, KnowledgeInv,
                    NEW n \in Routers, NEW m \in Routers, NEW t \in Trees,
                    HoldsPresentSnapshot(n, m), n \notin Owing(m, buffer[m][t])
             PROVE  IsUpToDate(n, m, t)
  BY DEF SettledIsKnown
<1>1. HasLastWord(n, m, t)
  BY DeliveryInvImpliesSettled DEF SettledHasLastWord
<1> QED
  BY <1>1, LastWordIsKnown

LEMMA KnowledgeImpliesNothingHidden == DeliveryInv /\ KnowledgeInv => CheckpointHidesNoNews
<1> SUFFICES ASSUME DeliveryInv, KnowledgeInv,
                    NEW n \in Routers, NEW m \in Routers, NEW t \in Trees,
                    HoldsPresentSnapshot(n, m), LastSent(n, m, t) <= checkpoint_sn[n][m]
             PROVE  IsUpToDate(n, m, t)
  BY DEF CheckpointHidesNoNews
<1>1. HasLastWord(n, m, t)
  BY DeliveryInvImpliesNothingHidden DEF CheckpointHidesLastWord
<1> QED
  BY <1>1, LastWordIsKnown

LEMMA KnowledgeImpliesCurrent == DeliveryInv /\ KnowledgeInv => SyncedViewIsCurrent
<1> SUFFICES ASSUME DeliveryInv, KnowledgeInv,
                    NEW n \in Routers, NEW m \in Routers, NEW t \in Trees,
                    nbr[n][m].state = "Synced", nbr[n][m].time_of_boot = boot[m],
                    \A p \in msgs :
                      p.type = "Upstream" /\ p.src = m /\ p.boot = boot[m] /\ p.tree = t
                        => \/ p.sn <= nbr[n][m].neighbor_snapshot_sn
                           \/ p.sn <= nbr[n][m].last_sequence_number[t]
             PROVE  t \in nbr[n][m].tree_metric_state <=> t \in ToSet(mrt[m])
  BY DEF SyncedViewIsCurrent
<1>1. TransmissionPairInv /\ TypeOK /\ nbr[n][m] \in Neighbor
      /\ delivered[n][m] \in [Trees -> Nat]
  BY InvParts, FunctionTypes DEF DeliveryInv
<1>2. nbr[n][m].last_sequence_number[t] <= delivered[n][m][t]
  <2>1. nbr[n][m].last_sequence_number[t] \in {0, delivered[n][m][t]}
    BY DEF DeliveryInv, NumbersAreTrue, NumbersAreForgotten
  <2> QED
    BY <1>1, <2>1
<1>3. ASSUME NEW p \in msgs, Announcement(p, m, boot[m], t)
      PROVE  p.sn <= nbr[n][m].neighbor_snapshot_sn \/ p.sn <= delivered[n][m][t]
  <2>1. /\ p.sn \in Nat /\ nbr[n][m].neighbor_snapshot_sn \in Nat
        /\ nbr[n][m].last_sequence_number[t] \in Nat /\ delivered[n][m][t] \in Nat
    BY <1>1, <1>3, UpstreamTypes DEF Announcement, Neighbor
  <2>2. \/ p.sn <= nbr[n][m].neighbor_snapshot_sn
        \/ p.sn <= nbr[n][m].last_sequence_number[t]
    BY <1>3 DEF Announcement
  <2> QED
    BY <1>2, <2>1, <2>2
<1> QED
  BY <1>1, <1>3, NothingMissed

-----------------------------------------------------------------------------
(* The theorems *)

\* No Ack, stale or current, no new snapshot of m for n, no removal of n and no
\* later message makes m stop waiting for n before n has been passed the last
\* word of m about the tree and knows whether m is UPSTREAM of it (receive_ack,
\* recv_ack, neighbor_start_synchronization, retransmission_timeout).
THEOREM SettledIsKnownAlways == TransmissionSpec => []SettledIsKnown
<1>1. TransmissionInit => DeliveryInv /\ KnowledgeInv
  BY DeliveryInvInit, KnowledgeInvInit
<1>2. DeliveryInv /\ KnowledgeInv /\ [TransmissionNext]_allVars
        => DeliveryInv' /\ KnowledgeInv'
  BY DeliveryInvNext, KnowledgeInvNext
<1>3. DeliveryInv /\ KnowledgeInv => SettledIsKnown
  BY KnowledgeImpliesSettled
<1> QED
  BY <1>1, <1>2, <1>3, PTL DEF TransmissionSpec

\* The CheckpointSN that a Hello of m brings covers no message that n has not
\* been passed, whatever was outstanding when m computed it and however late the
\* Hello arrives (get_checkpoint_sn, set_checkpoint_sn).
THEOREM CheckpointHidesNothing == TransmissionSpec => []CheckpointHidesNoNews
<1>1. TransmissionInit => DeliveryInv /\ KnowledgeInv
  BY DeliveryInvInit, KnowledgeInvInit
<1>2. DeliveryInv /\ KnowledgeInv /\ [TransmissionNext]_allVars
        => DeliveryInv' /\ KnowledgeInv'
  BY DeliveryInvNext, KnowledgeInvNext
<1>3. DeliveryInv /\ KnowledgeInv => CheckpointHidesNoNews
  BY KnowledgeImpliesNothingHidden
<1> QED
  BY <1>1, <1>2, <1>3, PTL DEF TransmissionSpec

\* Although checkpoints make an object forget numbers, and Interests change what
\* it holds, a Synced object to which no message of m is news any more says of
\* every tree what is true of m (recv_reliable_packet).
THEOREM TransmissionViewIsCurrent == TransmissionSpec => []SyncedViewIsCurrent
<1>1. TransmissionInit => DeliveryInv /\ KnowledgeInv
  BY DeliveryInvInit, KnowledgeInvInit
<1>2. DeliveryInv /\ KnowledgeInv /\ [TransmissionNext]_allVars
        => DeliveryInv' /\ KnowledgeInv'
  BY DeliveryInvNext, KnowledgeInvNext
<1>3. DeliveryInv /\ KnowledgeInv => SyncedViewIsCurrent
  BY KnowledgeImpliesCurrent
<1> QED
  BY <1>1, <1>2, <1>3, PTL DEF TransmissionSpec
=============================================================================
