--------------------------- MODULE TreeEntryProofs ---------------------------
(***************************************************************************)
(* Lemmas about TreeEntry, for any routers, links and vifs: what every     *)
(* call of one tree at one router keeps true, and what it changes.         *)
(*                                                                         *)
(* An entry is Whole when it has its type, the inbound interface is the    *)
(* root interface, every other interface has the state of the tree and the *)
(* result of the AssertWinner election, and the kernel's multicast route   *)
(* is the one the entry calls for.  The lemmas of the last section say of  *)
(* each method of KernelEntry.py that it leads from a whole entry to a     *)
(* whole one, that it starts the removal thread if it makes the tree       *)
(* Inactive, and which of its fields it changes.                           *)
(*                                                                         *)
(* The loops over the interfaces are folds: FoldReaches is the induction   *)
(* over them, by the sets T[k] of the entries that step k may produce.     *)
(***************************************************************************)
EXTENDS TreeEntry, NaturalsInduction, WellFoundedInduction, FiniteSetTheorems, TLAPS

-----------------------------------------------------------------------------
(* Loops *)

LEMMA LeastNumber ==
  ASSUME NEW S \in SUBSET Nat, S # {}
  PROVE  \E x \in S : \A y \in S : x <= y
<1> DEFINE R == OpToRel(<, Nat)
<1>1. IsWellFoundedOn(R, Nat)
  BY NatLessThanWellFounded
<1>2. \A x, y \in Nat : <<x, y>> \in R <=> x < y
  BY DEF OpToRel
<1> HIDE DEF R
<1>3. PICK x \in S : \A y \in S : ~ (<<y, x>> \in R)
  BY <1>1, WFMin
<1>4. ASSUME NEW y \in S PROVE x <= y
  <2>1. x \in Nat /\ y \in Nat
    OBVIOUS
  <2>2. ~(y < x)
    BY <1>2, <1>3, <2>1
  <2> QED
    BY <2>1, <2>2
<1> QED
  BY <1>4

\* Induction, for a set of numbers instead of a predicate.
LEMMA Induction ==
  ASSUME NEW N \in Nat, NEW T, 0 \in T, \A k \in 1 .. N : k - 1 \in T => k \in T
  PROVE  \A k \in 0 .. N : k \in T
<1> DEFINE S == {k \in 0 .. N : k \notin T}
<1>1. SUFFICES ASSUME S # {} PROVE FALSE
  OBVIOUS
<1>2. S \in SUBSET Nat
  OBVIOUS
<1> HIDE DEF S
<1>3. PICK x \in S : \A y \in S : x <= y
  BY <1>1, <1>2, LeastNumber
<1> USE DEF S
<1>4. x \in 1 .. N
  OBVIOUS
<1>5. x - 1 \notin S
  BY <1>3, <1>4
<1> QED
  BY <1>4, <1>5

LEMMA IntervalFacts ==
  ASSUME NEW k \in Nat, k > 0
  PROVE  /\ Max(1 .. k) = k
         /\ (1 .. k) \ {k} = 1 .. (k - 1)
         /\ 1 .. k # {}
<1>1. k \in 1 .. k
  OBVIOUS
<1>2. Max(1 .. k) = k
  <2>1. Max(1 .. k) = CHOOSE x \in 1 .. k : \A y \in 1 .. k : x >= y
    BY DEF Max
  <2>2. \A y \in 1 .. k : k >= y
    OBVIOUS
  <2>3. \A x \in 1 .. k : (\A y \in 1 .. k : x >= y) => x = k
    <3> SUFFICES ASSUME NEW x \in 1 .. k, x >= k PROVE x = k
      BY <1>1
    <3> QED
      OBVIOUS
  <2> QED
    BY Zenon, <1>1, <2>1, <2>2, <2>3
<1>3. (1 .. k) \ {k} = 1 .. (k - 1)
  <2>1. ASSUME NEW x PROVE x \in (1 .. k) \ {k} <=> x \in 1 .. (k - 1)
    OBVIOUS
  <2> QED
    BY <2>1
<1> QED
  BY <1>1, <1>2, <1>3

LEMMA GreatestOfPrefix ==
  ASSUME NEW k \in Nat, NEW t \in SUBSET (1 .. k), t # {}
  PROVE  /\ Max(t) \in t
         /\ k > 0 /\ t \ {Max(t)} \in SUBSET (1 .. (k - 1))
<1> DEFINE S == {k - x : x \in t}
<1>1. S \in SUBSET Nat /\ S # {}
  <2>1. \A x \in t : k - x \in Nat
    OBVIOUS
  <2> QED
    BY <2>1
<1> HIDE DEF S
<1>2. PICK d \in S : \A y \in S : d <= y
  BY <1>1, LeastNumber
<1>3. PICK x \in t : d = k - x
  BY <1>2 DEF S
<1>4. \A y \in t : x >= y
  <2>1. ASSUME NEW y \in t PROVE x >= y
    <3>1. k - y \in S /\ x \in 1 .. k /\ y \in 1 .. k
      BY DEF S
    <3> QED
      BY <1>2, <1>3, <3>1
  <2> QED
    BY <2>1
<1>5. Max(t) \in t /\ \A y \in t : Max(t) >= y
  BY <1>4 DEF Max
<1>6. k > 0
  <2>1. Max(t) \in 1 .. k
    BY <1>5
  <2> QED
    BY <2>1
<1>7. ASSUME NEW y \in t \ {Max(t)} PROVE y \in 1 .. (k - 1)
  <2>1. y \in 1 .. k /\ Max(t) \in 1 .. k /\ Max(t) >= y /\ y # Max(t)
    BY <1>5
  <2> QED
    BY <2>1
<1> QED
  BY <1>5, <1>6, <1>7

\* f is the function that defines the fold of G over 1 .. N from e.
DefinesFold(f, N, e, G) ==
  \A t \in SUBSET (1 .. N) :
    f[t] = IF t = {} THEN e ELSE G[<<f[t \ {Max(t)}], Max(t)>>]

LEMMA FoldExists ==
  ASSUME NEW N \in Nat, NEW S, NEW e \in S, NEW G \in [S \X (1 .. N) -> S]
  PROVE  \E f \in [SUBSET (1 .. N) -> S] : DefinesFold(f, N, e, G)
<1> DEFINE T == {k \in 0 .. N :
                   \E f \in [SUBSET (1 .. k) -> S] : \A t \in SUBSET (1 .. k) :
                     f[t] = IF t = {} THEN e ELSE G[<<f[t \ {Max(t)}], Max(t)>>]}
<1>1. 0 \in T
  <2>1. SUBSET (1 .. 0) = {{}}
    OBVIOUS
  <2> DEFINE f == [t \in SUBSET (1 .. 0) |-> e]
  <2>2. f \in [SUBSET (1 .. 0) -> S]
    OBVIOUS
  <2>3. \A t \in SUBSET (1 .. 0) : f[t] = IF t = {} THEN e ELSE G[<<f[t \ {Max(t)}], Max(t)>>]
    BY <2>1
  <2>4. 0 \in 0 .. N
    OBVIOUS
  <2> HIDE DEF f
  <2> QED
    BY Zenon, <2>2, <2>3, <2>4
<1>2. ASSUME NEW k \in 1 .. N, k - 1 \in T PROVE k \in T
  <2>1. PICK f \in [SUBSET (1 .. (k - 1)) -> S] : \A t \in SUBSET (1 .. (k - 1)) :
          f[t] = IF t = {} THEN e ELSE G[<<f[t \ {Max(t)}], Max(t)>>]
    BY <1>2
  <2> DEFINE g == [t \in SUBSET (1 .. k) |->
                     IF t = {} THEN e ELSE G[<<f[t \ {Max(t)}], Max(t)>>]]
  <2>2. ASSUME NEW t \in SUBSET (1 .. k), t # {}
        PROVE  /\ t \ {Max(t)} \in SUBSET (1 .. (k - 1))
               /\ t \ {Max(t)} \in SUBSET (1 .. k)
               /\ Max(t) \in 1 .. N
    <3>1. k \in Nat
      OBVIOUS
    <3>2. Max(t) \in t /\ t \ {Max(t)} \in SUBSET (1 .. (k - 1))
      BY Zenon, <2>2, <3>1, GreatestOfPrefix
    <3>3. 1 .. (k - 1) \subseteq 1 .. k /\ 1 .. k \subseteq 1 .. N
      OBVIOUS
    <3> QED
      BY Zenon, <3>2, <3>3
  <2>3. ASSUME NEW t \in SUBSET (1 .. k) PROVE g[t] \in S
    <3>1. CASE t = {}
      BY <3>1
    <3>2. CASE t # {}
      <4>1. f[t \ {Max(t)}] \in S
        BY <2>1, <2>2, <3>2
      <4> QED
        BY <2>2, <3>2, <4>1
    <3> QED
      BY <3>1, <3>2
  <2>4. ASSUME NEW t \in SUBSET (1 .. (k - 1)) PROVE g[t] = f[t]
    <3>1. t \in SUBSET (1 .. k)
      OBVIOUS
    <3> QED
      BY <2>1, <3>1
  <2>5. ASSUME NEW t \in SUBSET (1 .. k)
        PROVE  g[t] = IF t = {} THEN e ELSE G[<<g[t \ {Max(t)}], Max(t)>>]
    BY <2>2, <2>4
  <2>6. g \in [SUBSET (1 .. k) -> S]
    BY <2>3
  <2>7. k \in 0 .. N
    OBVIOUS
  <2> HIDE DEF g
  <2> QED
    BY <2>5, <2>6, <2>7
<1>3. N \in T
  <2> HIDE DEF T
  <2>1. \A k \in 0 .. N : k \in T
    BY <1>1, <1>2, Induction
  <2> QED
    BY <2>1
<1> QED
  BY <1>3 DEF DefinesFold

-----------------------------------------------------------------------------
(* What a call leaves alone *)

\* The relations of an entry f to the entry e it was made from, each stronger
\* than the one before.
Keeps(f, e) ==
  /\ f \in Entry
  /\ f.router = e.router /\ f.originator = e.originator
  /\ f.rpc = e.rpc /\ f.inbound = e.inbound
  /\ f.ups = e.ups /\ f.int = e.int /\ f.local = e.local /\ f.sat = e.sat
  /\ \A l \in Links : f.ifs[l].role = e.ifs[l].role
KeepsTree(f, e) == Keeps(f, e) /\ f.tree = e.tree /\ f.removals = e.removals
KeepsBut(f, e, i) == KeepsTree(f, e) /\ \A l \in Links : l # i => f.ifs[l] = e.ifs[l]
KeepsInterfaces(f, e) == KeepsTree(f, e) /\ f.ifs = e.ifs

\* f is e, except for interface i.
Others(f, e, i) ==
  /\ f.router = e.router /\ f.originator = e.originator /\ f.tree = e.tree
  /\ f.rpc = e.rpc /\ f.inbound = e.inbound
  /\ f.ups = e.ups /\ f.int = e.int /\ f.local = e.local
  /\ f.was_in_tree = e.was_in_tree /\ f.sat = e.sat
  /\ f.mfc = e.mfc /\ f.out = e.out /\ f.removals = e.removals
  /\ \A l \in Links : l # i => f.ifs[l] = e.ifs[l]

LEMMA EntryTypes ==
  ASSUME NEW e \in Entry
  PROVE  /\ e.router \in Routers /\ e.originator \in BOOLEAN /\ e.tree \in TreeStates
         /\ e.rpc \in Nat /\ e.inbound \in Links \cup {None}
         /\ e.ups \in [Links -> AssertMetrics] /\ e.int \in [Links -> BOOLEAN]
         /\ e.ifs \in [Links -> Interface] /\ e.local \in SUBSET Links
         /\ e.was_in_tree \in BOOLEAN /\ e.sat \in BOOLEAN
         /\ e.mfc \in [iif : Links \cup {None}, oil : SUBSET Links]
         /\ e.out \in Seq(Messages) /\ e.removals \in Nat
BY DEF Entry

LEMMA InterfaceTypes ==
  ASSUME NEW x \in Interface
  PROVE  /\ x.role \in {"Absent", "Root", "NonRoot"} /\ x.tree \in TreeStates
         /\ x.winner \in BOOLEAN /\ x.hold \in BOOLEAN /\ x.rpc \in Nat
         /\ \A t \in TreeStates : [x EXCEPT !.tree = t] \in Interface
         /\ \A r \in Nat : [x EXCEPT !.rpc = r] \in Interface
         /\ \A h \in BOOLEAN : /\ [x EXCEPT !.hold = h] \in Interface
                               /\ \A w \in BOOLEAN :
                                    [x EXCEPT !.winner = w, !.hold = h] \in Interface
BY DEF Interface

LEMMA InterfaceChange ==
  ASSUME NEW e \in Entry, NEW i \in Links, NEW x \in Interface
  PROVE  LET f == [e EXCEPT !.ifs[i] = x]
         IN  f \in Entry /\ Others(f, e, i) /\ f.ifs[i] = x
BY DEF Entry, Others

LEMMA TreeChange ==
  ASSUME NEW e \in Entry, NEW i \in Links, NEW t \in TreeStates
  PROVE  LET f == SetInterfaceTree(e, i, t)
         IN  f \in Entry /\ Others(f, e, i) /\ f.ifs[i] = [e.ifs[i] EXCEPT !.tree = t]
<1>1. [e.ifs[i] EXCEPT !.tree = t] \in Interface
  <2>1. e.ifs[i] \in Interface
    BY EntryTypes
  <2> QED
    BY <2>1, InterfaceTypes
<1>2. SetInterfaceTree(e, i, t) = [e EXCEPT !.ifs[i] = [e.ifs[i] EXCEPT !.tree = t]]
  BY DEF SetInterfaceTree, Entry
<1> QED
  BY <1>1, <1>2, InterfaceChange

LEMMA HoldChange ==
  ASSUME NEW e \in Entry, NEW i \in Links, NEW h \in BOOLEAN
  PROVE  LET f == [e EXCEPT !.ifs[i].hold = h]
         IN  f \in Entry /\ Others(f, e, i) /\ f.ifs[i] = [e.ifs[i] EXCEPT !.hold = h]
<1>1. [e.ifs[i] EXCEPT !.hold = h] \in Interface
  <2>1. e.ifs[i] \in Interface
    BY EntryTypes
  <2> QED
    BY <2>1, InterfaceTypes
<1>2. [e EXCEPT !.ifs[i].hold = h] = [e EXCEPT !.ifs[i] = [e.ifs[i] EXCEPT !.hold = h]]
  BY DEF Entry
<1> QED
  BY <1>1, <1>2, InterfaceChange

LEMMA RpcChange ==
  ASSUME NEW e \in Entry, NEW i \in Links, NEW r \in Nat
  PROVE  LET f == [e EXCEPT !.ifs[i].rpc = r]
         IN  f \in Entry /\ Others(f, e, i) /\ f.ifs[i] = [e.ifs[i] EXCEPT !.rpc = r]
<1>1. [e.ifs[i] EXCEPT !.rpc = r] \in Interface
  <2>1. e.ifs[i] \in Interface
    BY EntryTypes
  <2> QED
    BY <2>1, InterfaceTypes
<1>2. [e EXCEPT !.ifs[i].rpc = r] = [e EXCEPT !.ifs[i] = [e.ifs[i] EXCEPT !.rpc = r]]
  BY DEF Entry
<1> QED
  BY <1>1, <1>2, InterfaceChange

LEMMA MessageChange ==
  ASSUME NEW e \in Entry, NEW m \in Messages
  PROVE  LET f == [e EXCEPT !.out = Append(@, m)]
         IN  KeepsInterfaces(f, e) /\ f.out = Append(e.out, m)
<1>1. e.out \in Seq(Messages)
  BY DEF Entry
<1>2. Append(e.out, m) \in Seq(Messages)
  BY <1>1
<1> DEFINE o == Append(e.out, m)
<1> HIDE DEF o
<1>3. [e EXCEPT !.out = o] \in Entry
  BY <1>2 DEF Entry, o
<1>4. KeepsInterfaces([e EXCEPT !.out = o], e) /\ [e EXCEPT !.out = o].out = o
  BY <1>3 DEF Entry, KeepsInterfaces, KeepsTree, Keeps
<1> QED
  BY <1>4 DEF o

MessageKinds == {"IamUpstream", "IamNoLongerUpstream", "Interest", "NoInterest"}

LEMMA SendKeeps ==
  ASSUME NEW e \in Entry, NEW i \in Links, NEW k \in MessageKinds
  PROVE  /\ KeepsInterfaces(Send(e, i, k), e)
         /\ Send(e, i, k).mfc = e.mfc
<1> DEFINE m == [kind |-> k, link |-> i,
      to |-> IF k \in {"Interest", "NoInterest"} THEN e.ups[i].ip ELSE None,
      metric |-> IF k = "IamUpstream" THEN e.ifs[i].rpc ELSE 0]
<1>1. e.ups[i].ip \in Routers \cup {None} /\ e.ifs[i].rpc \in Nat
  <2>1. e.ups[i] \in AssertMetrics /\ e.ifs[i] \in Interface
    BY EntryTypes
  <2> QED
    BY <2>1 DEF AssertMetrics, NoUpstream, Interface
<1>2. m \in Messages
  <2>1. CASE k = "IamUpstream"
    BY <1>1, <2>1 DEF Messages
  <2>2. CASE k \in {"IamNoLongerUpstream", "Interest", "NoInterest"}
    BY <1>1, <2>2 DEF Messages
  <2> QED
    BY <2>1, <2>2 DEF MessageKinds
<1>3. Send(e, i, k) = [e EXCEPT !.out = Append(@, m)]
  BY DEF Send
<1> HIDE DEF m
<1>4. Send(e, i, k).mfc = e.mfc
  BY <1>3 DEF Entry
<1> QED
  BY <1>2, <1>3, <1>4, MessageChange

LEMMA ChangeKeeps ==
  ASSUME NEW e \in Entry
  PROVE  KeepsInterfaces(Change(e), e) /\ Change(e).out = e.out
BY DEF KeepsInterfaces, KeepsTree, Keeps, Change, Entry, OutboundInterfaces

LEMMA EvaluateKeeps ==
  ASSUME NEW e \in Entry
  PROVE  KeepsInterfaces(EvaluateInTree(e), e) /\ EvaluateInTree(e).mfc = e.mfc
<1> DEFINE told == [e EXCEPT !.was_in_tree = IsInTree(e)]
<1>1. told \in Entry /\ KeepsInterfaces(told, e) /\ told.mfc = e.mfc
  BY DEF Entry, KeepsInterfaces, KeepsTree, Keeps, IsInTree
<1>2. KeepsInterfaces(e, e)
  BY DEF KeepsInterfaces, KeepsTree, Keeps
<1> HIDE DEF told
<1>3. ASSUME e.inbound # None
      PROVE  LET f == SendMyInterest(told, e.inbound) IN KeepsInterfaces(f, told) /\ f.mfc = told.mfc
  <2>1. e.inbound \in Links
    BY <1>3, EntryTypes
  <2>2. (IF IsInTree(told) THEN "Interest" ELSE "NoInterest") \in MessageKinds
    BY DEF MessageKinds
  <2> QED
    BY <1>1, <2>1, <2>2, SendKeeps DEF SendMyInterest
<1> HIDE DEF told
<1>4. EvaluateInTree(e) \in {e, told}
        \cup (IF e.inbound # None THEN {SendMyInterest(told, e.inbound)} ELSE {})
  BY DEF EvaluateInTree, told
<1> QED
  BY <1>1, <1>2, <1>3, <1>4 DEF KeepsInterfaces, KeepsTree, Keeps

-----------------------------------------------------------------------------
(* The AssertWinner election *)

\* The multicast route is the one the entry calls for.
Current(e) ==
  e.inbound # None /\ e.tree # "Inactive" =>
    e.mfc = [iif |-> e.inbound, oil |-> OutboundInterfaces(e)]

\* A NonRoot interface has the result of the election.
Elected(e, i) == e.ifs[i].role = "NonRoot" => e.ifs[i].winner = WinsAssert(e, i)

LEMMA KeepsItself ==
  ASSUME NEW e \in Entry
  PROVE  KeepsInterfaces(e, e)
BY DEF KeepsInterfaces, KeepsTree, Keeps

LEMMA KeepsTransitive ==
  ASSUME NEW e, NEW f, NEW g, NEW i
  PROVE  /\ KeepsInterfaces(g, f) /\ KeepsInterfaces(f, e) => KeepsInterfaces(g, e)
         /\ KeepsBut(g, f, i) /\ KeepsBut(f, e, i) => KeepsBut(g, e, i)
         /\ KeepsTree(g, f) /\ KeepsTree(f, e) => KeepsTree(g, e)
         /\ Keeps(g, f) /\ Keeps(f, e) => Keeps(g, e)
         /\ KeepsInterfaces(f, e) => KeepsBut(f, e, i)
         /\ KeepsBut(f, e, i) => KeepsTree(f, e)
         /\ KeepsTree(f, e) => Keeps(f, e)
         /\ Keeps(f, e) => f \in Entry
<1>1. /\ KeepsInterfaces(g, f) /\ KeepsInterfaces(f, e) => KeepsInterfaces(g, e)
      /\ KeepsTree(g, f) /\ KeepsTree(f, e) => KeepsTree(g, e)
      /\ Keeps(g, f) /\ Keeps(f, e) => Keeps(g, e)
  BY DEF KeepsInterfaces, KeepsTree, Keeps
<1>2. /\ KeepsBut(g, f, i) /\ KeepsBut(f, e, i) => KeepsBut(g, e, i)
      /\ KeepsInterfaces(f, e) => KeepsBut(f, e, i)
  BY <1>1 DEF KeepsBut, KeepsInterfaces
<1> QED
  BY <1>1, <1>2 DEF KeepsBut, KeepsTree, Keeps

LEMMA OthersKeep ==
  ASSUME NEW e \in Entry, NEW f \in Entry, NEW i \in Links, Others(f, e, i),
         f.ifs[i].role = e.ifs[i].role
  PROVE  KeepsBut(f, e, i)
BY DEF KeepsBut, KeepsTree, Keeps, Others

LEMMA SameForwarding ==
  ASSUME NEW e \in Entry, NEW f, KeepsInterfaces(f, e)
  PROVE  /\ OutboundInterfaces(f) = OutboundInterfaces(e)
         /\ IsInTree(f) = IsInTree(e)
         /\ f.mfc = e.mfc /\ Current(e) => Current(f)
<1>1. OutboundInterfaces(f) = OutboundInterfaces(e)
  BY DEF OutboundInterfaces, Forwarding, KeepsInterfaces, KeepsTree, Keeps
<1> QED
  BY <1>1 DEF IsInTree, Current, KeepsInterfaces, KeepsTree, Keeps

LEMMA ChangeIsCurrent ==
  ASSUME NEW e \in Entry
  PROVE  Current(Change(e))
<1>1. KeepsInterfaces(Change(e), e)
  BY ChangeKeeps
<1>2. OutboundInterfaces(Change(e)) = OutboundInterfaces(e)
  BY <1>1, SameForwarding
<1>3. Change(e).inbound = e.inbound /\ Change(e).tree = e.tree
  BY <1>1 DEF KeepsInterfaces, KeepsTree, Keeps
<1>4. e.inbound # None /\ e.tree # "Inactive" =>
        Change(e).mfc = [iif |-> e.inbound, oil |-> OutboundInterfaces(e)]
  BY DEF Change, Entry
<1> QED
  BY <1>2, <1>3, <1>4 DEF Current

LEMMA EvaluateIsCurrent ==
  ASSUME NEW e \in Entry, Current(e)
  PROVE  Current(EvaluateInTree(e))
BY EvaluateKeeps, SameForwarding

LEMMA ChangeAndEvaluate ==
  ASSUME NEW e \in Entry
  PROVE  /\ KeepsInterfaces(EvaluateInTree(Change(e)), e)
         /\ Current(EvaluateInTree(Change(e)))
<1>1. KeepsInterfaces(Change(e), e) /\ Change(e) \in Entry
  BY ChangeKeeps DEF KeepsInterfaces, KeepsTree, Keeps
<1>2. KeepsInterfaces(EvaluateInTree(Change(e)), Change(e))
  BY <1>1, EvaluateKeeps
<1> QED
  BY <1>1, <1>2, ChangeIsCurrent, EvaluateIsCurrent, KeepsTransitive

LEMMA WinsAssertType ==
  ASSUME NEW e \in Entry, NEW i \in Links
  PROVE  WinsAssert(e, i) \in BOOLEAN
<1>1. e.ifs[i].tree \in {"Active", "Unsure", "Inactive"}
  BY DEF Entry, Interface, TreeStates
<1> QED
  BY <1>1 DEF WinsAssert, IsBetterThan

LEMMA ElectedKeeps ==
  ASSUME NEW e \in Entry, NEW i \in Links
  PROVE  LET f == ElectedInterface(e, i)
         IN  /\ f \in Entry /\ KeepsBut(f, e, i) /\ Others(f, e, i)
             /\ f.ifs[i].tree = e.ifs[i].tree /\ f.ifs[i].rpc = e.ifs[i].rpc
             /\ f.ifs[i].winner = WinsAssert(e, i)
             /\ WinsAssert(f, i) = WinsAssert(e, i)
<1> DEFINE w == WinsAssert(e, i)
           h == HoldForwarding /\ ~w
           x == [e.ifs[i] EXCEPT !.winner = w, !.hold = h]
           f == ElectedInterface(e, i)
<1>1. w \in BOOLEAN /\ h \in BOOLEAN
  BY WinsAssertType
<1>2. e.ifs[i] \in Interface
  BY EntryTypes
<1>3. x \in Interface
  BY <1>1, <1>2, InterfaceTypes
<1>4. /\ x.tree = e.ifs[i].tree /\ x.rpc = e.ifs[i].rpc /\ x.role = e.ifs[i].role
      /\ x.winner = w
  BY <1>2 DEF Interface
<1>5. CASE e.ifs[i].winner = w
  <2>1. f = e
    BY <1>5 DEF ElectedInterface
  <2> QED
    BY <1>5, <2>1, KeepsItself, KeepsTransitive DEF Others
<1>6. CASE e.ifs[i].winner # w
  <2>1. w = ~e.ifs[i].winner
    BY <1>1, <1>2, <1>6 DEF Interface
  <2>2. f = [e EXCEPT !.ifs[i].winner = w, !.ifs[i].hold = h]
    BY <1>6, <2>1 DEF ElectedInterface
  <2> HIDE DEF w, h
  <2>3. f = [e EXCEPT !.ifs[i] = x]
    BY <2>2 DEF Entry, Interface
  <2> HIDE DEF x, f
  <2>4. f \in Entry /\ Others(f, e, i) /\ f.ifs[i] = x
    BY <1>3, <2>3, InterfaceChange
  <2>5. KeepsBut(f, e, i)
    BY <1>4, <2>4, OthersKeep
  <2>6. WinsAssert(f, i) = WinsAssert(e, i)
    BY <1>4, <2>4 DEF WinsAssert, Others
  <2> QED
    BY <1>4, <2>4, <2>5, <2>6 DEF f, w
<1> QED
  BY <1>5, <1>6

\* What calculate_assert_winner, and whatever ends with it, does to interface i.
ElectionOf(f, e, i) ==
  /\ f \in Entry /\ KeepsBut(f, e, i) /\ Elected(f, i)
  /\ Current(e) => Current(f)

LEMMA CalculateKeeps ==
  ASSUME NEW e \in Entry, NEW i \in Links
  PROVE  LET f == CalculateAssertWinner(e, i)
         IN  /\ ElectionOf(f, e, i)
             /\ f.ifs[i].tree = e.ifs[i].tree /\ f.ifs[i].rpc = e.ifs[i].rpc
             /\ f.ifs[i].winner = WinsAssert(f, i)
             /\ WinsAssert(f, i) = WinsAssert(e, i)
<1> DEFINE f == CalculateAssertWinner(e, i)
           g == ElectedInterface(e, i)
<1>1. CASE e.ifs[i].winner = WinsAssert(e, i)
  BY <1>1, KeepsItself, KeepsTransitive DEF CalculateAssertWinner, ElectionOf, Elected
<1>2. CASE e.ifs[i].winner # WinsAssert(e, i)
  <2>1. f = EvaluateInTree(Change(g))
    BY <1>2 DEF CalculateAssertWinner
  <2>2. /\ g \in Entry /\ KeepsBut(g, e, i)
        /\ g.ifs[i].tree = e.ifs[i].tree /\ g.ifs[i].rpc = e.ifs[i].rpc
        /\ g.ifs[i].winner = WinsAssert(e, i)
        /\ WinsAssert(g, i) = WinsAssert(e, i)
    BY ElectedKeeps
  <2> HIDE DEF f, g
  <2>3. KeepsInterfaces(f, g) /\ Current(f)
    BY <2>1, <2>2, ChangeAndEvaluate
  <2>4. f \in Entry /\ KeepsBut(f, e, i)
    BY <2>2, <2>3, KeepsTransitive
  <2>5. f.ifs = g.ifs /\ WinsAssert(f, i) = WinsAssert(g, i)
    BY <2>3 DEF WinsAssert, KeepsInterfaces, KeepsTree, Keeps
  <2> QED
    BY <2>2, <2>3, <2>4, <2>5 DEF ElectionOf, Elected, f
<1> QED
  BY <1>1, <1>2

LEMMA SendThenKeeps ==
  ASSUME NEW e \in Entry, NEW i \in Links, NEW f, NEW k \in MessageKinds, ElectionOf(f, e, i)
  PROVE  LET g == Send(f, i, k)
         IN  /\ ElectionOf(g, e, i) /\ g.ifs = f.ifs
<1> DEFINE g == Send(f, i, k)
<1>1. f \in Entry
  BY DEF ElectionOf
<1>2. KeepsInterfaces(g, f) /\ g.mfc = f.mfc
  BY <1>1, SendKeeps
<1> HIDE DEF g
<1>3. g \in Entry /\ g.ifs = f.ifs /\ KeepsBut(g, e, i) /\ (Current(f) => Current(g))
  BY <1>1, <1>2, SameForwarding, KeepsTransitive DEF ElectionOf, KeepsInterfaces
<1>4. Elected(g, i)
  BY <1>2 DEF Elected, WinsAssert, ElectionOf, KeepsInterfaces, KeepsTree, Keeps
<1> QED
  BY <1>3, <1>4 DEF ElectionOf, g

\* The election after other changes of interface i, and without them.
LEMMA CalculateAfter ==
  ASSUME NEW e \in Entry, NEW i \in Links, NEW f \in Entry, KeepsBut(f, e, i),
         Current(e) => Current(f)
  PROVE  LET g == CalculateAssertWinner(f, i)
         IN  /\ ElectionOf(g, e, i)
             /\ g.ifs[i].tree = f.ifs[i].tree /\ g.ifs[i].rpc = f.ifs[i].rpc
BY CalculateKeeps, KeepsTransitive DEF ElectionOf

LEMMA SetTreeKeeps ==
  ASSUME NEW e \in Entry, NEW i \in Links, NEW t \in TreeStates
  PROVE  LET f == SetInterfaceTree(e, i, t)
         IN  /\ f \in Entry /\ KeepsBut(f, e, i) /\ f.ifs[i].tree = t
             /\ Current(e) => Current(f)
             /\ f.out = e.out
<1> DEFINE f == SetInterfaceTree(e, i, t)
<1>1. f \in Entry /\ Others(f, e, i) /\ f.ifs[i] = [e.ifs[i] EXCEPT !.tree = t]
  BY TreeChange
<1>2. e.ifs[i] \in Interface
  BY EntryTypes
<1>3. f.ifs[i].tree = t /\ f.ifs[i].role = e.ifs[i].role
      /\ f.ifs[i].winner = e.ifs[i].winner /\ f.ifs[i].hold = e.ifs[i].hold
  BY <1>1, <1>2 DEF Interface
<1> HIDE DEF f
<1>4. KeepsBut(f, e, i)
  BY <1>1, <1>3, OthersKeep
<1>5. OutboundInterfaces(f) = OutboundInterfaces(e)
  <2>1. \A l \in Links : Forwarding(f, l) <=> Forwarding(e, l)
    BY <1>1, <1>3 DEF Forwarding, Others
  <2> QED
    BY <2>1 DEF OutboundInterfaces
<1> QED
  BY <1>1, <1>3, <1>4, <1>5 DEF Current, Others, f

-----------------------------------------------------------------------------
(* The state of the tree *)

\* tree_transition_to_* of interface i.
Entered(f, e, i, t) ==
  /\ f \in Entry /\ KeepsBut(f, e, i)
  /\ Elected(e, i) => Elected(f, i)
  /\ e.ifs[i].role # "NonRoot" \/ i \notin SourceLinks => f.ifs[i].tree = t

LEMMA RootEntered ==
  ASSUME NEW e \in Entry, NEW i \in Links, NEW t \in TreeStates, e.ifs[i].role = "Root"
  PROVE  Entered(SetInterfaceTree(e, i, t), e, i, t)
<1>1. SetInterfaceTree(e, i, t).ifs[i].role = "Root"
  BY SetTreeKeeps DEF KeepsBut, KeepsTree, Keeps
<1> QED
  BY <1>1, SetTreeKeeps DEF Entered, Elected

LEMMA InterfaceToActiveKeeps ==
  ASSUME NEW e \in Entry, NEW i \in Links, Present(e, i)
  PROVE  Entered(InterfaceToActive(e, i), e, i, "Active")
<1> DEFINE s == SetInterfaceTree(e, i, "Active")
           f == CalculateAssertWinner(s, i)
<1> "Active" \in TreeStates /\ "IamUpstream" \in MessageKinds
  BY DEF TreeStates, MessageKinds
<1>1. CASE e.ifs[i].role = "Root"
  BY <1>1, RootEntered DEF InterfaceToActive
<1>2. CASE e.ifs[i].role # "Root" /\ (e.ifs[i].tree = "Active" \/ i \in SourceLinks)
  <2>1. e.ifs[i].role = "NonRoot"
    BY <1>2, EntryTypes DEF Present, Interface
  <2> QED
    BY <1>2, <2>1, KeepsItself, KeepsTransitive DEF InterfaceToActive, Entered
<1>3. CASE e.ifs[i].role # "Root" /\ ~(e.ifs[i].tree = "Active" \/ i \in SourceLinks)
  <2>1. InterfaceToActive(e, i) = Send(f, i, "IamUpstream")
    BY <1>3 DEF InterfaceToActive
  <2>2. /\ s \in Entry /\ KeepsBut(s, e, i) /\ s.ifs[i].tree = "Active"
        /\ Current(e) => Current(s)
    BY SetTreeKeeps
  <2> HIDE DEF s
  <2>3. ElectionOf(f, e, i) /\ f.ifs[i].tree = "Active"
    BY <2>2, CalculateAfter
  <2> HIDE DEF f
  <2>4. LET g == Send(f, i, "IamUpstream") IN ElectionOf(g, e, i) /\ g.ifs = f.ifs
    BY <2>3, SendThenKeeps
  <2> QED
    BY <2>1, <2>3, <2>4 DEF Entered, ElectionOf
<1> QED
  BY <1>1, <1>2, <1>3

LEMMA SendBeforeUnsureKeeps ==
  ASSUME NEW e \in Entry, NEW i \in Links
  PROVE  LET b == SendBeforeUnsure(e, i)
         IN  b \in Entry /\ KeepsInterfaces(b, e) /\ b.mfc = e.mfc
<1> DEFINE left == IF e.ifs[i].tree = "Active" THEN Send(e, i, "IamNoLongerUpstream") ELSE e
<1> "IamNoLongerUpstream" \in MessageKinds /\ "NoInterest" \in MessageKinds
  BY DEF MessageKinds
<1>1. KeepsInterfaces(left, e) /\ left.mfc = e.mfc
  BY SendKeeps, KeepsItself
<1>2. SendBeforeUnsure(e, i) \in {left, Send(left, i, "NoInterest")}
  BY DEF SendBeforeUnsure
<1> HIDE DEF left
<1>3. left \in Entry
  BY <1>1 DEF KeepsInterfaces, KeepsTree, Keeps
<1>4. KeepsInterfaces(Send(left, i, "NoInterest"), left) /\ Send(left, i, "NoInterest").mfc = left.mfc
  BY <1>3, SendKeeps
<1>5. KeepsInterfaces(Send(left, i, "NoInterest"), e)
  BY <1>1, <1>4, KeepsTransitive
<1> QED
  BY <1>1, <1>2, <1>3, <1>4, <1>5 DEF KeepsInterfaces, KeepsTree, Keeps

LEMMA InterfaceToUnsureKeeps ==
  ASSUME NEW e \in Entry, NEW i \in Links, Present(e, i)
  PROVE  Entered(InterfaceToUnsure(e, i), e, i, "Unsure")
<1> DEFINE b == SendBeforeUnsure(e, i)
           s == SetInterfaceTree(b, i, "Unsure")
           f == CalculateAssertWinner(s, i)
<1> "Unsure" \in TreeStates
  BY DEF TreeStates
<1>1. CASE e.ifs[i].role = "Root"
  BY <1>1, RootEntered DEF InterfaceToUnsure
<1>2. CASE e.ifs[i].role # "Root" /\ e.ifs[i].tree = "Unsure"
  BY <1>2, KeepsItself, KeepsTransitive DEF InterfaceToUnsure, Entered
<1>3. CASE e.ifs[i].role # "Root" /\ e.ifs[i].tree # "Unsure"
  <2>1. InterfaceToUnsure(e, i) = f
    BY <1>3 DEF InterfaceToUnsure
  <2>2. b \in Entry /\ KeepsInterfaces(b, e) /\ b.mfc = e.mfc
    BY SendBeforeUnsureKeeps
  <2>3. KeepsBut(b, e, i) /\ (Current(e) => Current(b))
    BY <2>2, SameForwarding, KeepsTransitive
  <2> HIDE DEF b
  <2>4. /\ s \in Entry /\ KeepsBut(s, b, i) /\ s.ifs[i].tree = "Unsure"
        /\ Current(b) => Current(s)
    BY <2>2, SetTreeKeeps
  <2>5. KeepsBut(s, e, i)
    BY <2>3, <2>4, KeepsTransitive
  <2> HIDE DEF s
  <2>6. ElectionOf(f, e, i) /\ f.ifs[i].tree = "Unsure"
    BY <2>3, <2>4, <2>5, CalculateAfter
  <2> HIDE DEF f
  <2> QED
    BY <2>1, <2>6 DEF Entered, ElectionOf
<1> QED
  BY <1>1, <1>2, <1>3

LEMMA InterfaceToInactiveKeeps ==
  ASSUME NEW e \in Entry, NEW i \in Links, Present(e, i)
  PROVE  Entered(InterfaceToInactive(e, i), e, i, "Inactive")
<1> DEFINE b == SendBeforeInactive(e, i)
           s == SetInterfaceTree(b, i, "Inactive")
           f == CalculateAssertWinner(s, i)
<1> "Inactive" \in TreeStates
  BY DEF TreeStates
<1>1. CASE e.ifs[i].role = "Root"
  BY <1>1, RootEntered DEF InterfaceToInactive
<1>2. CASE e.ifs[i].role # "Root" /\ e.ifs[i].tree = "Inactive"
  BY <1>2, KeepsItself, KeepsTransitive DEF InterfaceToInactive, Entered
<1>3. CASE e.ifs[i].role # "Root" /\ e.ifs[i].tree # "Inactive"
  <2>1. InterfaceToInactive(e, i) = f
    BY <1>3 DEF InterfaceToInactive
  <2>2. b \in Entry /\ KeepsInterfaces(b, e) /\ b.mfc = e.mfc
    BY SendKeeps, KeepsItself, KeepsTransitive
       DEF SendBeforeInactive, MessageKinds, KeepsInterfaces, KeepsTree, Keeps
  <2>3. KeepsBut(b, e, i) /\ (Current(e) => Current(b))
    BY <2>2, SameForwarding, KeepsTransitive
  <2> HIDE DEF b
  <2>4. /\ s \in Entry /\ KeepsBut(s, b, i) /\ s.ifs[i].tree = "Inactive"
        /\ Current(b) => Current(s)
    BY <2>2, SetTreeKeeps
  <2>5. KeepsBut(s, e, i)
    BY <2>3, <2>4, KeepsTransitive
  <2> HIDE DEF s
  <2>6. ElectionOf(f, e, i) /\ f.ifs[i].tree = "Inactive"
    BY <2>3, <2>4, <2>5, CalculateAfter
  <2> HIDE DEF f
  <2> QED
    BY <2>1, <2>6 DEF Entered, ElectionOf
<1> QED
  BY <1>1, <1>2, <1>3

-----------------------------------------------------------------------------
(* Loops over the interfaces *)

\* h is a function that a fold of G over 1 .. N from e, in the set S, reads: its
\* values are known as far as they stay in S.
ReadsFold(h, N, S, e, G) ==
  /\ h[{}] = e
  /\ \A t \in SUBSET (1 .. N) : t # {} /\ h[t \ {Max(t)}] \in S =>
       h[t] = G[<<h[t \ {Max(t)}], Max(t)>>]

\* A fold ends in T[N] when it starts in T[0] and step k leads from T[k - 1] to T[k].
LEMMA FoldReaches ==
  ASSUME NEW N \in Nat, NEW S, NEW e \in S, NEW G, NEW h, ReadsFold(h, N, S, e, G),
         NEW T \in [0 .. N -> SUBSET S], e \in T[0],
         \A k \in 1 .. N : \A x \in T[k - 1] : G[<<x, k>>] \in T[k]
  PROVE  h[1 .. N] \in T[N]
<1> DEFINE K == {k \in 0 .. N : h[1 .. k] \in T[k]}
<1>1. 0 \in K
  <2>1. 1 .. 0 = {} /\ 0 \in 0 .. N
    OBVIOUS
  <2> QED
    BY <2>1 DEF ReadsFold
<1>2. ASSUME NEW k \in 1 .. N, k - 1 \in K PROVE k \in K
  <2>1. /\ k \in 0 .. N /\ k - 1 \in 0 .. N /\ 1 .. k \in SUBSET (1 .. N)
        /\ k \in Nat /\ k > 0
    OBVIOUS
  <2>2. Max(1 .. k) = k /\ (1 .. k) \ {k} = 1 .. (k - 1) /\ 1 .. k # {}
    BY Zenon, <2>1, IntervalFacts
  <2>3. h[1 .. (k - 1)] \in T[k - 1] /\ h[1 .. (k - 1)] \in S
    <3>1. h[1 .. (k - 1)] \in T[k - 1]
      BY <1>2
    <3>2. T[k - 1] \in SUBSET S
      BY <2>1
    <3> QED
      BY <3>1, <3>2
  <2>4. h[1 .. k] = G[<<h[1 .. (k - 1)], k>>]
    BY <2>1, <2>2, <2>3 DEF ReadsFold
  <2>5. h[1 .. k] \in T[k]
    BY <2>3, <2>4
  <2> QED
    BY <2>1, <2>5
<1> HIDE DEF K
<1>3. \A k \in 0 .. N : k \in K
  BY <1>1, <1>2, Induction
<1> QED
  BY <1>3 DEF K

LEMMA InterfaceToKeeps ==
  ASSUME NEW e \in Entry, NEW i \in Links, NEW t \in TreeStates, Present(e, i)
  PROVE  Entered(InterfaceTo(e, i, t), e, i, t)
<1>1. t \in {"Active", "Unsure", "Inactive"}
  BY DEF TreeStates
<1> QED
  BY <1>1, InterfaceToActiveKeeps, InterfaceToUnsureKeeps, InterfaceToInactiveKeeps
     DEF InterfaceTo

\* What notify_rpc_change does to interface i.
LEMMA InterfaceToRpcKeeps ==
  ASSUME NEW e \in Entry, NEW i \in Links, NEW rpc \in Nat
  PROVE  LET f == InterfaceToRpc(e, i, rpc)
         IN  /\ f \in Entry /\ KeepsBut(f, e, i) /\ f.ifs[i].tree = e.ifs[i].tree
             /\ Current(e) => Current(f)
             /\ Elected(e, i) => Elected(f, i)
             /\ e.ifs[i].role = "NonRoot" => f.ifs[i].rpc = rpc
<1> DEFINE f == InterfaceToRpc(e, i, rpc)
           known == [e EXCEPT !.ifs[i].rpc = rpc]
           sent == Send(known, i, "IamUpstream")
           told == IF e.ifs[i].tree = "Active" /\ i \notin SourceLinks THEN sent ELSE known
<1>1. CASE e.ifs[i].role # "NonRoot" \/ e.ifs[i].rpc = rpc
  BY <1>1, KeepsItself, KeepsTransitive DEF InterfaceToRpc
<1>2. CASE ~(e.ifs[i].role # "NonRoot" \/ e.ifs[i].rpc = rpc)
  <2>1. f = CalculateAssertWinner(told, i)
    BY <1>2 DEF InterfaceToRpc
  <2>2. /\ known \in Entry /\ Others(known, e, i)
        /\ known.ifs[i] = [e.ifs[i] EXCEPT !.rpc = rpc]
    BY RpcChange
  <2>3. e.ifs[i] \in Interface
    BY EntryTypes
  <2>4. /\ known.ifs[i].rpc = rpc /\ known.ifs[i].role = e.ifs[i].role
        /\ known.ifs[i].tree = e.ifs[i].tree
        /\ known.ifs[i].winner = e.ifs[i].winner /\ known.ifs[i].hold = e.ifs[i].hold
    BY <2>2, <2>3 DEF Interface
  <2> HIDE DEF known
  <2>5. KeepsBut(known, e, i)
    BY <2>2, <2>4, OthersKeep
  <2>6. Current(e) => Current(known)
    <3>1. \A l \in Links : Forwarding(known, l) <=> Forwarding(e, l)
      BY <2>2, <2>4 DEF Forwarding, Others
    <3>2. OutboundInterfaces(known) = OutboundInterfaces(e)
      BY <3>1 DEF OutboundInterfaces
    <3> QED
      BY <2>2, <3>2 DEF Current, Others
  <2>7. KeepsInterfaces(sent, known) /\ sent.mfc = known.mfc
    BY <2>2, SendKeeps DEF MessageKinds
  <2>8. /\ KeepsInterfaces(told, known) /\ (Current(known) => Current(told))
        /\ told \in Entry
    <3>1. KeepsInterfaces(sent, known) /\ (Current(known) => Current(sent)) /\ sent \in Entry
      BY <2>2, <2>7, SameForwarding DEF KeepsInterfaces, KeepsTree, Keeps
    <3>2. KeepsInterfaces(known, known)
      BY <2>2, KeepsItself
    <3> HIDE DEF sent
    <3> QED
      BY <2>2, <3>1, <3>2
  <2> HIDE DEF told
  <2>9. KeepsBut(told, e, i) /\ told.ifs = known.ifs
    BY <2>5, <2>8, KeepsTransitive DEF KeepsInterfaces
  <2>10. LET g == CalculateAssertWinner(told, i)
         IN  /\ ElectionOf(g, e, i)
             /\ g.ifs[i].tree = told.ifs[i].tree /\ g.ifs[i].rpc = told.ifs[i].rpc
    BY <2>6, <2>8, <2>9, CalculateAfter
  <2> QED
    BY <2>1, <2>4, <2>9, <2>10 DEF ElectionOf
<1> QED
  BY <1>1, <1>2

\* The loop of transition_to_active, _unsure and _inactive.
LEMMA ForEachToState ==
  ASSUME NEW e \in Entry, NEW t \in TreeStates, NEW N, N = Len(Vifs[e.router]),
         NEW T \in [0 .. N -> SUBSET Entry], e \in T[0],
         \A k \in 1 .. N : \A f \in T[k - 1] :
           (IF Present(f, Vifs[e.router][k]) THEN InterfaceTo(f, Vifs[e.router][k], t) ELSE f) \in T[k]
  PROVE  ForEachInterface(e, LAMBDA f, i : InterfaceTo(f, i, t)) \in T[N]
<1> DEFINE vs == Vifs[e.router]
           Step(f, k) == (IF Present(f, vs[k]) THEN InterfaceTo(f, vs[k], t) ELSE f)
           G == [x \in Entry \X (1 .. N) |-> Step(x[1], x[2])]
           Body(f) == [s \in SUBSET (DOMAIN vs) |->
                         IF s = {} THEN e ELSE Step(f[s \ {Max(s)}], Max(s))]
           h == CHOOSE f : f = Body(f)
<1>1. vs \in Seq(Links) /\ N \in Nat /\ DOMAIN vs = 1 .. N
  <2>1. e.router \in Routers
    BY EntryTypes
  <2>2. vs \in Seq(Links)
    BY <2>1, TopologyAssumption
  <2> QED
    BY <2>2
<1>2. ASSUME NEW f \in Entry, NEW k \in 1 .. N PROVE Step(f, k) \in Entry
  <2>1. vs[k] \in Links
    BY <1>1
  <2>2. Present(f, vs[k]) => Entered(InterfaceTo(f, vs[k], t), f, vs[k], t)
    BY <2>1, InterfaceToKeeps
  <2> QED
    BY <2>2 DEF Entered
<1>3. G \in [Entry \X (1 .. N) -> Entry]
  BY <1>2
<1>4. ASSUME NEW f \in Entry, NEW k \in 1 .. N PROVE G[<<f, k>>] = Step(f, k)
  OBVIOUS
<1>5. ForEachInterface(e, LAMBDA f, i : InterfaceTo(f, i, t)) = h[DOMAIN vs]
  BY Zenon DEF ForEachInterface, FoldLeft, MapThenFoldSet
<1> HIDE DEF G, Step, vs
<1>6. \E f : f = Body(f)
  <2>1. PICK f \in [SUBSET (1 .. N) -> Entry] : DefinesFold(f, N, e, G)
    BY Zenon, <1>1, <1>3, FoldExists
  <2>2. ASSUME NEW s \in SUBSET (1 .. N), s # {} PROVE f[s] = Step(f[s \ {Max(s)}], Max(s))
    <3>1. Max(s) \in 1 .. N /\ s \ {Max(s)} \in SUBSET (1 .. N)
      BY <1>1, <2>2, GreatestOfPrefix
    <3> QED
      BY <1>4, <2>1, <2>2, <3>1 DEF DefinesFold
  <2>3. f[{}] = e
    BY <2>1 DEF DefinesFold
  <2>4. ASSUME NEW s \in SUBSET (1 .. N)
        PROVE  f[s] = IF s = {} THEN e ELSE Step(f[s \ {Max(s)}], Max(s))
    BY <2>2, <2>3
  <2> QED
    BY <1>1, <2>1, <2>4
<1>7. h = Body(h)
  BY Zenon, <1>6
<1> HIDE DEF h
<1>8. ReadsFold(h, N, Entry, e, G)
  <2>1. ASSUME NEW s \in SUBSET (1 .. N)
        PROVE  h[s] = IF s = {} THEN e ELSE Step(h[s \ {Max(s)}], Max(s))
    BY Zenon, <1>1, <1>7
  <2>2. ASSUME NEW s \in SUBSET (1 .. N), s # {}, h[s \ {Max(s)}] \in Entry
        PROVE  h[s] = G[<<h[s \ {Max(s)}], Max(s)>>]
    <3>1. Max(s) \in 1 .. N
      BY <1>1, <2>2, GreatestOfPrefix
    <3> QED
      BY <1>4, <2>1, <2>2, <3>1
  <2> QED
    BY <2>1, <2>2 DEF ReadsFold
<1>9. ASSUME NEW k \in 1 .. N, NEW f \in T[k - 1] PROVE G[<<f, k>>] \in T[k]
  <2>1. f \in Entry
    BY <1>1
  <2> QED
    BY <1>4, <2>1 DEF Step, vs
<1>10. h[1 .. N] \in T[N]
  BY <1>1, <1>8, <1>9, FoldReaches
<1> QED
  BY <1>1, <1>5, <1>10

\* The loop of notify_rpc_change.
LEMMA ForEachToRpc ==
  ASSUME NEW e \in Entry, NEW rpc \in Nat, NEW N, N = Len(Vifs[e.router]),
         NEW T \in [0 .. N -> SUBSET Entry], e \in T[0],
         \A k \in 1 .. N : \A f \in T[k - 1] :
           (IF Present(f, Vifs[e.router][k]) THEN InterfaceToRpc(f, Vifs[e.router][k], rpc) ELSE f) \in T[k]
  PROVE  NotifyRpcChange(e, rpc) \in T[N]
<1> DEFINE vs == Vifs[e.router]
           Step(f, k) == (IF Present(f, vs[k]) THEN InterfaceToRpc(f, vs[k], rpc) ELSE f)
           G == [x \in Entry \X (1 .. N) |-> Step(x[1], x[2])]
           Body(f) == [s \in SUBSET (DOMAIN vs) |->
                         IF s = {} THEN e ELSE Step(f[s \ {Max(s)}], Max(s))]
           h == CHOOSE f : f = Body(f)
<1>1. vs \in Seq(Links) /\ N \in Nat /\ DOMAIN vs = 1 .. N
  <2>1. e.router \in Routers
    BY EntryTypes
  <2>2. vs \in Seq(Links)
    BY <2>1, TopologyAssumption
  <2> QED
    BY <2>2
<1>2. ASSUME NEW f \in Entry, NEW k \in 1 .. N PROVE Step(f, k) \in Entry
  <2>1. vs[k] \in Links
    BY <1>1
  <2> QED
    BY <2>1, InterfaceToRpcKeeps
<1>3. G \in [Entry \X (1 .. N) -> Entry]
  BY <1>2
<1>4. ASSUME NEW f \in Entry, NEW k \in 1 .. N PROVE G[<<f, k>>] = Step(f, k)
  OBVIOUS
<1>5. NotifyRpcChange(e, rpc) = h[DOMAIN vs]
  BY Zenon DEF NotifyRpcChange, ForEachInterface, FoldLeft, MapThenFoldSet
<1> HIDE DEF G, Step, vs
<1>6. \E f : f = Body(f)
  <2>1. PICK f \in [SUBSET (1 .. N) -> Entry] : DefinesFold(f, N, e, G)
    BY Zenon, <1>1, <1>3, FoldExists
  <2>2. ASSUME NEW s \in SUBSET (1 .. N), s # {} PROVE f[s] = Step(f[s \ {Max(s)}], Max(s))
    <3>1. Max(s) \in 1 .. N /\ s \ {Max(s)} \in SUBSET (1 .. N)
      BY <1>1, <2>2, GreatestOfPrefix
    <3> QED
      BY <1>4, <2>1, <2>2, <3>1 DEF DefinesFold
  <2>3. f[{}] = e
    BY <2>1 DEF DefinesFold
  <2>4. ASSUME NEW s \in SUBSET (1 .. N)
        PROVE  f[s] = IF s = {} THEN e ELSE Step(f[s \ {Max(s)}], Max(s))
    BY <2>2, <2>3
  <2> QED
    BY <1>1, <2>1, <2>4
<1>7. h = Body(h)
  BY Zenon, <1>6
<1> HIDE DEF h
<1>8. ReadsFold(h, N, Entry, e, G)
  <2>1. ASSUME NEW s \in SUBSET (1 .. N)
        PROVE  h[s] = IF s = {} THEN e ELSE Step(h[s \ {Max(s)}], Max(s))
    BY Zenon, <1>1, <1>7
  <2>2. ASSUME NEW s \in SUBSET (1 .. N), s # {}, h[s \ {Max(s)}] \in Entry
        PROVE  h[s] = G[<<h[s \ {Max(s)}], Max(s)>>]
    <3>1. Max(s) \in 1 .. N
      BY <1>1, <2>2, GreatestOfPrefix
    <3> QED
      BY <1>4, <2>1, <2>2, <3>1
  <2> QED
    BY <2>1, <2>2 DEF ReadsFold
<1>9. ASSUME NEW k \in 1 .. N, NEW f \in T[k - 1] PROVE G[<<f, k>>] \in T[k]
  <2>1. f \in Entry
    BY <1>1
  <2> QED
    BY <1>4, <2>1 DEF Step, vs
<1>10. h[1 .. N] \in T[N]
  BY <1>1, <1>8, <1>9, FoldReaches
<1> QED
  BY <1>1, <1>5, <1>10

-----------------------------------------------------------------------------
(* The state of the tree changes *)

\* Interface i is in state t, if it is a NonRoot one out of the source's subnet.
InState(e, i, t) == e.ifs[i].role = "NonRoot" /\ i \notin SourceLinks => e.ifs[i].tree = t

AllElected(e) == \A l \in Links : Elected(e, l)

\* The interfaces of an entry are among the vifs of its router.
Covered(e) ==
  \A l \in Links : Present(e, l) => \E k \in 1 .. Len(Vifs[e.router]) : Vifs[e.router][k] = l

\* These interfaces are in the state of the tree; when it is about to be removed
\* they may be Unsure still, but not Active.
Unannounced(e, i) ==
  e.ifs[i].role = "NonRoot" /\ i \notin SourceLinks => e.ifs[i].tree # "Active"
AlikeAt(e, l) == IF e.tree = "Inactive" THEN Unannounced(e, l) ELSE InState(e, l, e.tree)
Alike(e) == \A l \in Links : AlikeAt(e, l)

LEMMA KeepsElected ==
  ASSUME NEW e, NEW f, NEW i \in Links, KeepsBut(f, e, i),
         AllElected(e), Elected(f, i)
  PROVE  AllElected(f)
<1> SUFFICES ASSUME NEW l \in Links, l # i PROVE Elected(f, l)
  BY DEF AllElected
<1>1. Elected(e, l)
  BY DEF AllElected
<1> QED
  BY <1>1 DEF Elected, WinsAssert, KeepsBut, KeepsTree, Keeps

LEMMA KeepsInState ==
  ASSUME NEW e, NEW f, NEW i \in Links, NEW t, KeepsBut(f, e, i)
  PROVE  \A l \in Links : l # i /\ InState(e, l, t) => InState(f, l, t)
BY DEF InState, KeepsBut, KeepsTree, Keeps

LEMMA LoopToState ==
  ASSUME NEW e \in Entry, NEW t \in TreeStates, Covered(e)
  PROVE  LET f == ForEachInterface(e, LAMBDA g, i : InterfaceTo(g, i, t))
         IN  /\ f \in Entry /\ KeepsTree(f, e)
             /\ AllElected(e) => AllElected(f)
             /\ \A l \in Links : InState(f, l, t)
<1> DEFINE vs == Vifs[e.router]
           N == Len(vs)
           T == [k \in 0 .. N |->
                   {f \in Entry : /\ KeepsTree(f, e)
                                  /\ AllElected(e) => AllElected(f)
                                  /\ \A j \in 1 .. k : InState(f, vs[j], t)}]
           r == ForEachInterface(e, LAMBDA f, i : InterfaceTo(f, i, t))
<1>1. vs \in Seq(Links) /\ N \in Nat
  <2>1. e.router \in Routers
    BY EntryTypes
  <2>2. vs \in Seq(Links)
    BY <2>1, TopologyAssumption
  <2> QED
    BY <2>2
<1>2. \A k \in 1 .. N : vs[k] \in Links
  BY <1>1
<1> HIDE DEF vs, N
<1>3. T \in [0 .. N -> SUBSET Entry]
  OBVIOUS
<1>4. e \in T[0]
  <2>1. KeepsTree(e, e)
    BY KeepsItself DEF KeepsInterfaces
  <2> QED
    BY <1>1, <2>1
<1>5. ASSUME NEW k \in 1 .. N, NEW f \in T[k - 1]
      PROVE  (IF Present(f, vs[k]) THEN InterfaceTo(f, vs[k], t) ELSE f) \in T[k]
  <2> DEFINE g == IF Present(f, vs[k]) THEN InterfaceTo(f, vs[k], t) ELSE f
  <2>1. /\ f \in Entry /\ KeepsTree(f, e) /\ (AllElected(e) => AllElected(f))
        /\ \A j \in 1 .. (k - 1) : InState(f, vs[j], t)
    BY <1>1
  <2>2. CASE ~Present(f, vs[k])
    <3>1. InState(f, vs[k], t)
      BY <2>2 DEF InState, Present
    <3>2. \A j \in 1 .. k : j = k \/ j \in 1 .. (k - 1)
      OBVIOUS
    <3> QED
      BY <1>1, <2>1, <2>2, <3>1, <3>2
  <2>3. CASE Present(f, vs[k])
    <3>1. g = InterfaceTo(f, vs[k], t)
      BY <2>3
    <3>2. Entered(g, f, vs[k], t)
      BY <1>2, <2>1, <2>3, <3>1, InterfaceToKeeps
    <3> HIDE DEF g
    <3>3. g \in Entry /\ KeepsBut(g, f, vs[k]) /\ KeepsTree(g, e)
      BY <2>1, <3>2, KeepsTransitive DEF Entered
    <3>4. AllElected(f) => AllElected(g)
      BY <1>2, <3>2, <3>3, KeepsElected DEF Entered, AllElected
    <3>5. InState(g, vs[k], t)
      BY <1>2, <3>2 DEF Entered, InState, KeepsBut, KeepsTree, Keeps
    <3>6. ASSUME NEW j \in 1 .. k PROVE InState(g, vs[j], t)
      <4>1. CASE vs[j] = vs[k]
        BY <3>5, <4>1
      <4>2. CASE vs[j] # vs[k]
        <5>1. j \in 1 .. (k - 1) /\ j \in 1 .. N
          BY <1>1, <4>2
        <5> QED
          BY <1>2, <2>1, <3>3, <4>2, <5>1, KeepsInState
      <4> QED
        BY <4>1, <4>2
    <3>7. g \in T[k]
      BY <1>1, <2>1, <3>3, <3>4, <3>6
    <3> HIDE DEF T
    <3> QED
      BY <3>7 DEF g
  <2> QED
    BY <2>2, <2>3
<1>6. r \in T[N]
  <2> HIDE DEF T
  <2> QED
    BY <1>3, <1>4, <1>5, ForEachToState DEF vs, N
<1> HIDE DEF r
<1>7. /\ r \in Entry /\ KeepsTree(r, e) /\ (AllElected(e) => AllElected(r))
      /\ \A j \in 1 .. N : InState(r, vs[j], t)
  BY <1>1, <1>6
<1>8. ASSUME NEW l \in Links PROVE InState(r, l, t)
  <2>1. CASE Present(e, l)
    BY <1>7, <2>1 DEF Covered, vs, N
  <2>2. CASE ~Present(e, l)
    BY <1>7, <2>2 DEF InState, Present, KeepsTree, Keeps
  <2> QED
    BY <2>1, <2>2
<1> QED
  BY <1>7, <1>8 DEF r

\* What a change of the state of the tree does; fresh threads remove the tree.
Moved(f, e, t) ==
  /\ f \in Entry /\ Keeps(f, e) /\ f.tree = t
  /\ f.removals >= e.removals
  /\ t = "Inactive" /\ e.tree # "Inactive" => f.removals > e.removals
  /\ AllElected(e) => AllElected(f)
  /\ (e.tree = t => Alike(e)) => Alike(f)
  /\ Current(e) => Current(f)

LEMMA TransitionMoves ==
  ASSUME NEW e \in Entry, NEW t \in TreeStates, Covered(e)
  PROVE  Moved(Transition(e, t), e, t)
<1> DEFINE s == [e EXCEPT !.tree = t]
           r == ForEachInterface(s, LAMBDA f, i : InterfaceTo(f, i, t))
<1>1. CASE e.tree = t
  <2>1. Transition(e, t) = e
    BY <1>1 DEF Transition
  <2>2. Keeps(e, e) /\ e.removals \in Nat
    BY KeepsItself, EntryTypes DEF KeepsInterfaces, KeepsTree
  <2> QED
    BY <1>1, <2>1, <2>2 DEF Moved
<1>2. CASE e.tree # t
  <2>1. /\ s \in Entry /\ Keeps(s, e) /\ s.tree = t /\ s.removals = e.removals
        /\ s.ifs = e.ifs /\ s.ups = e.ups /\ s.router = e.router
    BY DEF Keeps, Entry
  <2>2. Covered(s) /\ (AllElected(e) => AllElected(s))
    <3>1. Covered(s)
      BY <2>1 DEF Covered, Present
    <3>2. \A l \in Links : Elected(e, l) => Elected(s, l)
      BY <2>1 DEF Elected, WinsAssert
    <3> QED
      BY <3>1, <3>2 DEF AllElected
  <2> HIDE DEF s
  <2>3. /\ r \in Entry /\ KeepsTree(r, s) /\ (AllElected(s) => AllElected(r))
        /\ \A l \in Links : InState(r, l, t)
    BY <2>1, <2>2, LoopToState
  <2>4. Transition(e, t) = IF t = "Inactive" THEN [r EXCEPT !.removals = @ + 1]
                           ELSE EvaluateInTree(Change(r))
    BY <1>2 DEF Transition, s
  <2> HIDE DEF r
  <2>5. Keeps(r, e) /\ r.tree = t /\ r.removals = e.removals
    BY <2>1, <2>3, KeepsTransitive DEF KeepsTree
  <2>6. CASE t = "Inactive"
    <3> DEFINE f == [r EXCEPT !.removals = @ + 1]
    <3>1. /\ f \in Entry /\ f.tree = t /\ f.removals = e.removals + 1
          /\ f.ifs = r.ifs /\ f.ups = r.ups /\ f.router = r.router /\ Keeps(f, r)
      <4> DEFINE n == r.removals + 1
      <4>3. n \in Nat
        BY <2>3, EntryTypes
      <4>4. f = [r EXCEPT !.removals = n]
        OBVIOUS
      <4> HIDE DEF n, f
      <4>1. /\ f \in Entry /\ f.tree = r.tree /\ f.removals = n
            /\ f.ifs = r.ifs /\ f.ups = r.ups /\ f.router = r.router
        BY <2>3, <4>3, <4>4 DEF Entry
      <4>2. /\ f.originator = r.originator /\ f.rpc = r.rpc /\ f.inbound = r.inbound
            /\ f.int = r.int /\ f.local = r.local /\ f.sat = r.sat
        BY <2>3, <4>4 DEF Entry
      <4> QED
        BY <2>5, <4>1, <4>2 DEF Keeps, n
    <3> HIDE DEF f
    <3>2. Keeps(f, e)
      BY <2>5, <3>1, KeepsTransitive
    <3>3. AllElected(r) => AllElected(f)
      BY <3>1 DEF AllElected, Elected, WinsAssert
    <3>4. Alike(f)
      BY <2>3, <3>1 DEF Alike, AlikeAt, InState, Unannounced
    <3>5. Current(f)
      BY <2>6, <3>1 DEF Current
    <3>6. f.removals > e.removals
      BY <3>1, EntryTypes
    <3>7. f.removals >= e.removals
      BY <3>1, EntryTypes
    <3>8. Transition(e, t) = f
      BY <2>4, <2>6 DEF f
    <3> QED
      BY <2>2, <2>3, <3>1, <3>2, <3>3, <3>4, <3>5, <3>6, <3>7, <3>8 DEF Moved
  <2>7. CASE t # "Inactive"
    <3> DEFINE f == EvaluateInTree(Change(r))
    <3>1. KeepsInterfaces(f, r) /\ Current(f)
      BY <2>3, ChangeAndEvaluate
    <3> HIDE DEF f
    <3>2. Keeps(f, e) /\ f.tree = t /\ f.removals = e.removals /\ f \in Entry
      BY <2>5, <3>1, KeepsTransitive DEF KeepsInterfaces, KeepsTree, Keeps
    <3>3. AllElected(r) => AllElected(f)
      BY <3>1 DEF AllElected, Elected, WinsAssert, KeepsInterfaces, KeepsTree, Keeps
    <3>4. Alike(f)
      BY <2>3, <3>1, <3>2 DEF Alike, AlikeAt, InState, Unannounced, KeepsInterfaces
    <3>5. f.removals >= e.removals
      BY <3>2, EntryTypes
    <3>6. Transition(e, t) = f
      BY <2>4, <2>7 DEF f
    <3> QED
      BY <2>2, <2>3, <2>7, <3>1, <3>2, <3>3, <3>4, <3>5, <3>6 DEF Moved
  <2> QED
    BY <2>6, <2>7
<1> QED
  BY <1>1, <1>2

\* Every entry is checked into one of the states of a tree.
NewState(e) == IF e.originator THEN OriginatorTreeState(e) ELSE NonOriginatorTreeState(e)

LEMMA CheckMoves ==
  ASSUME NEW e \in Entry, Covered(e)
  PROVE  Moved(CheckTreeState(e), e, NewState(e))
<1>1. NewState(e) \in TreeStates
  BY DEF NewState, OriginatorTreeState, NonOriginatorTreeState, TreeStates
<1>2. CheckTreeState(e) = Transition(e, NewState(e))
  BY DEF CheckTreeState, NewState
<1> QED
  BY <1>1, <1>2, TransitionMoves

-----------------------------------------------------------------------------
(* Interfaces that are created and replaced *)

\* f is e with another interface i; the multicast route is not looked at.
Rebuilt(f, e, i) ==
  /\ f \in Entry
  /\ f.router = e.router /\ f.originator = e.originator /\ f.tree = e.tree
  /\ f.rpc = e.rpc /\ f.inbound = e.inbound
  /\ f.ups = e.ups /\ f.int = e.int /\ f.local = e.local /\ f.sat = e.sat
  /\ f.removals = e.removals
  /\ \A l \in Links : l # i => f.ifs[l] = e.ifs[l]

\* A NonRoot interface on a new vif, and one that replaces the root interface.
NewNonRoot(e, i, rpc, previous, current) == AddNonRoot(e, i, rpc, FALSE, previous, current)
Demoted(e, i, rpc, previous, current) == AddNonRoot(e, i, rpc, TRUE, previous, current)

LEMMA AddNonRootBuilds ==
  ASSUME NEW e \in Entry, NEW i \in Links, NEW rpc \in Nat,
         NEW previous \in TreeStates, NEW current \in TreeStates, NEW f,
         \/ f = Demoted(e, i, rpc, previous, current)
         \/ f = NewNonRoot(e, i, rpc, previous, current)
  PROVE  /\ Rebuilt(f, e, i) /\ Elected(f, i)
         /\ f.ifs[i].role = "NonRoot" /\ f.ifs[i].tree = current /\ f.ifs[i].rpc = rpc
<1> DEFINE x == [role |-> "NonRoot", tree |-> current, winner |-> TRUE, hold |-> FALSE, rpc |-> rpc]
           b == [e EXCEPT !.ifs[i] = x]
           m == ElectedInterface(b, i)
           l1 == Send(m, i, "IamNoLongerUpstream")
           R == {m, l1, Send(m, i, "IamUpstream"), Send(m, i, "NoInterest"), Send(l1, i, "NoInterest")}
<1> {"IamUpstream", "IamNoLongerUpstream", "NoInterest"} \subseteq MessageKinds
  BY DEF MessageKinds
<1>1. x \in Interface
  BY DEF Interface
<1>2. b \in Entry /\ Others(b, e, i) /\ b.ifs[i] = x
  BY <1>1, InterfaceChange
<1>3. x.role = "NonRoot" /\ x.tree = current /\ x.rpc = rpc
  OBVIOUS
<1>4. f \in R
  BY DEF AddNonRoot, NewNonRoot, Demoted
<1> HIDE DEF x, b
<1>5. /\ m \in Entry /\ Others(m, b, i)
      /\ m.ifs[i].tree = b.ifs[i].tree /\ m.ifs[i].rpc = b.ifs[i].rpc
      /\ m.ifs[i].role = b.ifs[i].role
      /\ Elected(m, i)
  BY <1>2, ElectedKeeps DEF Elected, KeepsBut, KeepsTree, Keeps
<1> HIDE DEF m
<1>6. l1 \in Entry /\ KeepsInterfaces(l1, m)
  BY <1>5, SendKeeps DEF KeepsInterfaces, KeepsTree, Keeps
<1> HIDE DEF l1
<1>7. KeepsInterfaces(f, m)
  <2>1. /\ KeepsInterfaces(Send(m, i, "IamUpstream"), m)
        /\ KeepsInterfaces(Send(m, i, "NoInterest"), m)
        /\ KeepsInterfaces(Send(l1, i, "NoInterest"), l1)
        /\ KeepsInterfaces(m, m)
    BY <1>5, <1>6, SendKeeps, KeepsItself
  <2>2. KeepsInterfaces(Send(l1, i, "NoInterest"), m)
    BY <1>6, <2>1, KeepsTransitive
  <2> QED
    BY <1>4, <1>6, <2>1, <2>2
<1> HIDE DEF R
<1>8. Rebuilt(f, e, i)
  BY <1>2, <1>5, <1>7 DEF Rebuilt, Others, KeepsInterfaces, KeepsTree, Keeps
<1>9. Elected(f, i) /\ f.ifs = m.ifs
  BY <1>5, <1>7 DEF Elected, WinsAssert, KeepsInterfaces, KeepsTree, Keeps
<1> QED
  BY <1>2, <1>3, <1>5, <1>8, <1>9

LEMMA RootChange ==
  ASSUME NEW e \in Entry, NEW i \in Links, NEW t \in TreeStates
  PROVE  LET f == [e EXCEPT !.ifs[i] = RootInterface(t)]
         IN  /\ Rebuilt(f, e, i) /\ f.ifs[i].role = "Root" /\ f.ifs[i].tree = t
<1> DEFINE x == RootInterface(t)
           f == [e EXCEPT !.ifs[i] = x]
<1>1. x \in Interface /\ x.role = "Root" /\ x.tree = t
  BY DEF RootInterface, Interface
<1> HIDE DEF x
<1>2. f \in Entry /\ Others(f, e, i) /\ f.ifs[i] = x
  BY <1>1, InterfaceChange
<1> HIDE DEF f
<1>3. Rebuilt(f, e, i) /\ f.ifs[i].role = "Root" /\ f.ifs[i].tree = t
  BY <1>1, <1>2 DEF Rebuilt, Others
<1> QED
  BY <1>3 DEF f, x

LEMMA SendMyInterestKeeps ==
  ASSUME NEW e \in Entry, NEW i \in Links
  PROVE  LET f == SendMyInterest(e, i)
         IN  f \in Entry /\ KeepsInterfaces(f, e) /\ f.mfc = e.mfc
<1>1. (IF IsInTree(e) THEN "Interest" ELSE "NoInterest") \in MessageKinds
  BY DEF MessageKinds
<1> QED
  BY <1>1, SendKeeps DEF SendMyInterest, KeepsInterfaces, KeepsTree, Keeps

\* The root interface on a new vif, and one that replaces a NonRoot interface.
NewRoot(e, i, previous, current) == AddRoot(e, i, FALSE, previous, current)
Promoted(e, i, previous, current) == AddRoot(e, i, TRUE, previous, current)

LEMMA AddRootBuilds ==
  ASSUME NEW e \in Entry, NEW i \in Links,
         NEW previous \in TreeStates, NEW current \in TreeStates, NEW f,
         \/ f = Promoted(e, i, previous, current)
         \/ f = NewRoot(e, i, previous, current)
  PROVE  Rebuilt(f, e, i) /\ f.ifs[i].role = "Root" /\ f.ifs[i].tree = current
<1> DEFINE l1 == Send(e, i, "IamNoLongerUpstream")
<1> "IamNoLongerUpstream" \in MessageKinds
  BY DEF MessageKinds
<1>1. PICK g \in {e, l1, SendMyInterest(e, i), SendMyInterest(l1, i)} :
        f = [g EXCEPT !.ifs[i] = RootInterface(current)]
  BY DEF AddRoot, NewRoot, Promoted
<1>2. l1 \in Entry /\ KeepsInterfaces(l1, e)
  BY SendKeeps DEF KeepsInterfaces, KeepsTree, Keeps
<1> HIDE DEF l1
<1>3. g \in Entry /\ KeepsInterfaces(g, e)
  <2>1. KeepsInterfaces(e, e) /\ KeepsInterfaces(SendMyInterest(e, i), e)
    BY KeepsItself, SendMyInterestKeeps
  <2>2. KeepsInterfaces(SendMyInterest(l1, i), l1)
    BY <1>2, SendMyInterestKeeps
  <2>3. KeepsInterfaces(SendMyInterest(l1, i), e)
    BY <1>2, <2>2, KeepsTransitive
  <2>4. KeepsInterfaces(g, e)
    BY <1>1, <1>2, <2>1, <2>3
  <2> QED
    BY <2>4 DEF KeepsInterfaces, KeepsTree, Keeps
<1>4. Rebuilt(f, g, i) /\ f.ifs[i].role = "Root" /\ f.ifs[i].tree = current
  BY <1>1, <1>3, RootChange
<1>5. Rebuilt(f, e, i)
  BY <1>3, <1>4 DEF Rebuilt, KeepsInterfaces, KeepsTree, Keeps
<1> QED
  BY <1>4, <1>5

-----------------------------------------------------------------------------
(* An entry between two calls *)

\* What holds of an entry whenever no call of it runs.
Whole(e) ==
  /\ e \in Entry
  /\ \A l \in Links : e.ifs[l].role = "Root" <=> l = e.inbound
  /\ Covered(e)
  /\ AllElected(e)
  /\ Alike(e)
  /\ Current(e)

\* A call that leaves the tree Inactive has started a thread that removes it.
Removed(f, e) ==
  /\ f.removals >= e.removals
  /\ f.tree = "Inactive" /\ e.tree # "Inactive" => f.removals > e.removals

\* What a call makes of an entry e, when k is e with what the call replaces in it.
Made(f, k, e) == Whole(f) /\ Keeps(f, k) /\ Removed(f, e)

LEMMA SameElections ==
  ASSUME NEW e, NEW f, f.router = e.router, f.tree = e.tree, f.ups = e.ups,
         \A l \in Links : /\ f.ifs[l].role = e.ifs[l].role /\ f.ifs[l].tree = e.ifs[l].tree
                          /\ f.ifs[l].rpc = e.ifs[l].rpc /\ f.ifs[l].winner = e.ifs[l].winner
  PROVE  /\ AllElected(e) => AllElected(f)
         /\ Alike(e) => Alike(f)
<1>1. ASSUME NEW l \in Links, Elected(e, l) PROVE Elected(f, l)
  <2>1. WinsAssert(f, l) = WinsAssert(e, l)
    BY DEF WinsAssert
  <2> QED
    BY <1>1, <2>1 DEF Elected
<1>2. ASSUME NEW l \in Links
      PROVE  (InState(e, l, e.tree) => InState(f, l, f.tree)) /\ (Unannounced(e, l) => Unannounced(f, l))
  BY DEF InState, Unannounced
<1> QED
  BY <1>1, <1>2 DEF AllElected, Alike, AlikeAt

LEMMA SameInterfaces ==
  ASSUME NEW e, NEW f, KeepsInterfaces(f, e)
  PROVE  /\ AllElected(e) => AllElected(f)
         /\ Alike(e) => Alike(f)
BY SameElections DEF KeepsInterfaces, KeepsTree, Keeps

\* The end of a call: the state of the tree is checked.
LEMMA CheckEnds ==
  ASSUME NEW e, NEW k \in Entry, NEW f \in Entry, Keeps(f, k),
         \A l \in Links : k.ifs[l].role = "Root" <=> l = k.inbound,
         Covered(k), AllElected(f), Current(f),
         f.tree = NewState(f) => Alike(f),
         f.tree = e.tree, f.removals = e.removals
  PROVE  Made(CheckTreeState(f), k, e)
<1> DEFINE g == CheckTreeState(f)
<1>1. Covered(f)
  BY DEF Covered, Keeps, Present
<1>2. Moved(g, f, NewState(f))
  BY <1>1, CheckMoves
<1> HIDE DEF g
<1>3. Keeps(g, k)
  BY <1>2, KeepsTransitive DEF Moved
<1>4. \A l \in Links : g.ifs[l].role = "Root" <=> l = g.inbound
  BY <1>3 DEF Keeps
<1>5. Covered(g)
  BY <1>3 DEF Covered, Keeps, Present
<1>6. Removed(g, e)
  BY <1>2 DEF Moved, Removed
<1>7. g \in Entry /\ AllElected(g) /\ Alike(g) /\ Current(g)
  BY <1>2 DEF Moved
<1>8. Made(g, k, e)
  BY <1>3, <1>4, <1>5, <1>6, <1>7 DEF Made, Whole
<1> QED
  BY <1>8 DEF g

\* The end of a call that does not check it.
LEMMA UncheckedEnds ==
  ASSUME NEW e \in Entry, NEW k \in Entry, NEW f \in Entry, Keeps(f, k),
         \A l \in Links : k.ifs[l].role = "Root" <=> l = k.inbound,
         Covered(k), AllElected(f), Current(f), Alike(f),
         f.tree = e.tree, f.removals = e.removals
  PROVE  Made(f, k, e)
<1>1. \A l \in Links : f.ifs[l].role = "Root" <=> l = f.inbound
  BY DEF Keeps
<1>2. Covered(f)
  BY DEF Covered, Keeps, Present
<1>3. Removed(f, e)
  BY EntryTypes DEF Removed
<1> QED
  BY <1>1, <1>2, <1>3 DEF Made, Whole

LEMMA WholeEnds ==
  ASSUME NEW e, Whole(e)
  PROVE  Made(e, e, e)
<1>1. Removed(e, e)
  BY EntryTypes DEF Removed, Whole
<1> QED
  BY <1>1, KeepsItself DEF Made, Whole, KeepsInterfaces, KeepsTree

\* sat_expires and sat_running
LEMMA SourceActiveEnds ==
  ASSUME NEW e, Whole(e), NEW b \in BOOLEAN
  PROVE  Made(SourceActive(e, b), [e EXCEPT !.sat = b], e)
<1> DEFINE k == [e EXCEPT !.sat = b]
<1>1. e \in Entry
  BY DEF Whole
<1>2. /\ k \in Entry /\ k.ifs = e.ifs /\ k.inbound = e.inbound /\ k.ups = e.ups
      /\ k.router = e.router /\ k.tree = e.tree /\ k.removals = e.removals /\ k.mfc = e.mfc
      /\ k.local = e.local /\ k.int = e.int
  BY <1>1 DEF Entry
<1>3. SourceActive(e, b) = CheckTreeState(k)
  BY DEF SourceActive
<1> HIDE DEF k
<1>4. OutboundInterfaces(k) = OutboundInterfaces(e)
  BY <1>2 DEF OutboundInterfaces, Forwarding
<1>5. AllElected(k) /\ Alike(k) /\ Current(k) /\ Covered(k)
  <2>1. AllElected(k) /\ Alike(k)
    BY <1>2, SameElections DEF Whole
  <2>2. Current(k)
    BY <1>2, <1>4 DEF Whole, Current
  <2>3. Covered(k)
    BY <1>2 DEF Whole, Covered, Present
  <2> QED
    BY <2>1, <2>2, <2>3
<1>6. \A l \in Links : k.ifs[l].role = "Root" <=> l = k.inbound
  BY <1>2 DEF Whole
<1>7. Keeps(k, k)
  BY <1>2, KeepsItself DEF KeepsInterfaces, KeepsTree
<1>8. Made(CheckTreeState(k), k, e)
  BY <1>2, <1>5, <1>6, <1>7, CheckEnds
<1> QED
  BY <1>3, <1>8 DEF k

\* hold_forwarding_state_timeout
LEMMA HoldTimeoutEnds ==
  ASSUME NEW e, Whole(e), NEW i \in Links
  PROVE  Made(HoldForwardingTimeout(e, i), e, e)
<1> DEFINE k == [e EXCEPT !.ifs[i].hold = FALSE]
           f == EvaluateInTree(Change(k))
<1>1. e \in Entry /\ e.ifs[i] \in Interface
  BY EntryTypes DEF Whole
<1>2. k \in Entry /\ Others(k, e, i) /\ k.ifs[i] = [e.ifs[i] EXCEPT !.hold = FALSE]
  BY <1>1, HoldChange
<1>3. /\ k.ifs[i].role = e.ifs[i].role /\ k.ifs[i].tree = e.ifs[i].tree
      /\ k.ifs[i].rpc = e.ifs[i].rpc /\ k.ifs[i].winner = e.ifs[i].winner
  BY <1>1, <1>2 DEF Interface
<1>4. HoldForwardingTimeout(e, i) = f
  BY DEF HoldForwardingTimeout
<1> HIDE DEF k
<1>5. KeepsBut(k, e, i)
  BY <1>1, <1>2, <1>3, OthersKeep
<1>6. KeepsInterfaces(f, k) /\ Current(f)
  BY <1>2, ChangeAndEvaluate
<1> HIDE DEF f
<1>7. AllElected(k) /\ Alike(k)
  <2>1. \A l \in Links : /\ k.ifs[l].role = e.ifs[l].role /\ k.ifs[l].tree = e.ifs[l].tree
                         /\ k.ifs[l].rpc = e.ifs[l].rpc /\ k.ifs[l].winner = e.ifs[l].winner
    BY <1>2, <1>3 DEF Others
  <2>2. k.ups = e.ups /\ k.router = e.router /\ k.tree = e.tree
    BY <1>2 DEF Others
  <2> QED
    BY <2>1, <2>2, SameElections DEF Whole
<1>8. AllElected(f) /\ Alike(f)
  BY <1>6, <1>7, SameInterfaces
<1>9. KeepsTree(f, e) /\ f \in Entry
  BY <1>5, <1>6, KeepsTransitive DEF KeepsBut
<1> QED
  BY <1>1, <1>4, <1>6, <1>8, <1>9, UncheckedEnds DEF Whole, KeepsTree

LEMMA RemovedTransitive ==
  ASSUME NEW e \in Entry, NEW f \in Entry, NEW g \in Entry, Removed(f, e), Removed(g, f)
  PROVE  Removed(g, e)
BY EntryTypes DEF Removed

LEMMA CheckWhole ==
  ASSUME NEW e, Whole(e)
  PROVE  Made(CheckTreeState(e), e, e)
BY CheckEnds, KeepsItself DEF Whole, KeepsInterfaces, KeepsTree

-----------------------------------------------------------------------------
(* What neighbors and hosts say *)

LEMMA NotifyMembershipEnds ==
  ASSUME NEW e, Whole(e), NEW i \in Links, NEW b \in BOOLEAN, Present(e, i)
  PROVE  LET f == NotifyMembership(e, i, b)
         IN  /\ Made(f, [e EXCEPT !.local = IF b THEN @ \cup {i} ELSE @ \ {i}], e)
             /\ f.tree = e.tree
<1> DEFINE k == [e EXCEPT !.local = IF b THEN @ \cup {i} ELSE @ \ {i}]
           f == EvaluateInTree(Change(k))
<1>1. e \in Entry
  BY DEF Whole
<1>2. /\ k \in Entry /\ k.ifs = e.ifs /\ k.inbound = e.inbound /\ k.ups = e.ups
      /\ k.router = e.router /\ k.tree = e.tree /\ k.removals = e.removals
  BY <1>1 DEF Entry
<1>3. NotifyMembership(e, i, b) = IF (i \in e.local) = b THEN e ELSE f
  BY DEF NotifyMembership
<1>4. (i \in e.local) = b => Keeps(e, k)
  <2>1. (i \in e.local) = b => k.local = e.local
    BY <1>1 DEF Entry
  <2>2. /\ k.originator = e.originator /\ k.rpc = e.rpc /\ k.int = e.int /\ k.sat = e.sat
    BY <1>1 DEF Entry
  <2> HIDE DEF k
  <2> QED
    BY <1>1, <1>2, <2>1, <2>2 DEF Keeps
<1> HIDE DEF k
<1>5. CASE (i \in e.local) = b
  <2>1. Removed(e, e)
    BY <1>1, EntryTypes DEF Removed
  <2> QED
    BY <1>3, <1>4, <1>5, <2>1 DEF Made, k
<1>6. CASE (i \in e.local) # b
  <2>1. KeepsInterfaces(f, k) /\ Current(f)
    BY <1>2, ChangeAndEvaluate
  <2> HIDE DEF f
  <2>2. AllElected(k) /\ Alike(k)
    BY <1>2, SameElections DEF Whole
  <2>3. AllElected(f) /\ Alike(f)
    BY <2>1, <2>2, SameInterfaces
  <2>4. Covered(k) /\ \A l \in Links : k.ifs[l].role = "Root" <=> l = k.inbound
    BY <1>2 DEF Whole, Covered, Present
  <2>5. f \in Entry /\ Keeps(f, k) /\ f.tree = e.tree /\ f.removals = e.removals
    BY <1>2, <2>1 DEF KeepsInterfaces, KeepsTree, Keeps
  <2>6. Made(f, k, e)
    BY <1>1, <1>2, <2>1, <2>3, <2>4, <2>5, UncheckedEnds
  <2> QED
    BY <1>3, <1>6, <2>5, <2>6 DEF k, f
<1> QED
  BY <1>5, <1>6

LEMMA CheckInterestEnds ==
  ASSUME NEW e, Whole(e), NEW i \in Links, NEW b \in BOOLEAN, Present(e, i),
         e.tree # "Inactive"
  PROVE  LET f == CheckInterestState(e, i, b)
         IN  /\ Made(f, [e EXCEPT !.int[i] = b], e)
             /\ f.tree = e.tree
<1> DEFINE k == [e EXCEPT !.int[i] = b]
           f == EvaluateInTree(Change(k))
<1>1. e \in Entry
  BY DEF Whole
<1>2. /\ k \in Entry /\ k.ifs = e.ifs /\ k.inbound = e.inbound /\ k.ups = e.ups
      /\ k.router = e.router /\ k.tree = e.tree /\ k.removals = e.removals
      /\ k.local = e.local /\ k.mfc = e.mfc
  BY <1>1 DEF Entry
<1>3. CheckInterestState(e, i, b) =
        IF e.int[i] = b THEN e ELSE IF e.ifs[i].role = "NonRoot" THEN f ELSE k
  BY DEF CheckInterestState
<1>4. \A l \in Links : l # i => k.int[l] = e.int[l]
  BY <1>1 DEF Entry
<1>5. AllElected(k) /\ Alike(k)
  BY <1>2, SameElections DEF Whole
<1>6. Covered(k) /\ \A l \in Links : k.ifs[l].role = "Root" <=> l = k.inbound
  BY <1>2 DEF Whole, Covered, Present
<1>7. e.int[i] = b => Keeps(e, k)
  <2>1. e.int[i] = b => k.int = e.int
    BY <1>1 DEF Entry
  <2>2. /\ k.originator = e.originator /\ k.rpc = e.rpc /\ k.sat = e.sat
    BY <1>1 DEF Entry
  <2> HIDE DEF k
  <2> QED
    BY <1>1, <1>2, <2>1, <2>2 DEF Keeps
<1> HIDE DEF k
<1>8. CASE e.int[i] = b
  <2>1. Removed(e, e)
    BY <1>1, EntryTypes DEF Removed
  <2> QED
    BY <1>3, <1>7, <1>8, <2>1 DEF Made, k
<1>9. CASE e.int[i] # b /\ e.ifs[i].role = "NonRoot"
  <2>1. KeepsInterfaces(f, k) /\ Current(f)
    BY <1>2, ChangeAndEvaluate
  <2> HIDE DEF f
  <2>2. AllElected(f) /\ Alike(f)
    BY <1>5, <2>1, SameInterfaces
  <2>3. f \in Entry /\ Keeps(f, k) /\ f.tree = e.tree /\ f.removals = e.removals
    BY <1>2, <2>1 DEF KeepsInterfaces, KeepsTree, Keeps
  <2>4. Made(f, k, e)
    BY <1>1, <1>2, <1>6, <2>1, <2>2, <2>3, UncheckedEnds
  <2> QED
    BY <1>3, <1>9, <2>3, <2>4 DEF k, f
<1>10. CASE e.int[i] # b /\ e.ifs[i].role # "NonRoot"
  <2>1. \A l \in Links : Forwarding(k, l) <=> Forwarding(e, l)
    BY <1>2, <1>4, <1>10 DEF Forwarding
  <2>2. Current(k)
    BY <1>2, <2>1 DEF Current, OutboundInterfaces, Whole
  <2>3. Keeps(k, k)
    BY <1>2, KeepsItself DEF KeepsInterfaces, KeepsTree
  <2>4. Made(k, k, e)
    BY <1>1, <1>2, <1>5, <1>6, <2>2, <2>3, UncheckedEnds
  <2> QED
    BY <1>2, <1>3, <1>10, <2>4 DEF k
<1> QED
  BY <1>8, <1>9, <1>10

LEMMA ChangeBestUpstreamEnds ==
  ASSUME NEW e, Whole(e), NEW i \in Links, NEW u \in AssertMetrics, NEW fresh, Present(e, i)
  PROVE  LET f == ChangeBestUpstream(e, i, u, fresh)
         IN  /\ Made(f, [e EXCEPT !.ups[i] = u], e)
             /\ f.tree = e.tree
<1> DEFINE k == [e EXCEPT !.ups[i] = u]
           c == CalculateAssertWinner(k, i)
           s == SendMyInterest(k, i)
           n == Send(c, i, "NoInterest")
           f == ChangeBestUpstream(e, i, u, fresh)
<1>1. e \in Entry
  BY DEF Whole
<1>2. /\ k \in Entry /\ k.ifs = e.ifs /\ k.inbound = e.inbound
      /\ k.router = e.router /\ k.tree = e.tree /\ k.removals = e.removals
      /\ k.local = e.local /\ k.int = e.int /\ k.mfc = e.mfc
      /\ \A l \in Links : l # i => k.ups[l] = e.ups[l]
  BY <1>1 DEF Entry
<1>3. f \in IF e.ifs[i].role = "Root" THEN {k, s} ELSE {c, n}
  BY DEF ChangeBestUpstream
<1>4. e.ifs[i].role # "Root" => e.ifs[i].role = "NonRoot"
  BY <1>1, EntryTypes DEF Present, Interface
<1> HIDE DEF k, f
<1>5. ASSUME NEW l \in Links, l # i PROVE Elected(k, l)
  <2>1. Elected(e, l)
    BY DEF Whole, AllElected
  <2>2. WinsAssert(k, l) = WinsAssert(e, l)
    BY <1>2, <1>5 DEF WinsAssert
  <2> QED
    BY <1>2, <2>1, <2>2 DEF Elected
<1>6. Current(k)
  BY <1>2 DEF Current, OutboundInterfaces, Forwarding, Whole
<1>7. Alike(k)
  BY <1>2 DEF Alike, AlikeAt, InState, Unannounced, Whole
<1>8. Covered(k) /\ \A l \in Links : k.ifs[l].role = "Root" <=> l = k.inbound
  BY <1>2 DEF Whole, Covered, Present
<1>9. /\ f \in Entry /\ KeepsTree(f, k) /\ AllElected(f) /\ Alike(f) /\ Current(f)
  <2>1. CASE e.ifs[i].role = "Root"
    <3>1. KeepsInterfaces(k, k) /\ KeepsInterfaces(s, k) /\ s.mfc = k.mfc
      BY <1>2, KeepsItself, SendMyInterestKeeps
    <3>2. AllElected(k)
      BY <1>2, <1>5, <2>1 DEF AllElected, Elected
    <3>3. KeepsInterfaces(f, k) /\ f.mfc = k.mfc
      BY <1>3, <2>1, <3>1
    <3>4. AllElected(f) /\ Alike(f) /\ Current(f)
      BY <1>2, <1>6, <1>7, <3>2, <3>3, SameInterfaces, SameForwarding
    <3> QED
      BY <3>3, <3>4 DEF KeepsInterfaces, KeepsTree, Keeps
  <2>2. CASE e.ifs[i].role # "Root"
    <3>1. ElectionOf(c, k, i) /\ c.ifs[i].tree = k.ifs[i].tree
      BY <1>2, CalculateKeeps
    <3> HIDE DEF c
    <3>2. ElectionOf(n, k, i) /\ n.ifs = c.ifs
      BY <1>2, <3>1, SendThenKeeps DEF MessageKinds
    <3> HIDE DEF n
    <3>3. ElectionOf(f, k, i) /\ f.ifs[i].tree = k.ifs[i].tree
      BY <1>3, <2>2, <3>1, <3>2
    <3>4. AllElected(f)
      <4> SUFFICES ASSUME NEW l \in Links, l # i PROVE Elected(f, l)
        BY <3>3 DEF AllElected, ElectionOf
      <4> QED
        BY <1>5, <3>3 DEF ElectionOf, Elected, WinsAssert, KeepsBut, KeepsTree, Keeps
    <3>5. Alike(f)
      <4> SUFFICES ASSUME NEW l \in Links PROVE AlikeAt(f, l)
        BY DEF Alike
      <4>1. f.ifs[l].tree = k.ifs[l].tree /\ f.ifs[l].role = k.ifs[l].role /\ f.tree = k.tree
        BY <3>3 DEF ElectionOf, KeepsBut, KeepsTree, Keeps
      <4> QED
        BY <1>7, <4>1 DEF Alike, AlikeAt, InState, Unannounced
    <3> QED
      BY <1>6, <3>3, <3>4, <3>5 DEF ElectionOf, KeepsBut
  <2> QED
    BY <2>1, <2>2
<1>10. Made(f, k, e) /\ f.tree = e.tree
  BY <1>1, <1>2, <1>8, <1>9, UncheckedEnds DEF KeepsTree
<1> QED
  BY <1>10 DEF k, f

LEMMA MadeTransitive ==
  ASSUME NEW e, NEW k \in Entry, NEW f, NEW g, Whole(e), Made(f, k, e), Made(g, f, f)
  PROVE  Made(g, k, e)
BY KeepsTransitive, RemovedTransitive DEF Made, Whole

LEMMA CheckInterfaceEnds ==
  ASSUME NEW e, Whole(e), NEW i \in Links, NEW u \in AssertMetrics, NEW b \in BOOLEAN,
         NEW fresh, Present(e, i), e.tree # "Inactive"
  PROVE  Made(CheckInterfaceState(e, i, u, b, fresh), [e EXCEPT !.ups[i] = u, !.int[i] = b], e)
<1> DEFINE k == [e EXCEPT !.ups[i] = u]
           m == [e EXCEPT !.ups[i] = u, !.int[i] = b]
           f == ChangeBestUpstream(e, i, u, fresh)
           j == [f EXCEPT !.int[i] = b]
           g == CheckInterestState(f, i, b)
           h == CheckTreeState(g)
<1>1. CheckInterfaceState(e, i, u, b, fresh) = h
  BY DEF CheckInterfaceState
<1>2. Made(f, k, e) /\ f.tree = e.tree
  BY ChangeBestUpstreamEnds
<1>3. e \in Entry /\ k \in Entry /\ m \in Entry
  BY DEF Whole, Entry
<1>4. /\ m.router = k.router /\ m.originator = k.originator /\ m.rpc = k.rpc
      /\ m.inbound = k.inbound /\ m.ups = k.ups /\ m.local = k.local /\ m.sat = k.sat
      /\ m.ifs = k.ifs /\ m.int = [k.int EXCEPT ![i] = b] /\ k.ifs = e.ifs
  BY <1>3 DEF Entry
<1> HIDE DEF k, f, m
<1>5. f \in Entry /\ Present(f, i)
  BY <1>2, <1>4 DEF Made, Whole, Keeps, Present
<1>6. Made(g, j, f) /\ g.tree = f.tree
  BY <1>2, <1>5, CheckInterestEnds DEF Made
<1>7. Keeps(j, m)
  <2>1. j \in Entry
    BY <1>5 DEF Entry
  <2>2. /\ j.router = f.router /\ j.originator = f.originator /\ j.rpc = f.rpc
        /\ j.inbound = f.inbound /\ j.ups = f.ups /\ j.local = f.local /\ j.sat = f.sat
        /\ j.ifs = f.ifs /\ j.int = [f.int EXCEPT ![i] = b]
    BY <1>5 DEF Entry
  <2> HIDE DEF j
  <2> QED
    BY <1>2, <1>4, <2>1, <2>2 DEF Made, Keeps
<1> HIDE DEF j, g
<1>8. Made(h, g, g)
  BY <1>6, CheckWhole DEF Made
<1> HIDE DEF h
<1>9. Made(h, j, f)
  BY <1>2, <1>6, <1>7, <1>8, MadeTransitive DEF Made, Keeps
<1>10. Keeps(h, m) /\ Removed(h, e)
  BY <1>2, <1>3, <1>5, <1>7, <1>9, KeepsTransitive, RemovedTransitive DEF Made, Whole
<1>11. Made(h, m, e)
  BY <1>9, <1>10 DEF Made
<1> QED
  BY <1>1, <1>11 DEF m

-----------------------------------------------------------------------------
(* Interfaces of the router that go and come *)

LEMMA RemoveInterfaceEnds ==
  ASSUME NEW e, Whole(e), NEW i \in Links, Present(e, i)
  PROVE  LET f == RemoveInterface(e, i)
             k == [e EXCEPT !.inbound = IF @ = i THEN None ELSE @,
                            !.ups[i] = NoUpstream, !.int[i] = FALSE,
                            !.local = @ \ {i}, !.ifs[i] = NoInterface]
         IN  Made(f, k, e) \/ Made(f, [k EXCEPT !.sat = FALSE], e)
<1> DEFINE k == [e EXCEPT !.inbound = IF @ = i THEN None ELSE @,
                          !.ups[i] = NoUpstream, !.int[i] = FALSE,
                          !.local = @ \ {i}, !.ifs[i] = NoInterface]
           j == [k EXCEPT !.sat = FALSE]
           g == EvaluateInTree(Change(k))
           c == CheckTreeState(g)
           f == RemoveInterface(e, i)
<1>1. e \in Entry /\ NoInterface \in Interface /\ NoUpstream \in AssertMetrics
  BY DEF Whole, NoInterface, Interface, AssertMetrics, TreeStates
<1>2. /\ k \in Entry /\ k.router = e.router /\ k.tree = e.tree /\ k.removals = e.removals
      /\ k.ifs[i] = NoInterface /\ k.inbound = IF e.inbound = i THEN None ELSE e.inbound
      /\ \A l \in Links : l # i => k.ifs[l] = e.ifs[l] /\ k.ups[l] = e.ups[l]
  BY <1>1 DEF Entry
<1>3. f \in {c, SourceActive(c, FALSE)}
  BY DEF RemoveInterface
<1> HIDE DEF k, f
<1>4. NoInterface.role = "Absent"
  BY DEF NoInterface
<1>5. AllElected(k)
  <2> SUFFICES ASSUME NEW l \in Links, l # i PROVE Elected(k, l)
    BY <1>2, <1>4 DEF AllElected, Elected
  <2>1. Elected(e, l)
    BY DEF Whole, AllElected
  <2>2. WinsAssert(k, l) = WinsAssert(e, l)
    BY <1>2 DEF WinsAssert
  <2> QED
    BY <1>2, <2>1, <2>2 DEF Elected
<1>6. Alike(k)
  <2> SUFFICES ASSUME NEW l \in Links, l # i PROVE AlikeAt(k, l)
    BY <1>2, <1>4 DEF Alike, AlikeAt, InState, Unannounced
  <2> QED
    BY <1>2 DEF Whole, Alike, AlikeAt, InState, Unannounced
<1>7. Covered(k)
  <2> SUFFICES ASSUME NEW l \in Links, Present(k, l) PROVE Present(e, l)
    BY <1>2 DEF Whole, Covered
  <2> QED
    BY <1>2, <1>4 DEF Present
<1>8. ASSUME NEW l \in Links PROVE k.ifs[l].role = "Root" <=> l = k.inbound
  <2>1. i # None /\ l # None
    BY TopologyAssumption
  <2> QED
    BY <1>2, <1>4, <2>1 DEF Whole
<1>9. KeepsInterfaces(g, k) /\ Current(g)
  BY <1>2, ChangeAndEvaluate
<1> HIDE DEF g
<1>10. AllElected(g) /\ Alike(g)
  BY <1>5, <1>6, <1>9, SameInterfaces
<1>11. Made(c, k, e)
  BY <1>2, <1>7, <1>8, <1>9, <1>10, CheckEnds DEF KeepsInterfaces, KeepsTree, Keeps
<1> HIDE DEF c
<1>12. Made(SourceActive(c, FALSE), [c EXCEPT !.sat = FALSE], c)
  BY <1>11, SourceActiveEnds DEF Made
<1>13. Keeps([c EXCEPT !.sat = FALSE], j)
  <2>1. c \in Entry /\ Keeps(c, k)
    BY <1>11 DEF Made, Whole
  <2> DEFINE d == [c EXCEPT !.sat = FALSE]
  <2>2. /\ d \in Entry /\ d.router = c.router /\ d.originator = c.originator /\ d.rpc = c.rpc
        /\ d.inbound = c.inbound /\ d.ups = c.ups /\ d.int = c.int /\ d.local = c.local
        /\ d.ifs = c.ifs /\ d.sat = FALSE
    BY <2>1 DEF Entry
  <2>3. /\ j.router = k.router /\ j.originator = k.originator /\ j.rpc = k.rpc
        /\ j.inbound = k.inbound /\ j.ups = k.ups /\ j.int = k.int /\ j.local = k.local
        /\ j.ifs = k.ifs /\ j.sat = FALSE
    BY <1>2 DEF Entry
  <2> HIDE DEF d, j
  <2>4. Keeps(d, j)
    BY <2>1, <2>2, <2>3 DEF Keeps
  <2> QED
    BY <2>4 DEF d
<1>14. Made(SourceActive(c, FALSE), j, e)
  BY <1>1, <1>11, <1>12, <1>13, KeepsTransitive, RemovedTransitive DEF Made, Whole
<1>15. Made(f, k, e) \/ Made(f, j, e)
  BY <1>3, <1>11, <1>14
<1> QED
  BY <1>15 DEF k, f

\* f has the parts of e that its neighbors, the hosts and the kernel decide.
SameKnowledge(f, e) ==
  /\ f.router = e.router /\ f.originator = e.originator
  /\ f.ups = e.ups /\ f.int = e.int /\ f.local = e.local

\* The root interfaces of an entry: the inbound one.
Rooted(e) == \A l \in Links : e.ifs[l].role = "Root" <=> l = e.inbound

\* g is e after rif has become its root interface, None if it has no more one;
\* interfaces of the old state of the tree are left.
Rerooted(g, e, rif) ==
  /\ g \in Entry /\ SameKnowledge(g, e)
  /\ g.tree = e.tree /\ g.removals = e.removals /\ g.rpc = e.rpc /\ g.inbound = rif
  /\ AllElected(g) /\ Rooted(g)
  /\ \A l \in Links : Present(g, l) <=> Present(e, l) \/ l = rif

\* d is b after a NonRoot interface replaced the root interface, if it had one;
\* r is d with a root interface at rif, if any.
GaveUpRoot(d, b, new) ==
  IF b.inbound = None THEN d = b
  ELSE /\ Rebuilt(d, b, b.inbound) /\ Elected(d, b.inbound)
       /\ d.ifs[b.inbound].role = "NonRoot" /\ d.ifs[b.inbound].tree = new
TookRoot(r, d, rif) ==
  IF rif = None THEN r = d ELSE Rebuilt(r, d, rif) /\ r.ifs[rif].role = "Root"
StillAlike(b, new) == new = b.tree \/ (b.tree = "Inactive" /\ new # "Active")
NamedRoot(g, r, rif) ==
  g = [r EXCEPT !.inbound = rif] \/ \E s \in BOOLEAN : g = [r EXCEPT !.inbound = rif, !.sat = s]

\* The old root interface is replaced by a NonRoot one, then the new root
\* interface is made.
LEMMA RerootBuilds ==
  ASSUME NEW b \in Entry, AllElected(b), Rooted(b), NEW rif \in Links \cup {None}, NEW new,
         b.inbound # rif, NEW d, NEW r, NEW g,
         GaveUpRoot(d, b, new), TookRoot(r, d, rif),
         NamedRoot(g, r, rif)
  PROVE  /\ Rerooted(g, b, rif)
         /\ Alike(b) /\ StillAlike(b, new) => Alike(g)
<1> USE DEF GaveUpRoot, TookRoot, NamedRoot
<1>1. b.inbound \in Links \cup {None}
  BY EntryTypes
<1>2. /\ d \in Entry /\ SameKnowledge(d, b) /\ d.tree = b.tree /\ d.removals = b.removals
      /\ d.rpc = b.rpc /\ d.inbound = b.inbound
      /\ \A l \in Links : l # b.inbound => d.ifs[l] = b.ifs[l]
  BY <1>1 DEF Rebuilt, SameKnowledge
<1>3. AllElected(d)
  <2> SUFFICES ASSUME NEW l \in Links PROVE Elected(d, l)
    BY DEF AllElected
  <2>1. CASE l = b.inbound
    BY <1>1, <2>1 DEF AllElected
  <2>2. CASE l # b.inbound
    <3>1. Elected(b, l)
      BY DEF AllElected
    <3>2. WinsAssert(d, l) = WinsAssert(b, l)
      BY <1>2, <2>2 DEF WinsAssert, SameKnowledge
    <3> QED
      BY <1>2, <2>2, <3>1, <3>2 DEF Elected
  <2> QED
    BY <2>1, <2>2
<1>4. ASSUME NEW l \in Links
      PROVE  d.ifs[l].role = IF l = b.inbound THEN "NonRoot" ELSE b.ifs[l].role
  <2>1. l # None
    BY TopologyAssumption
  <2>2. CASE l = b.inbound
    BY <2>1, <2>2
  <2>3. CASE l # b.inbound
    BY <1>2, <2>3
  <2> QED
    BY <2>2, <2>3
<1>5. Alike(b) /\ StillAlike(b, new) => Alike(d)
  <2> SUFFICES ASSUME Alike(b), StillAlike(b, new), NEW l \in Links PROVE AlikeAt(d, l)
    BY DEF Alike
  <2>1. None \notin Links
    BY TopologyAssumption
  <2> QED
    BY <1>2, <2>1 DEF Alike, AlikeAt, InState, Unannounced, StillAlike
<1>6. /\ r \in Entry /\ SameKnowledge(r, b) /\ r.tree = b.tree /\ r.removals = b.removals
      /\ r.rpc = b.rpc /\ r.inbound = b.inbound
      /\ \A l \in Links : l # rif => r.ifs[l] = d.ifs[l]
  BY <1>2 DEF Rebuilt, SameKnowledge
<1>7. \A l \in Links : l = rif => r.ifs[l].role = "Root"
  BY TopologyAssumption
<1>8. AllElected(r)
  <2> SUFFICES ASSUME NEW l \in Links, l # rif PROVE Elected(r, l)
    BY <1>7 DEF AllElected, Elected
  <2>1. Elected(d, l)
    BY <1>3 DEF AllElected
  <2>2. WinsAssert(r, l) = WinsAssert(d, l)
    BY <1>2, <1>6 DEF WinsAssert, SameKnowledge
  <2> QED
    BY <1>6, <2>1, <2>2 DEF Elected
<1>9. Alike(d) => Alike(r)
  <2> SUFFICES ASSUME Alike(d), NEW l \in Links, l # rif PROVE AlikeAt(r, l)
    BY <1>7 DEF Alike, AlikeAt, InState, Unannounced
  <2> QED
    BY <1>2, <1>6 DEF Alike, AlikeAt, InState, Unannounced
<1>10. /\ g \in Entry /\ g.router = r.router /\ g.originator = r.originator
       /\ g.ups = r.ups /\ g.int = r.int /\ g.local = r.local /\ g.ifs = r.ifs
       /\ g.tree = r.tree /\ g.removals = r.removals /\ g.rpc = r.rpc /\ g.inbound = rif
  <2>1. CASE g = [r EXCEPT !.inbound = rif]
    BY <1>6, <2>1 DEF Entry
  <2>2. ASSUME NEW s \in BOOLEAN, g = [r EXCEPT !.inbound = rif, !.sat = s]
        PROVE  /\ g \in Entry /\ g.router = r.router /\ g.originator = r.originator
               /\ g.ups = r.ups /\ g.int = r.int /\ g.local = r.local /\ g.ifs = r.ifs
               /\ g.tree = r.tree /\ g.removals = r.removals /\ g.rpc = r.rpc /\ g.inbound = rif
    BY <1>6, <2>2 DEF Entry
  <2> QED
    BY <2>1, <2>2
<1>11. AllElected(g) /\ (Alike(r) => Alike(g))
  BY <1>8, <1>10, SameElections
<1>12. ASSUME NEW l \in Links PROVE g.ifs[l].role = "Root" <=> l = g.inbound
  <2>1. CASE l = rif
    BY <1>7, <1>10, <2>1
  <2>2. CASE l # rif
    <3>1. g.ifs[l].role = d.ifs[l].role
      BY <1>6, <1>10, <2>2
    <3> QED
      BY <1>4, <1>10, <2>2, <3>1 DEF Rooted
  <2> QED
    BY <2>1, <2>2
<1>13. ASSUME NEW l \in Links PROVE Present(g, l) <=> Present(b, l) \/ l = rif
  <2>1. CASE l = rif
    BY <1>7, <1>10, <2>1 DEF Present
  <2>2. CASE l # rif
    <3>1. g.ifs[l].role = d.ifs[l].role
      BY <1>6, <1>10, <2>2
    <3> QED
      BY <1>4, <2>2, <3>1 DEF Present, Rooted
  <2> QED
    BY <2>1, <2>2
<1>14. Rerooted(g, b, rif)
  BY <1>6, <1>10, <1>11, <1>12, <1>13 DEF Rerooted, SameKnowledge, Rooted
<1> QED
  BY <1>5, <1>9, <1>11, <1>14

\* A call that ends with a check, after the interfaces of e were made anew.
LEMMA RerootEnds ==
  ASSUME NEW e \in Entry, NEW g \in Entry, NEW f, KeepsInterfaces(f, g), Current(f),
         Rooted(g), Covered(g), AllElected(g),
         g.tree = e.tree, g.removals = e.removals
  PROVE  /\ (f.tree = NewState(f) => Alike(g)) => Made(CheckTreeState(f), g, e)
         /\ Alike(g) => Made(f, g, e)
<1>1. AllElected(f) /\ (Alike(g) => Alike(f)) /\ f \in Entry /\ Keeps(f, g)
      /\ f.tree = e.tree /\ f.removals = e.removals
  BY SameInterfaces DEF KeepsInterfaces, KeepsTree, Keeps
<1>2. \A l \in Links : g.ifs[l].role = "Root" <=> l = g.inbound
  BY DEF Rooted
<1>3. (f.tree = NewState(f) => Alike(g)) => Made(CheckTreeState(f), g, e)
  BY <1>1, <1>2, CheckEnds
<1>4. Alike(g) => Made(f, g, e)
  BY <1>1, <1>2, UncheckedEnds
<1> QED
  BY <1>3, <1>4

\* The interfaces of f are those of e, and i.
LEMMA NowCovered ==
  ASSUME NEW e, NEW f, Covered(e), f.router = e.router, NEW i,
         i \in Links => \E k \in 1 .. Len(Vifs[e.router]) : Vifs[e.router][k] = i,
         \A l \in Links : Present(f, l) => Present(e, l) \/ l = i
  PROVE  Covered(f)
BY DEF Covered

LEMMA RebuiltElections ==
  ASSUME NEW e, NEW f, NEW i \in Links, Rebuilt(f, e, i), AllElected(e),
         Elected(f, i)
  PROVE  AllElected(f)
<1> SUFFICES ASSUME NEW l \in Links, l # i PROVE Elected(f, l)
  BY DEF AllElected
<1>1. Elected(e, l)
  BY DEF AllElected
<1>2. WinsAssert(f, l) = WinsAssert(e, l)
  BY DEF WinsAssert, Rebuilt
<1> QED
  BY <1>1, <1>2 DEF Elected, Rebuilt

\* e when i becomes a vif: nothing is known on it, except for members.
LocalSets == SUBSET Links
Cleared(e, i, local) ==
  [e EXCEPT !.ups[i] = NoUpstream, !.int[i] = FALSE, !.local = local]

ClearedTo(c, e, i, local) ==
  /\ c \in Entry /\ c.router = e.router /\ c.originator = e.originator
  /\ c.rpc = e.rpc /\ c.ifs = e.ifs /\ c.inbound = e.inbound /\ c.tree = e.tree
  /\ c.removals = e.removals
  /\ \A l \in Links \ {i} : c.ups[l] = e.ups[l] /\ c.int[l] = e.int[l]
  /\ c.ups[i] = NoUpstream /\ c.int[i] = FALSE
  /\ c.local = local

LEMMA ClearedFacts ==
  ASSUME NEW e, Whole(e), NEW i \in Links, NEW local \in LocalSets, ~Present(e, i),
         NEW c, c = Cleared(e, i, local)
  PROVE  ClearedTo(c, e, i, local) /\ AllElected(c) /\ Rooted(c) /\ Alike(c) /\ Covered(c)
<1>1. e \in Entry /\ NoUpstream \in AssertMetrics
  BY DEF Whole, AssertMetrics
<1>2. ClearedTo(c, e, i, local)
  BY <1>1 DEF Entry, Cleared, LocalSets, ClearedTo
<1>3. AllElected(c)
  <2> SUFFICES ASSUME NEW l \in Links PROVE Elected(c, l)
    BY DEF AllElected
  <2>1. CASE l = i
    BY <1>2, <2>1 DEF ClearedTo, Present, Elected
  <2>2. CASE l # i
    <3>1. Elected(e, l)
      BY DEF Whole, AllElected
    <3>2. WinsAssert(c, l) = WinsAssert(e, l)
      BY <1>2, <2>2 DEF ClearedTo, WinsAssert
    <3> QED
      BY <1>2, <3>1, <3>2 DEF Elected, ClearedTo
  <2> QED
    BY <2>1, <2>2
<1>4. Rooted(c) /\ Alike(c) /\ Covered(c)
  BY <1>2 DEF ClearedTo, Whole, Rooted, Alike, AlikeAt, InState, Unannounced, Covered, Present
<1> QED
  BY <1>2, <1>3, <1>4

\* g is e with an interface i, which is the root interface when rif says so.
Extended(g, e, i, rif) ==
  /\ g \in Entry /\ SameKnowledge(g, e) /\ g.rpc = e.rpc
  /\ g.inbound = (IF rif = i THEN i ELSE e.inbound)
  /\ \A l \in Links : Present(g, l) <=> Present(e, l) \/ l = i

LEMMA NonRootExtends ==
  ASSUME NEW c \in Entry, NEW i \in Links, NEW rif, ~Present(c, i), rif # i,
         AllElected(c), Rooted(c), Alike(c), NEW g,
         g = NewNonRoot(c, i, c.rpc, c.tree, c.tree)
  PROVE  /\ Extended(g, c, i, rif) /\ g.tree = c.tree /\ g.removals = c.removals
         /\ AllElected(g) /\ Rooted(g) /\ Alike(g)
<1>1. c.tree \in TreeStates /\ c.rpc \in Nat
  BY EntryTypes
<1>2. Rebuilt(g, c, i) /\ Elected(g, i) /\ g.ifs[i].role = "NonRoot" /\ g.ifs[i].tree = c.tree
  BY <1>1, AddNonRootBuilds
<1>3. AllElected(g)
  BY <1>2, RebuiltElections
<1>4. i # c.inbound
  BY DEF Present, Rooted
<1>5. Rooted(g)
  BY <1>2, <1>4 DEF Rooted, Rebuilt
<1>6. \A l \in Links : Present(g, l) <=> Present(c, l) \/ l = i
  BY <1>2 DEF Present, Rebuilt
<1>7. Alike(g)
  BY <1>2 DEF Alike, AlikeAt, InState, Unannounced, Rebuilt
<1> QED
  BY <1>2, <1>3, <1>5, <1>6, <1>7 DEF Extended, SameKnowledge, Rebuilt

LEMMA OriginatorExtends ==
  ASSUME NEW c \in Entry, NEW i \in Links, NEW route, ~Present(c, i),
         AllElected(c), Rooted(c), Alike(c), NEW g,
         g = OriginatorNewInterface(c, i, route)
  PROVE  /\ Extended(g, c, i, route.rif) /\ g.tree = c.tree /\ g.removals = c.removals
         /\ AllElected(g) /\ Rooted(g) /\ Alike(g)
<1> DEFINE d == IF c.inbound = None THEN c
                ELSE Demoted(c, c.inbound, c.rpc, c.tree, c.tree)
           r == [d EXCEPT !.ifs[i] = RootInterface(c.tree)]
<1>1. c.tree \in TreeStates /\ c.rpc \in Nat /\ c.inbound \in Links \cup {None}
  BY EntryTypes
<1>2. CASE route.rif # i
  <2>1. g = NewNonRoot(c, i, c.rpc, c.tree, c.tree)
    BY <1>2 DEF OriginatorNewInterface, NewNonRoot
  <2> QED
    BY <1>2, <2>1, NonRootExtends
<1>3. CASE route.rif = i
  <2>1. g = [d EXCEPT !.ifs[i] = RootInterface(c.tree), !.inbound = i, !.sat = TRUE]
    BY <1>3 DEF OriginatorNewInterface, Demoted
  <2>2. IF c.inbound = None THEN d = c
        ELSE /\ Rebuilt(d, c, c.inbound) /\ Elected(d, c.inbound)
             /\ d.ifs[c.inbound].role = "NonRoot" /\ d.ifs[c.inbound].tree = c.tree
    BY <1>1, AddNonRootBuilds
  <2> HIDE DEF d
  <2>3. d \in Entry
    BY <2>2 DEF Rebuilt
  <2>4. Rebuilt(r, d, i) /\ r.ifs[i].role = "Root"
    BY <1>1, <2>3, RootChange
  <2>5. g = [r EXCEPT !.inbound = i, !.sat = TRUE]
    BY <2>1, <2>3 DEF Entry
  <2> HIDE DEF r
  <2>6. c.inbound # i /\ i # None
    BY TopologyAssumption DEF Present, Rooted
  <2>7. Rerooted(g, c, i) /\ Alike(g)
    <3>1. GaveUpRoot(d, c, c.tree)
      BY <2>2 DEF GaveUpRoot
    <3>2. TookRoot(r, d, i)
      BY <2>4, <2>6 DEF TookRoot
    <3> QED
      BY <2>5, <2>6, <3>1, <3>2, RerootBuilds DEF NamedRoot, StillAlike
  <2> QED
    BY <1>3, <2>7 DEF Rerooted, Extended
<1> QED
  BY <1>2, <1>3

\* An Active tree, whose root interface i becomes, is not left Active.
LEMMA NonOriginatorExtends ==
  ASSUME NEW c \in Entry, NEW i \in Links, NEW route, ~Present(c, i), c.ups[i] = NoUpstream,
         AllElected(c), Rooted(c), Alike(c), NEW g,
         g = NonOriginatorNewInterface(c, i, route)
  PROVE  /\ Extended(g, c, i, route.rif) /\ g.tree = c.tree /\ g.removals = c.removals
         /\ AllElected(g) /\ Rooted(g)
         /\ Alike(g) \/ (g.tree = "Active" /\ g.inbound = i)
<1> DEFINE new == IF c.tree = "Active" THEN "Unsure" ELSE c.tree
           d == Demoted(c, c.inbound, c.rpc, c.tree, new)
           r == Promoted(d, i, c.tree, new)
           j == [c EXCEPT !.inbound = i]
<1>1. /\ c.tree \in TreeStates /\ c.rpc \in Nat /\ c.inbound \in Links \cup {None}
      /\ new \in TreeStates
  BY EntryTypes DEF TreeStates
<1>2. c.inbound # i /\ i # None
  BY TopologyAssumption DEF Present, Rooted
<1>3. CASE route.rif # i
  <2>1. g = NewNonRoot(c, i, c.rpc, c.tree, c.tree)
    BY <1>3 DEF NonOriginatorNewInterface, NewNonRoot
  <2> QED
    BY <1>3, <2>1, NonRootExtends
<1>4. CASE route.rif = i /\ c.inbound = None
  <2>1. g = NewRoot(j, i, c.tree, c.tree)
    BY <1>4 DEF NonOriginatorNewInterface, NewRoot
  <2>2. /\ j \in Entry /\ j.router = c.router /\ j.originator = c.originator
        /\ j.ups = c.ups /\ j.int = c.int /\ j.local = c.local /\ j.ifs = c.ifs
        /\ j.tree = c.tree /\ j.removals = c.removals /\ j.rpc = c.rpc /\ j.inbound = i
    BY DEF Entry
  <2> HIDE DEF j
  <2>3. Rebuilt(g, j, i) /\ g.ifs[i].role = "Root"
    BY <1>1, <2>1, <2>2, AddRootBuilds
  <2>4. AllElected(j) /\ Alike(j)
    BY <2>2, SameElections
  <2>5. AllElected(g)
    BY <2>3, <2>4, RebuiltElections DEF Elected
  <2>6. Alike(g)
    BY <2>3, <2>4 DEF Alike, AlikeAt, InState, Unannounced, Rebuilt
  <2>7. Rooted(g)
    BY <1>4, <2>2, <2>3, TopologyAssumption DEF Rooted, Rebuilt
  <2>8. \A l \in Links : Present(g, l) <=> Present(c, l) \/ l = i
    BY <2>2, <2>3 DEF Present, Rebuilt
  <2> QED
    BY <1>4, <2>2, <2>3, <2>5, <2>6, <2>7, <2>8 DEF Extended, SameKnowledge, Rebuilt
<1>5. CASE route.rif = i /\ c.inbound # None
  <2>1. g = [r EXCEPT !.inbound = i]
    BY <1>5 DEF NonOriginatorNewInterface, Demoted, Promoted
  <2>2. /\ Rebuilt(d, c, c.inbound) /\ Elected(d, c.inbound)
        /\ d.ifs[c.inbound].role = "NonRoot" /\ d.ifs[c.inbound].tree = new
    BY <1>1, <1>5, AddNonRootBuilds
  <2> HIDE DEF d
  <2>3. Rebuilt(r, d, i) /\ r.ifs[i].role = "Root"
    BY <1>1, <2>2, AddRootBuilds DEF Rebuilt
  <2> HIDE DEF r
  <2>4. Rerooted(g, c, i) /\ (new = c.tree => Alike(g))
    <3>1. GaveUpRoot(d, c, new)
      BY <1>5, <2>2 DEF GaveUpRoot
    <3>2. TookRoot(r, d, i)
      BY <1>2, <2>3 DEF TookRoot
    <3> HIDE DEF new
    <3> QED
      BY <1>2, <2>1, <3>1, <3>2, RerootBuilds DEF NamedRoot, StillAlike
  <2> QED
    BY <1>5, <2>4 DEF Rerooted, Extended
<1> QED
  BY <1>3, <1>4, <1>5

LEMMA NewInterfaceEnds ==
  ASSUME NEW e, Whole(e), NEW i \in Links, NEW route, NEW b \in BOOLEAN,
         ~Present(e, i), \E k \in 1 .. Len(Vifs[e.router]) : Vifs[e.router][k] = i
  PROVE  LET f == NewInterface(e, i, route, b)
         IN  /\ Whole(f) /\ Removed(f, e)
             /\ Extended(f, Cleared(e, i, IF b THEN e.local \cup {i} ELSE e.local \ {i}), i, route.rif)
<1> DEFINE local == IF b THEN e.local \cup {i} ELSE e.local \ {i}
           c == Cleared(e, i, local)
           g == IF e.originator THEN OriginatorNewInterface(c, i, route)
                ELSE NonOriginatorNewInterface(c, i, route)
           h == IF e.originator THEN Change(g) ELSE EvaluateInTree(Change(g))
           f == NewInterface(e, i, route, b)
<1>1. f = IF e.originator THEN h ELSE CheckTreeState(h)
  BY DEF NewInterface, Cleared
<1>2. /\ c \in Entry /\ ~Present(c, i) /\ c.ups[i] = NoUpstream
      /\ c.router = e.router /\ c.originator = e.originator
      /\ c.tree = e.tree /\ c.removals = e.removals
      /\ AllElected(c) /\ Rooted(c) /\ Alike(c) /\ Covered(c)
  <2>2. c = Cleared(e, i, local)
    OBVIOUS
  <2>3. local \in LocalSets
    BY EntryTypes DEF Whole, LocalSets
  <2> HIDE DEF c, local, f, g, h
  <2>1. ClearedTo(c, e, i, local) /\ AllElected(c) /\ Rooted(c) /\ Alike(c) /\ Covered(c)
    BY <2>2, <2>3, ClearedFacts
  <2> QED
    BY <2>1 DEF Present, ClearedTo
<1> HIDE DEF c, f
<1>3. /\ Extended(g, c, i, route.rif) /\ g.tree = c.tree /\ g.removals = c.removals
      /\ AllElected(g) /\ Rooted(g)
      /\ Alike(g) \/ (~e.originator /\ g.tree = "Active" /\ g.inbound = i)
  <2>1. CASE e.originator
    <3>1. g = OriginatorNewInterface(c, i, route)
      BY <2>1
    <3> HIDE DEF g
    <3> QED
      BY <1>2, <3>1, OriginatorExtends
  <2>2. CASE ~e.originator
    <3>1. g = NonOriginatorNewInterface(c, i, route)
      BY <2>2
    <3> HIDE DEF g
    <3> QED
      BY <1>2, <2>2, <3>1, NonOriginatorExtends DEF Extended
  <2> QED
    BY <2>1, <2>2
<1> HIDE DEF g
<1>4. g \in Entry /\ g.router = e.router
  BY <1>2, <1>3 DEF Extended, SameKnowledge
<1>5. Covered(g)
  BY <1>2, <1>3, <1>4, NowCovered DEF Extended
<1>6. KeepsInterfaces(h, g) /\ Current(h)
  BY <1>4, ChangeKeeps, ChangeIsCurrent, ChangeAndEvaluate
<1> HIDE DEF h
<1>7. h.tree = NewState(h) => Alike(g)
  <2> SUFFICES ASSUME ~e.originator, g.tree = "Active", g.inbound = i, h.tree = NewState(h)
               PROVE  FALSE
    BY <1>3
  <2>1. h.tree = "Active" /\ h.inbound = i /\ h.ups[i] = NoUpstream /\ ~h.originator /\ i # None
    BY <1>2, <1>3, <1>6, TopologyAssumption
       DEF Extended, SameKnowledge, KeepsInterfaces, KeepsTree, Keeps
  <2> QED
    BY <2>1 DEF NewState, NonOriginatorTreeState, FeasibleUpstream, UpstreamAt
<1>8. Made(f, g, e)
  BY <1>1, <1>2, <1>3, <1>4, <1>5, <1>6, <1>7, RerootEnds DEF Whole
<1>9. Extended(f, c, i, route.rif)
  BY <1>3, <1>8 DEF Made, Whole, Keeps, Extended, SameKnowledge, Present
<1> QED
  BY <1>8, <1>9 DEF Made, f, c

-----------------------------------------------------------------------------
(* Changes of the unicast routing table *)

\* notify_rpc_change of every interface.
LEMMA LoopToRpc ==
  ASSUME NEW e \in Entry, NEW rpc \in Nat, NEW r, r = NotifyRpcChange(e, rpc)
  PROVE  /\ r \in Entry /\ KeepsTree(r, e)
         /\ AllElected(e) => AllElected(r)
         /\ Alike(e) => Alike(r)
         /\ Current(e) => Current(r)
<1> DEFINE vs == Vifs[e.router]
           N == Len(vs)
           Good(f) == /\ KeepsTree(f, e)
                      /\ AllElected(e) => AllElected(f)
                      /\ \A l \in Links : f.ifs[l].tree = e.ifs[l].tree
                      /\ Current(e) => Current(f)
           S == {f \in Entry : Good(f)}
           T == [k \in 0 .. N |-> S]
<1>1. vs \in Seq(Links) /\ N \in Nat
  <2>1. e.router \in Routers
    BY EntryTypes
  <2>2. vs \in Seq(Links)
    BY <2>1, TopologyAssumption
  <2> QED
    BY <2>2
<1>2. \A k \in 1 .. N : vs[k] \in Links
  BY <1>1
<1>3. e \in S
  BY KeepsItself DEF KeepsInterfaces
<1>4. ASSUME NEW f \in S, NEW i \in Links, NEW g, g = InterfaceToRpc(f, i, rpc) PROVE g \in S
  <2>1. f \in Entry /\ Good(f)
    OBVIOUS
  <2>2. /\ g \in Entry /\ KeepsBut(g, f, i) /\ g.ifs[i].tree = f.ifs[i].tree
        /\ Current(f) => Current(g)
        /\ Elected(f, i) => Elected(g, i)
    BY <1>4, <2>1, InterfaceToRpcKeeps
  <2>3. KeepsTree(g, e)
    BY <2>1, <2>2, KeepsTransitive
  <2>4. AllElected(f) => AllElected(g)
    BY <2>2, KeepsElected DEF AllElected
  <2>5. \A l \in Links : g.ifs[l].tree = f.ifs[l].tree
    BY <2>2 DEF KeepsBut
  <2> QED
    BY <2>1, <2>2, <2>3, <2>4, <2>5
<1> HIDE DEF vs, N, S
<1>5. T \in [0 .. N -> SUBSET Entry]
  BY DEF S
<1>6. e \in T[0]
  BY <1>1, <1>3
<1>7. ASSUME NEW k \in 1 .. N, NEW f \in T[k - 1]
      PROVE  (IF Present(f, vs[k]) THEN InterfaceToRpc(f, vs[k], rpc) ELSE f) \in T[k]
  BY <1>1, <1>2, <1>4
<1>8. T[N] = S
  BY <1>1
<1>9. r \in T[N]
  <2> HIDE DEF T
  <2> QED
    BY <1>5, <1>6, <1>7, ForEachToRpc DEF vs, N
<1>10. r \in Entry /\ Good(r)
  BY <1>8, <1>9 DEF S
<1>11. Alike(e) => Alike(r)
  BY <1>10 DEF Alike, AlikeAt, InState, Unannounced, KeepsTree, Keeps
<1> QED
  BY <1>10, <1>11

LEMMA NotifyEnds ==
  ASSUME NEW e, NEW k, NEW f, Made(f, k, e), NEW rpc \in Nat, NEW r, r = NotifyRpcChange(f, rpc)
  PROVE  Made(r, k, e)
<1>1. f \in Entry /\ Whole(f) /\ Keeps(f, k) /\ Removed(f, e)
  BY DEF Made, Whole
<1>2. /\ r \in Entry /\ KeepsTree(r, f) /\ AllElected(r) /\ Alike(r) /\ Current(r)
  BY <1>1, LoopToRpc DEF Whole
<1>3. Keeps(r, k)
  BY <1>1, <1>2, KeepsTransitive DEF KeepsTree
<1>4. \A l \in Links : r.ifs[l].role = "Root" <=> l = r.inbound
  BY <1>1, <1>2 DEF Whole, KeepsTree, Keeps
<1>5. Covered(r)
  BY <1>1, <1>2 DEF Whole, Covered, Present, KeepsTree, Keeps
<1>6. Removed(r, e)
  BY <1>1, <1>2 DEF Removed, KeepsTree
<1> QED
  BY <1>2, <1>3, <1>4, <1>5, <1>6 DEF Made, Whole

\* k is e with a new root interface or RPC; it is checked, perhaps its
\* interfaces learn the RPC, perhaps the multicast route is set.
LEMMA UpdateEnds ==
  ASSUME NEW e, NEW k \in Entry, NEW h, NEW f,
         Rooted(k), Covered(k), AllElected(k), k.tree = NewState(k) => Alike(k),
         k.tree = e.tree, k.removals = e.removals,
         h = CheckTreeState(k) \/ \E rpc \in Nat : h = NotifyRpcChange(CheckTreeState(k), rpc),
         (f = h /\ Current(k)) \/ f = EvaluateInTree(Change(h))
           \/ f = Change(h)
  PROVE  Made(f, k, e)
<1> DEFINE c == CheckTreeState(k)
<1>1. Moved(c, k, NewState(k))
  BY CheckMoves
<1>2. h = c \/ \E rpc \in Nat : h = NotifyRpcChange(c, rpc)
  OBVIOUS
<1> HIDE DEF c
<1>3. /\ c \in Entry /\ Keeps(c, k) /\ Removed(c, e)
      /\ AllElected(c) /\ Alike(c) /\ (Current(k) => Current(c))
  BY <1>1 DEF Moved, Removed
<1>4. KeepsTree(c, c)
  BY <1>3, KeepsItself DEF KeepsInterfaces
<1>5. /\ h \in Entry /\ KeepsTree(h, c)
      /\ AllElected(h) /\ Alike(h) /\ (Current(k) => Current(h))
  BY <1>2, <1>3, <1>4, LoopToRpc
<1>6. /\ f \in Entry /\ KeepsTree(f, h) /\ AllElected(f) /\ Alike(f) /\ Current(f)
  <2>1. CASE f = h /\ Current(k)
    BY <1>5, <2>1, KeepsItself DEF KeepsInterfaces
  <2>2. CASE f = EvaluateInTree(Change(h))
    <3>1. KeepsInterfaces(f, h) /\ Current(f)
      BY <1>5, <2>2, ChangeAndEvaluate
    <3> QED
      BY <1>5, <3>1, SameInterfaces DEF KeepsInterfaces, KeepsTree, Keeps
  <2>3. CASE f = Change(h)
    <3>1. KeepsInterfaces(f, h) /\ Current(f)
      BY <1>5, <2>3, ChangeKeeps, ChangeIsCurrent
    <3> QED
      BY <1>5, <3>1, SameInterfaces DEF KeepsInterfaces, KeepsTree, Keeps
  <2> QED
    BY <2>1, <2>2, <2>3
<1>7. KeepsTree(f, c) /\ Keeps(f, k)
  BY <1>3, <1>5, <1>6, KeepsTransitive DEF KeepsTree
<1>8. \A l \in Links : f.ifs[l].role = "Root" <=> l = f.inbound
  BY <1>7 DEF Rooted, Keeps
<1>9. Covered(f)
  BY <1>7 DEF Covered, Present, Keeps
<1>10. Removed(f, e)
  BY <1>3, <1>7 DEF Removed, KeepsTree
<1> QED
  BY <1>6, <1>7, <1>8, <1>9, <1>10 DEF Made, Whole

LEMMA TransitionEnds ==
  ASSUME NEW e, Whole(e), NEW t \in TreeStates
  PROVE  Made(Transition(e, t), e, e)
<1> DEFINE f == Transition(e, t)
<1>1. Moved(f, e, t)
  BY TransitionMoves DEF Whole
<1> HIDE DEF f
<1>2. \A l \in Links : f.ifs[l].role = "Root" <=> l = f.inbound
  BY <1>1 DEF Moved, Whole, Keeps
<1>3. Covered(f)
  BY <1>1 DEF Moved, Whole, Covered, Present, Keeps
<1>4. Removed(f, e)
  BY <1>1 DEF Moved, Removed
<1>5. Made(f, e, e)
  BY <1>1, <1>2, <1>3, <1>4 DEF Made, Whole, Moved
<1> QED
  BY <1>5 DEF f

\* A route that the router may have, given its vifs and the entry's.
RouteFor(route, e) ==
  /\ route.rpc \in Nat /\ route.direct \in BOOLEAN
  /\ route.rif \in Links \cup {None}
  /\ route.rif # None => Present(e, route.rif)

\* f is e after its router took the route for the one to the source: a tree
\* that it does not fit is given up.
Updated(f, e, route) ==
  /\ Whole(f) /\ Removed(f, e) /\ SameKnowledge(f, e)
  /\ \A l \in Links : Present(f, l) <=> Present(e, l)
  /\ \/ f.tree = "Inactive"
     \/ f.originator = route.direct /\ f.inbound = route.rif /\ f.rpc = route.rpc

LEMMA GivenUp ==
  ASSUME NEW e, Whole(e), NEW route
  PROVE  Updated(Transition(e, "Inactive"), e, route)
<1> DEFINE f == Transition(e, "Inactive")
<1>1. "Inactive" \in TreeStates
  BY DEF TreeStates
<1>2. Made(f, e, e) /\ Moved(f, e, "Inactive")
  BY <1>1, TransitionEnds, TransitionMoves DEF Whole
<1> HIDE DEF f
<1>3. Updated(f, e, route)
  BY <1>2 DEF Made, Moved, Updated, SameKnowledge, Keeps, Present
<1> QED
  BY <1>3 DEF f

LEMMA RpcOnly ==
  ASSUME NEW e \in Entry, NEW rpc \in Nat, NEW k, k = [e EXCEPT !.rpc = rpc]
  PROVE  /\ k \in Entry /\ k.rpc = rpc /\ SameKnowledge(k, e) /\ k.inbound = e.inbound
         /\ k.ifs = e.ifs /\ k.tree = e.tree /\ k.removals = e.removals /\ k.sat = e.sat
         /\ Rooted(e) => Rooted(k)
         /\ Covered(e) => Covered(k)
         /\ AllElected(e) => AllElected(k)
         /\ Alike(e) => Alike(k)
         /\ Current(e) => Current(k)
<1>1. /\ k \in Entry /\ k.rpc = rpc /\ SameKnowledge(k, e) /\ k.inbound = e.inbound
      /\ k.ifs = e.ifs /\ k.tree = e.tree /\ k.removals = e.removals /\ k.sat = e.sat
      /\ k.mfc = e.mfc
  BY DEF Entry, SameKnowledge
<1>2. OutboundInterfaces(k) = OutboundInterfaces(e)
  BY <1>1 DEF OutboundInterfaces, Forwarding, SameKnowledge
<1>3. (AllElected(e) => AllElected(k)) /\ (Alike(e) => Alike(k))
  BY <1>1, SameElections DEF SameKnowledge
<1> QED
  BY <1>1, <1>2, <1>3 DEF Rooted, Covered, Present, Current, SameKnowledge

\* The root interface stays; the cost of the route may have changed.
LEMMA RpcUpdate ==
  ASSUME NEW e, Whole(e), NEW route, RouteFor(route, e), route.rif = e.inbound,
         NEW f, f = (IF e.rpc # route.rpc THEN SetRpc(e, route.rpc) ELSE e),
         e.originator = route.direct
  PROVE  Updated(f, e, route)
<1> DEFINE k == [e EXCEPT !.rpc = route.rpc]
<1>1. e \in Entry /\ Rooted(e) /\ Covered(e) /\ AllElected(e) /\ Alike(e) /\ Current(e)
  BY DEF Whole, Rooted
<1>2. route.rpc \in Nat
  BY DEF RouteFor
<1>3. CASE e.rpc = route.rpc
  BY <1>3, WholeEnds DEF Made, Updated, SameKnowledge
<1>4. CASE e.rpc # route.rpc
  <2>1. f = NotifyRpcChange(CheckTreeState(k), route.rpc)
    BY <1>4 DEF SetRpc
  <2>2. /\ k \in Entry /\ k.rpc = route.rpc /\ SameKnowledge(k, e) /\ k.inbound = e.inbound
        /\ k.ifs = e.ifs /\ k.tree = e.tree /\ k.removals = e.removals
        /\ Rooted(k) /\ Covered(k) /\ AllElected(k) /\ Alike(k) /\ Current(k)
    BY <1>1, <1>2, RpcOnly
  <2> HIDE DEF k
  <2>3. Made(f, k, e)
    BY <1>2, <2>1, <2>2, UpdateEnds
  <2> QED
    BY <2>2, <2>3 DEF Made, Updated, SameKnowledge, Keeps, Present
<1> QED
  BY <1>3, <1>4

\* The check of an entry that did not leave its state already.
LEMMA NonOriginatorState ==
  ASSUME NEW k \in Entry, ~k.originator, NEW new, k.tree = NewState(k),
         new = (IF k.tree = "Inactive" THEN "Inactive"
                ELSE IF FeasibleUpstream(UpstreamAt(k, k.inbound), k.rpc) THEN "Active" ELSE "Unsure")
  PROVE  new = k.tree
BY DEF NewState, NonOriginatorTreeState, HasInterface

LEMMA OriginatorState ==
  ASSUME NEW k \in Entry, k.originator, k.sat = (k.inbound # None), k.tree = NewState(k)
  PROVE  k.tree = "Inactive" \/ k.tree = (IF k.inbound = None THEN "Unsure" ELSE "Active")
<1>1. k.sat \in BOOLEAN
  BY EntryTypes
<1> QED
  BY <1>1 DEF NewState, OriginatorTreeState

\* delete of the interface that the new root interface replaces
LEMMA ReplaceKeeps ==
  ASSUME NEW e \in Entry, NEW i \in Links \cup {None}, NEW f, f = ReplaceInterface(e, i)
  PROVE  /\ f \in Entry /\ KeepsTree(f, e)
         /\ Rooted(e) => Rooted(f)
         /\ Covered(e) => Covered(f)
         /\ AllElected(e) => AllElected(f)
         /\ Alike(e) => Alike(f)
<1>1. CASE i = None
  BY <1>1, KeepsItself DEF ReplaceInterface, KeepsInterfaces
<1>2. CASE i # None
  <2>1. f = [e EXCEPT !.ifs[i].hold = FALSE]
    BY <1>2 DEF ReplaceInterface
  <2> DEFINE x == [e.ifs[i] EXCEPT !.hold = FALSE]
  <2>3. i \in Links /\ e.ifs[i] \in Interface /\ x \in Interface
    BY <1>2, EntryTypes, InterfaceTypes
  <2>2. f \in Entry /\ Others(f, e, i) /\ f.ifs[i] = [e.ifs[i] EXCEPT !.hold = FALSE]
    <3>1. f = [e EXCEPT !.ifs[i] = x]
      BY <2>1, <2>3 DEF Entry
    <3> HIDE DEF x
    <3>2. f \in Entry /\ Others(f, e, i) /\ f.ifs[i] = x
      BY <2>3, <3>1, InterfaceChange
    <3> QED
      BY <3>2 DEF x
  <2>4. /\ f.ifs[i].tree = e.ifs[i].tree /\ f.ifs[i].role = e.ifs[i].role
        /\ f.ifs[i].rpc = e.ifs[i].rpc /\ f.ifs[i].winner = e.ifs[i].winner
    BY <2>2, <2>3 DEF Interface
  <2>5. KeepsBut(f, e, i)
    BY <1>2, <2>2, <2>4, OthersKeep
  <2>6. \A l \in Links : /\ f.ifs[l].tree = e.ifs[l].tree /\ f.ifs[l].role = e.ifs[l].role
                         /\ f.ifs[l].rpc = e.ifs[l].rpc /\ f.ifs[l].winner = e.ifs[l].winner
    BY <2>2, <2>4 DEF Others
  <2>7. KeepsTree(f, e)
    BY <2>5 DEF KeepsBut
  <2>8. (AllElected(e) => AllElected(f)) /\ (Alike(e) => Alike(f))
    BY <2>2, <2>6, SameElections DEF Others
  <2> QED
    BY <2>2, <2>7, <2>8 DEF Rooted, Covered, Present, KeepsTree, Keeps
<1> QED
  BY <1>1, <1>2

\* Another interface becomes the root interface.
LEMMA MoveEnds ==
  ASSUME NEW e, Whole(e), NEW route, RouteFor(route, e), route.rif # e.inbound,
         e.originator = route.direct,
         NEW k \in Entry, SameKnowledge(k, e), k.tree = e.tree, k.removals = e.removals,
         k.inbound = route.rif, k.rpc = route.rpc, AllElected(k), Rooted(k),
         \A l \in Links : Present(k, l) <=> Present(e, l),
         k.tree = NewState(k) => Alike(k),
         NEW f, f = EvaluateInTree(Change(NotifyRpcChange(CheckTreeState(k), route.rpc)))
                \/ f = EvaluateInTree(Change(CheckTreeState(k)))
                \/ f = Change(CheckTreeState(k))
  PROVE  Updated(f, e, route)
<1>1. Covered(k)
  BY DEF Whole, Covered, SameKnowledge
<1>2. route.rpc \in Nat
  BY DEF RouteFor
<1>3. Made(f, k, e)
  BY <1>1, <1>2, UpdateEnds
<1> QED
  BY <1>3 DEF Made, Updated, SameKnowledge, Keeps, Present

LEMMA NonOriginatorMoves ==
  ASSUME NEW e, Whole(e), NEW route, RouteFor(route, e), route.rif # e.inbound,
         ~e.originator, ~route.direct
  PROVE  Updated(NonOriginatorUpdate(e, route), e, route)
<1> DEFINE up  == UpstreamAt(e, route.rif)
           new == IF e.tree = "Inactive" THEN "Inactive"
                  ELSE IF FeasibleUpstream(up, route.rpc) THEN "Active" ELSE "Unsure"
           old == ReplaceInterface(e, route.rif)
           d == IF e.inbound = None THEN old
                ELSE Demoted(old, e.inbound, route.rpc, e.tree, new)
           r == IF route.rif = None THEN d ELSE Promoted(d, route.rif, e.tree, new)
           g == [r EXCEPT !.inbound = route.rif]
           k == [g EXCEPT !.rpc = route.rpc]
           f == NonOriginatorUpdate(e, route)
<1>1. /\ e \in Entry /\ Rooted(e) /\ Covered(e) /\ AllElected(e) /\ Alike(e)
      /\ e.tree \in TreeStates /\ e.inbound \in Links \cup {None}
      /\ route.rpc \in Nat /\ route.rif \in Links \cup {None} /\ new \in TreeStates
  BY EntryTypes DEF Whole, Rooted, RouteFor, TreeStates
<1>2. f = EvaluateInTree(Change(IF e.rpc # route.rpc THEN SetRpc(g, route.rpc) ELSE CheckTreeState(g)))
  BY <1>1 DEF NonOriginatorUpdate, Demoted, Promoted, TreeStates
<1>3. /\ old \in Entry /\ KeepsTree(old, e) /\ Rooted(old) /\ AllElected(old) /\ Alike(old)
  BY <1>1, ReplaceKeeps
<1> HIDE DEF old
<1>4. /\ old.inbound = e.inbound /\ old.tree = e.tree /\ SameKnowledge(old, e)
      /\ old.removals = e.removals /\ old.rpc = e.rpc
      /\ \A l \in Links : Present(old, l) <=> Present(e, l)
  BY <1>3 DEF KeepsTree, Keeps, SameKnowledge, Present
<1> HIDE DEF new
<1>5. IF e.inbound = None THEN d = old
      ELSE /\ Rebuilt(d, old, e.inbound) /\ Elected(d, e.inbound)
           /\ d.ifs[e.inbound].role = "NonRoot" /\ d.ifs[e.inbound].tree = new
  BY <1>1, <1>3, AddNonRootBuilds
<1> HIDE DEF d
<1>6. d \in Entry
  BY <1>3, <1>5 DEF Rebuilt
<1>7. IF route.rif = None THEN r = d
      ELSE Rebuilt(r, d, route.rif) /\ r.ifs[route.rif].role = "Root"
  BY <1>1, <1>6, AddRootBuilds
<1> HIDE DEF r
<1>8. Rerooted(g, old, route.rif) /\ (new = old.tree => Alike(g))
  <2>1. GaveUpRoot(d, old, new) /\ TookRoot(r, d, route.rif)
    BY <1>4, <1>5, <1>7 DEF GaveUpRoot, TookRoot
  <2>2. NamedRoot(g, r, route.rif) /\ old.inbound # route.rif
    BY <1>4 DEF NamedRoot
  <2>3. route.rif \in Links \cup {None}
    BY <1>1
  <2> HIDE DEF g
  <2> QED
    BY <1>3, <2>1, <2>2, <2>3, RerootBuilds DEF StillAlike
<1> HIDE DEF g
<1>9. g \in Entry
  BY <1>8 DEF Rerooted
<1>10. /\ k \in Entry /\ k.rpc = route.rpc /\ SameKnowledge(k, g) /\ k.inbound = g.inbound
       /\ k.ifs = g.ifs /\ k.tree = g.tree /\ k.removals = g.removals
       /\ Rooted(g) => Rooted(k)
       /\ AllElected(g) => AllElected(k)
       /\ Alike(g) => Alike(k)
  BY <1>1, <1>9, RpcOnly
<1>11. e.rpc = route.rpc => k = g
  BY <1>4, <1>8, <1>9 DEF Rerooted, Entry
<1>12. \/ f = EvaluateInTree(Change(NotifyRpcChange(CheckTreeState(k), route.rpc)))
       \/ f = EvaluateInTree(Change(CheckTreeState(k)))
  BY <1>2, <1>11 DEF SetRpc
<1> HIDE DEF k, f
<1>13. /\ SameKnowledge(k, e) /\ k.tree = e.tree /\ k.removals = e.removals
       /\ k.inbound = route.rif /\ AllElected(k) /\ Rooted(k)
       /\ \A l \in Links : Present(k, l) <=> Present(e, l)
  <2>1. /\ SameKnowledge(k, e) /\ k.tree = e.tree /\ k.removals = e.removals
        /\ k.inbound = route.rif /\ AllElected(k) /\ Rooted(k)
    BY <1>4, <1>8, <1>10 DEF Rerooted, SameKnowledge
  <2>2. \A l \in Links : Present(k, l) <=> Present(g, l)
    BY <1>10 DEF Present
  <2>3. \A l \in Links : Present(g, l) <=> Present(e, l) \/ l = route.rif
    BY <1>4, <1>8 DEF Rerooted
  <2>4. \A l \in Links : l = route.rif => Present(e, l)
    BY TopologyAssumption DEF RouteFor
  <2> QED
    BY <2>1, <2>2, <2>3, <2>4
<1>14. k.tree = NewState(k) => Alike(k)
  <2> SUFFICES ASSUME k.tree = NewState(k) PROVE new = e.tree
    BY <1>4, <1>8, <1>10
  <2>1. UpstreamAt(k, k.inbound) = up /\ ~k.originator
    BY <1>13 DEF UpstreamAt, SameKnowledge
  <2>2. new = (IF k.tree = "Inactive" THEN "Inactive"
               ELSE IF FeasibleUpstream(UpstreamAt(k, k.inbound), k.rpc) THEN "Active" ELSE "Unsure")
    BY <1>10, <1>13, <2>1 DEF new
  <2> QED
    BY <1>10, <1>13, <2>1, <2>2, NonOriginatorState
<1>15. Updated(f, e, route)
  <2>1. e.originator = route.direct
    BY <1>1, EntryTypes DEF RouteFor
  <2> QED
    BY <1>10, <1>12, <1>13, <1>14, <2>1, MoveEnds
<1> QED
  BY <1>15 DEF f

\* An originator moves first, with the old cost, and then takes the new one.
LEMMA OriginatorMoves ==
  ASSUME NEW e, Whole(e), NEW route, RouteFor(route, e), route.rpc = e.rpc,
         route.rif # e.inbound, e.originator, route.direct, NEW new,
         new = (IF route.rif = None THEN "Unsure" ELSE "Active"),
         NEW d, d = (IF e.inbound = None THEN e ELSE Demoted(e, e.inbound, e.rpc, e.tree, new)),
         NEW r, r = (IF route.rif = None THEN d
                     ELSE [d EXCEPT !.ifs[route.rif] = RootInterface(new)]),
         NEW k, k = [r EXCEPT !.inbound = route.rif, !.sat = (route.rif # None)]
  PROVE  Updated(Change(CheckTreeState(k)), e, route)
<1> DEFINE f == Change(CheckTreeState(k))
<1>1. /\ e \in Entry /\ Rooted(e) /\ Covered(e) /\ AllElected(e) /\ Alike(e)
      /\ e.tree \in TreeStates /\ e.inbound \in Links \cup {None} /\ e.rpc \in Nat
      /\ route.rif \in Links \cup {None} /\ new \in TreeStates
  BY EntryTypes DEF Whole, Rooted, RouteFor, TreeStates
<1>2. GaveUpRoot(d, e, new) /\ d \in Entry
  <2>1. CASE e.inbound = None
    BY <1>1, <2>1 DEF GaveUpRoot
  <2>2. CASE e.inbound # None
    <3>1. d = Demoted(e, e.inbound, e.rpc, e.tree, new) /\ e.inbound \in Links
      BY <1>1, <2>2
    <3>2. /\ Rebuilt(d, e, e.inbound) /\ Elected(d, e.inbound)
          /\ d.ifs[e.inbound].role = "NonRoot" /\ d.ifs[e.inbound].tree = new
      BY <1>1, <3>1, AddNonRootBuilds
    <3> QED
      BY <2>2, <3>2 DEF GaveUpRoot, Rebuilt
  <2> QED
    BY <2>1, <2>2
<1>3. TookRoot(r, d, route.rif) /\ r \in Entry
  BY <1>1, <1>2, RootChange DEF TookRoot, Rebuilt
<1>4. NamedRoot(k, r, route.rif)
  BY DEF NamedRoot
<1>5. k.inbound = route.rif /\ k.sat = (k.inbound # None)
  BY <1>3 DEF Entry
<1>6. Rerooted(k, e, route.rif) /\ (Alike(e) /\ StillAlike(e, new) => Alike(k))
  BY <1>1, <1>2, <1>3, <1>4, RerootBuilds
<1>7. /\ k \in Entry /\ SameKnowledge(k, e) /\ k.tree = e.tree /\ k.removals = e.removals
      /\ k.rpc = route.rpc /\ AllElected(k) /\ Rooted(k) /\ k.originator
  BY <1>6 DEF Rerooted, SameKnowledge
<1>8. \A l \in Links : Present(k, l) <=> Present(e, l)
  <2>1. \A l \in Links : l = route.rif => Present(e, l)
    BY TopologyAssumption DEF RouteFor
  <2> QED
    BY <1>6, <2>1 DEF Rerooted
<1>9. k.tree = NewState(k) => Alike(k)
  <2> SUFFICES ASSUME k.tree = NewState(k) PROVE StillAlike(e, new)
    BY <1>1, <1>6
  <2>1. k.tree = "Inactive" \/ k.tree = (IF k.inbound = None THEN "Unsure" ELSE "Active")
    BY <1>5, <1>7, OriginatorState
  <2>2. k.inbound # None => k.tree = "Active"
    <3> SUFFICES ASSUME k.inbound # None PROVE HasInterface(k)
      BY <1>5, <1>7 DEF NewState, OriginatorTreeState
    <3>1. k.inbound \in Links
      BY <1>1, <1>5
    <3> QED
      BY <1>7, <3>1 DEF HasInterface, Present, Rooted
  <2> QED
    BY <1>5, <1>7, <2>1, <2>2 DEF StillAlike
<1>10. e.originator = route.direct
  BY EntryTypes, <1>1 DEF RouteFor
<1>11. f = Change(CheckTreeState(k))
  OBVIOUS
<1> HIDE DEF f
<1>12. Updated(f, e, route)
  BY <1>5, <1>7, <1>8, <1>9, <1>10, <1>11, MoveEnds
<1> QED
  BY <1>12 DEF f

LEMMA OriginatorUpdates ==
  ASSUME NEW e, Whole(e), NEW route, RouteFor(route, e), e.originator, route.direct
  PROVE  Updated(OriginatorUpdate(e, route), e, route)
<1> DEFINE same == [rpc |-> e.rpc, direct |-> TRUE, rif |-> route.rif]
           new == IF route.rif = None THEN "Unsure" ELSE "Active"
           d == IF e.inbound = None THEN e ELSE Demoted(e, e.inbound, e.rpc, e.tree, new)
           r == IF route.rif = None THEN d ELSE [d EXCEPT !.ifs[route.rif] = RootInterface(new)]
           k == [r EXCEPT !.inbound = route.rif, !.sat = (route.rif # None)]
           done == IF route.rif = e.inbound THEN e ELSE Change(CheckTreeState(k))
           j == [done EXCEPT !.rpc = route.rpc]
           f == OriginatorUpdate(e, route)
<1>1. f = IF e.rpc # route.rpc THEN NotifyRpcChange(j, route.rpc) ELSE done
  BY DEF OriginatorUpdate, Demoted
<1>2. e \in Entry /\ e.rpc \in Nat /\ route.rpc \in Nat
  BY EntryTypes DEF Whole, RouteFor
<1>3. RouteFor(same, e)
  BY <1>2 DEF RouteFor
<1>4. same.rpc = e.rpc /\ same.direct = TRUE /\ same.rif = route.rif
  OBVIOUS
<1> HIDE DEF same
<1>5. Updated(done, e, same)
  <2>1. CASE route.rif = e.inbound
    BY <1>2, <1>4, <2>1, WholeEnds DEF Made, Updated, SameKnowledge
  <2>2. CASE route.rif # e.inbound
    <3>1. /\ new = (IF same.rif = None THEN "Unsure" ELSE "Active")
          /\ r = (IF same.rif = None THEN d ELSE [d EXCEPT !.ifs[same.rif] = RootInterface(new)])
          /\ k = [r EXCEPT !.inbound = same.rif, !.sat = (same.rif # None)]
      BY <1>4
    <3>2. same.rif # e.inbound /\ same.direct
      BY <1>4, <2>2
    <3> HIDE DEF new, d, r, k
    <3>3. d = IF e.inbound = None THEN e ELSE Demoted(e, e.inbound, e.rpc, e.tree, new)
      BY DEF d
    <3>4. Updated(Change(CheckTreeState(k)), e, same)
      BY <1>3, <1>4, <3>1, <3>2, <3>3, OriginatorMoves
    <3> QED
      BY <2>2, <3>4
  <2> QED
    BY <2>1, <2>2
<1> HIDE DEF done, f
<1>6. Updated(f, e, route)
  <2>1. CASE e.rpc = route.rpc
    BY <1>1, <1>4, <1>5, <2>1 DEF Updated
  <2>2. CASE e.rpc # route.rpc
    <3>1. done \in Entry /\ Whole(done)
      BY <1>5 DEF Updated, Whole
    <3>2. /\ j \in Entry /\ j.rpc = route.rpc /\ SameKnowledge(j, done) /\ j.inbound = done.inbound
          /\ j.ifs = done.ifs /\ j.tree = done.tree /\ j.removals = done.removals
          /\ Rooted(j) /\ Covered(j) /\ AllElected(j) /\ Alike(j) /\ Current(j)
      BY <1>2, <3>1, RpcOnly DEF Whole, Rooted
    <3> HIDE DEF j
    <3>3. Removed(j, e)
      BY <1>5, <3>2 DEF Updated, Removed
    <3>4. Keeps(j, j)
      BY <3>2, KeepsItself DEF KeepsInterfaces, KeepsTree
    <3>5. Made(j, j, e)
      BY <3>2, <3>3, <3>4 DEF Made, Whole, Rooted
    <3>6. f = NotifyRpcChange(j, route.rpc)
      BY <1>1, <2>2
    <3>7. Made(f, j, e) /\ f.tree = j.tree
      BY <1>2, <3>2, <3>5, <3>6, NotifyEnds, LoopToRpc DEF KeepsTree
    <3>8. SameKnowledge(f, e) /\ f.inbound = done.inbound /\ f.rpc = route.rpc
      BY <1>5, <3>2, <3>7 DEF Made, Keeps, SameKnowledge, Updated
    <3>9. \A l \in Links : Present(f, l) <=> Present(e, l)
      BY <1>5, <3>2, <3>7 DEF Made, Keeps, Present, Updated
    <3>10. f.originator = done.originator
      BY <3>2, <3>7 DEF Made, Keeps, SameKnowledge
    <3>11. done.originator = TRUE \/ done.tree = "Inactive"
      BY <1>4, <1>5 DEF Updated
    <3> QED
      BY <1>4, <1>5, <3>2, <3>7, <3>8, <3>9, <3>10, <3>11 DEF Made, Updated
  <2> QED
    BY <2>1, <2>2
<1> QED
  BY <1>6 DEF f

\* network_update
LEMMA NetworkUpdateEnds ==
  ASSUME NEW e, Whole(e), NEW route, RouteFor(route, e)
  PROVE  Updated(NetworkUpdate(e, route), e, route)
<1> DEFINE f == NetworkUpdate(e, route)
<1>1. e.originator \in BOOLEAN /\ route.direct \in BOOLEAN /\ e \in Entry
  BY EntryTypes DEF Whole, RouteFor
<1>2. CASE e.originator # route.direct
  <2>1. f = Transition(e, "Inactive")
    BY <1>1, <1>2 DEF NetworkUpdate, OriginatorUpdate, NonOriginatorUpdate
  <2> QED
    BY <2>1, GivenUp
<1>3. CASE e.originator /\ route.direct
  BY <1>3, OriginatorUpdates DEF NetworkUpdate
<1>4. CASE ~e.originator /\ ~route.direct
  <2>1. f = NonOriginatorUpdate(e, route)
    BY <1>4 DEF NetworkUpdate
  <2>2. CASE route.rif # e.inbound
    BY <1>4, <2>1, <2>2, NonOriginatorMoves
  <2>3. CASE route.rif = e.inbound
    <3>1. f = IF e.rpc # route.rpc THEN SetRpc(e, route.rpc) ELSE e
      BY <1>4, <2>1, <2>3 DEF NonOriginatorUpdate
    <3>2. e.originator = route.direct
      BY <1>1, <1>4
    <3> HIDE DEF f
    <3>3. Updated(f, e, route)
      BY <2>3, <3>1, <3>2, RpcUpdate
    <3> QED
      BY <3>3 DEF f
  <2> QED
    BY <2>2, <2>3
<1> QED
  BY <1>1, <1>2, <1>3, <1>4

-----------------------------------------------------------------------------
(* A new entry *)

\* The loop of the constructor of an entry.
LEMMA ForEachNewNonRoot ==
  ASSUME NEW e \in Entry, NEW vifs, NEW N, N = Len(Vifs[e.router]),
         NEW T \in [0 .. N -> SUBSET Entry], e \in T[0],
         \A k \in 1 .. N : \A f \in T[k - 1] :
           (IF Vifs[e.router][k] \in vifs /\ Vifs[e.router][k] # e.inbound
            THEN NewNonRoot(f, Vifs[e.router][k], f.rpc, "Inactive", f.tree) ELSE f) \in T[k]
  PROVE  AddAllNonRoots(e, vifs) \in T[N]
<1> DEFINE vs == Vifs[e.router]
           Step(f, k) == (IF vs[k] \in vifs /\ vs[k] # e.inbound
                          THEN NewNonRoot(f, vs[k], f.rpc, "Inactive", f.tree) ELSE f)
           G == [x \in Entry \X (1 .. N) |-> Step(x[1], x[2])]
           Body(f) == [s \in SUBSET (DOMAIN vs) |->
                         IF s = {} THEN e ELSE Step(f[s \ {Max(s)}], Max(s))]
           h == CHOOSE f : f = Body(f)
<1>1. vs \in Seq(Links) /\ N \in Nat /\ DOMAIN vs = 1 .. N
  <2>1. e.router \in Routers
    BY EntryTypes
  <2>2. vs \in Seq(Links)
    BY <2>1, TopologyAssumption
  <2> QED
    BY <2>2
<1>2. ASSUME NEW f \in Entry, NEW k \in 1 .. N PROVE Step(f, k) \in Entry
  <2>1. vs[k] \in Links
    BY <1>1
  <2>2. f.rpc \in Nat /\ f.tree \in TreeStates /\ "Inactive" \in TreeStates
    BY EntryTypes DEF TreeStates
  <2> QED
    BY <2>1, <2>2, AddNonRootBuilds DEF Rebuilt
<1>3. G \in [Entry \X (1 .. N) -> Entry]
  BY <1>2
<1>4. ASSUME NEW f \in Entry, NEW k \in 1 .. N PROVE G[<<f, k>>] = Step(f, k)
  OBVIOUS
<1>5. AddAllNonRoots(e, vifs) = h[DOMAIN vs]
  BY Zenon DEF AddAllNonRoots, NewNonRoot, FoldLeft, MapThenFoldSet
<1> HIDE DEF G, Step, vs
<1>6. \E f : f = Body(f)
  <2>1. PICK f \in [SUBSET (1 .. N) -> Entry] : DefinesFold(f, N, e, G)
    BY Zenon, <1>1, <1>3, FoldExists
  <2>2. ASSUME NEW s \in SUBSET (1 .. N), s # {} PROVE f[s] = Step(f[s \ {Max(s)}], Max(s))
    <3>1. Max(s) \in 1 .. N /\ s \ {Max(s)} \in SUBSET (1 .. N)
      BY <1>1, <2>2, GreatestOfPrefix
    <3> QED
      BY <1>4, <2>1, <2>2, <3>1 DEF DefinesFold
  <2>3. f[{}] = e
    BY <2>1 DEF DefinesFold
  <2>4. ASSUME NEW s \in SUBSET (1 .. N)
        PROVE  f[s] = IF s = {} THEN e ELSE Step(f[s \ {Max(s)}], Max(s))
    BY <2>2, <2>3
  <2> QED
    BY <1>1, <2>1, <2>4
<1>7. h = Body(h)
  BY Zenon, <1>6
<1> HIDE DEF h
<1>8. ReadsFold(h, N, Entry, e, G)
  <2>1. ASSUME NEW s \in SUBSET (1 .. N)
        PROVE  h[s] = IF s = {} THEN e ELSE Step(h[s \ {Max(s)}], Max(s))
    BY Zenon, <1>1, <1>7
  <2>2. ASSUME NEW s \in SUBSET (1 .. N), s # {}, h[s \ {Max(s)}] \in Entry
        PROVE  h[s] = G[<<h[s \ {Max(s)}], Max(s)>>]
    <3>1. Max(s) \in 1 .. N
      BY <1>1, <2>2, GreatestOfPrefix
    <3> QED
      BY <1>4, <2>1, <2>2, <3>1
  <2> QED
    BY <2>1, <2>2 DEF ReadsFold
<1>9. ASSUME NEW k \in 1 .. N, NEW f \in T[k - 1] PROVE G[<<f, k>>] \in T[k]
  <2>1. f \in Entry
    BY <1>1
  <2> QED
    BY <1>4, <2>1 DEF Step, vs
<1>10. h[1 .. N] \in T[N]
  BY <1>1, <1>8, <1>9, FoldReaches
<1> QED
  BY <1>1, <1>5, <1>10

\* f is e with NonRoot interfaces, all elected and in its state.
Furnished(f, e, vifs) ==
  /\ f \in Entry
  /\ f.router = e.router /\ f.originator = e.originator /\ f.tree = e.tree
  /\ f.rpc = e.rpc /\ f.inbound = e.inbound
  /\ f.ups = e.ups /\ f.int = e.int /\ f.local = e.local /\ f.sat = e.sat
  /\ f.removals = e.removals
  /\ AllElected(f)
  /\ \A l \in Links : Present(f, l) => /\ f.ifs[l].role = "NonRoot" /\ f.ifs[l].tree = e.tree
                                       /\ l \in vifs /\ l # e.inbound

LEMMA LoopNonRoots ==
  ASSUME NEW e \in Entry, \A l \in Links : ~Present(e, l), NEW vifs,
         \A l \in vifs : \E k \in 1 .. Len(Vifs[e.router]) : Vifs[e.router][k] = l,
         NEW r, r = AddAllNonRoots(e, vifs)
  PROVE  /\ Furnished(r, e, vifs)
         /\ \A l \in vifs : l # e.inbound => Present(r, l)
<1> DEFINE vs == Vifs[e.router]
           N == Len(vs)
           T == [k \in 0 .. N |->
                   {f \in Entry : /\ Furnished(f, e, vifs)
                                  /\ \A j \in 1 .. k : vs[j] \in vifs /\ vs[j] # e.inbound
                                                       => Present(f, vs[j])}]
<1>1. vs \in Seq(Links) /\ N \in Nat
  <2>1. e.router \in Routers
    BY EntryTypes
  <2>2. vs \in Seq(Links)
    BY <2>1, TopologyAssumption
  <2> QED
    BY <2>2
<1>2. \A k \in 1 .. N : vs[k] \in Links
  BY <1>1
<1> HIDE DEF vs, N
<1>3. T \in [0 .. N -> SUBSET Entry]
  OBVIOUS
<1>4. e \in T[0]
  <2>1. AllElected(e)
    BY DEF AllElected, Elected, Present
  <2>2. Furnished(e, e, vifs)
    BY <2>1 DEF Furnished
  <2> QED
    BY <1>1, <2>2
<1>5. ASSUME NEW k \in 1 .. N, NEW f \in T[k - 1], NEW g,
             g = (IF vs[k] \in vifs /\ vs[k] # e.inbound
                  THEN NewNonRoot(f, vs[k], f.rpc, "Inactive", f.tree) ELSE f)
      PROVE  g \in T[k]
  <2>1. /\ f \in Entry /\ Furnished(f, e, vifs)
        /\ \A j \in 1 .. (k - 1) : vs[j] \in vifs /\ vs[j] # e.inbound => Present(f, vs[j])
    <3>1. k - 1 \in 0 .. N
      BY <1>1
    <3>2. T[k - 1] = {q \in Entry : /\ Furnished(q, e, vifs)
                                    /\ \A j \in 1 .. (k - 1) : vs[j] \in vifs /\ vs[j] # e.inbound
                                                               => Present(q, vs[j])}
      BY <3>1
    <3>3. f \in T[k - 1]
      OBVIOUS
    <3> HIDE DEF T
    <3> QED
      BY <3>2, <3>3
  <2>2. \A j \in 1 .. k : j = k \/ j \in 1 .. (k - 1)
    OBVIOUS
  <2>3. k \in 0 .. N
    BY <1>1
  <2>4. CASE ~(vs[k] \in vifs /\ vs[k] # e.inbound)
    BY <1>5, <2>1, <2>2, <2>3, <2>4
  <2>5. CASE vs[k] \in vifs /\ vs[k] # e.inbound
    <3>1. f.rpc \in Nat /\ f.tree \in TreeStates /\ "Inactive" \in TreeStates /\ vs[k] \in Links
      BY <1>2, <2>1, EntryTypes DEF TreeStates
    <3>2. /\ Rebuilt(g, f, vs[k]) /\ Elected(g, vs[k])
          /\ g.ifs[vs[k]].role = "NonRoot" /\ g.ifs[vs[k]].tree = f.tree
      BY <1>5, <2>1, <2>5, <3>1, AddNonRootBuilds
    <3>3. AllElected(g)
      BY <2>1, <3>1, <3>2, RebuiltElections DEF Furnished
    <3>4. g \in Entry /\ Furnished(g, e, vifs)
      BY <2>1, <2>5, <3>1, <3>2, <3>3 DEF Furnished, Rebuilt, Present
    <3>5. ASSUME NEW j \in 1 .. k, vs[j] \in vifs, vs[j] # e.inbound PROVE Present(g, vs[j])
      <4>1. CASE vs[j] = vs[k]
        BY <3>2, <4>1 DEF Present
      <4>2. CASE vs[j] # vs[k]
        <5>1. j \in 1 .. (k - 1) /\ j \in 1 .. N
          BY <1>1, <4>2
        <5> QED
          BY <1>2, <2>1, <3>2, <3>5, <4>2, <5>1 DEF Rebuilt, Present
      <4> QED
        BY <4>1, <4>2
    <3> QED
      BY <2>3, <3>4, <3>5
  <2> QED
    BY <2>4, <2>5
<1>6. r \in T[N]
  <2> HIDE DEF T
  <2> QED
    BY <1>3, <1>4, <1>5, ForEachNewNonRoot DEF vs, N
<1>7. /\ Furnished(r, e, vifs)
      /\ \A j \in 1 .. N : vs[j] \in vifs /\ vs[j] # e.inbound => Present(r, vs[j])
  BY <1>1, <1>6
<1> QED
  BY <1>7 DEF vs, N

\* What an entry is created with.
Blank(e, vifs) ==
  /\ e \in Entry /\ vifs \in SUBSET Links
  /\ \A l \in vifs : \E k \in 1 .. Len(Vifs[e.router]) : Vifs[e.router][k] = l
  /\ e.inbound # None => e.inbound \in vifs
  /\ \A l \in Links : ~Present(e, l)

\* f is the entry made of the blank entry e, with an interface for each vif.
Created(f, e, vifs) ==
  /\ Whole(f) /\ SameKnowledge(f, e) /\ f.rpc = e.rpc /\ f.inbound = e.inbound
  /\ \A l \in Links : Present(f, l) <=> l \in vifs
  /\ f.removals >= e.removals
  /\ f.tree = "Inactive" => f.removals > e.removals \/ ~(e.originator \/ SomeUpstream(e))

\* r has the interfaces and the knowledge of a new entry.
Ready(r, e, vifs) ==
  /\ r \in Entry /\ SameKnowledge(r, e) /\ r.rpc = e.rpc /\ r.inbound = e.inbound
  /\ r.tree = e.tree /\ r.removals = e.removals /\ r.sat = e.sat
  /\ Rooted(r) /\ Covered(r) /\ AllElected(r) /\ Alike(r)
  /\ \A l \in Links : Present(r, l) <=> l \in vifs

AllNonRoots(d, e, vifs) ==
  Furnished(d, e, vifs) /\ \A l \in vifs : l # e.inbound => Present(d, l)

\* The root interface is made last.
LEMMA FurnishedWithRoot ==
  ASSUME NEW e, NEW vifs, Blank(e, vifs), NEW d, AllNonRoots(d, e, vifs),
         NEW r, TookRoot(r, d, e.inbound)
  PROVE  Ready(r, e, vifs)
<1> USE DEF AllNonRoots
<1>1. /\ r \in Entry /\ SameKnowledge(r, e) /\ r.rpc = e.rpc /\ r.inbound = e.inbound
      /\ r.tree = e.tree /\ r.removals = e.removals /\ r.sat = e.sat
      /\ \A l \in Links : l # e.inbound => r.ifs[l] = d.ifs[l]
  BY DEF TookRoot, Furnished, SameKnowledge, Rebuilt
<1>2. \A l \in Links : l = e.inbound => r.ifs[l].role = "Root"
  BY TopologyAssumption DEF TookRoot
<1>3. \A l \in Links : Present(r, l) <=> l \in vifs
  BY <1>1, <1>2, TopologyAssumption DEF Present, Furnished, Blank
<1>4. Rooted(r)
  BY <1>1, <1>2 DEF Rooted, Furnished, Present
<1>5. Covered(r)
  BY <1>1, <1>3 DEF Covered, Blank, SameKnowledge
<1>6. AllElected(r)
  <2> SUFFICES ASSUME NEW l \in Links, l # e.inbound PROVE Elected(r, l)
    BY <1>2 DEF AllElected, Elected
  <2>1. Elected(d, l)
    BY DEF Furnished, AllElected
  <2>2. WinsAssert(r, l) = WinsAssert(d, l)
    BY <1>1 DEF WinsAssert, SameKnowledge, Furnished
  <2> QED
    BY <1>1, <2>1, <2>2 DEF Elected
<1>7. Alike(r)
  <2> SUFFICES ASSUME NEW l \in Links PROVE InState(r, l, r.tree)
    BY DEF Alike, AlikeAt, InState, Unannounced
  <2>1. CASE l = e.inbound
    BY <1>2, <2>1 DEF InState
  <2>2. CASE l # e.inbound
    BY <1>1, <2>2 DEF InState, Furnished, Present
  <2> QED
    BY <2>1, <2>2
<1> QED
  BY <1>1, <1>3, <1>4, <1>5, <1>6, <1>7 DEF Ready

\* e with the state that the constructor gives it.
LEMMA BlankKept ==
  ASSUME NEW e, NEW vifs, Blank(e, vifs), NEW f \in Entry, SameKnowledge(f, e), f.ifs = e.ifs,
         f.inbound = e.inbound
  PROVE  Blank(f, vifs)
BY DEF Blank, SameKnowledge, Present

LEMMA CreateOriginatorEnds ==
  ASSUME NEW e, NEW vifs, Blank(e, vifs), e.originator
  PROVE  Created(CreateOriginator(e, vifs), e, vifs)
<1> DEFINE s == [e EXCEPT !.sat = (e.inbound # None),
                          !.tree = IF e.inbound # None THEN "Active" ELSE "Unsure"]
           d == AddAllNonRoots(s, vifs)
           r == IF e.inbound = None THEN d
                ELSE [d EXCEPT !.ifs[e.inbound] = RootInterface(d.tree)]
           c == Change(r)
           f == CheckTreeState(c)
<1>1. CreateOriginator(e, vifs) = f
  BY DEF CreateOriginator
<1>2. e \in Entry
  BY DEF Blank
<1>3. /\ s \in Entry /\ SameKnowledge(s, e) /\ s.ifs = e.ifs /\ s.inbound = e.inbound
      /\ s.rpc = e.rpc /\ s.removals = e.removals /\ s.tree \in {"Active", "Unsure"}
  BY <1>2 DEF Entry, SameKnowledge, TreeStates
<1> HIDE DEF s
<1>4. Blank(s, vifs)
  BY <1>3, BlankKept
<1>5. Furnished(d, s, vifs) /\ \A l \in vifs : l # s.inbound => Present(d, l)
  BY <1>3, <1>4, LoopNonRoots DEF Blank
<1> HIDE DEF d
<1>6. TookRoot(r, d, s.inbound)
  <2>1. d \in Entry /\ d.tree \in TreeStates /\ e.inbound \in Links \cup {None}
    BY <1>2, <1>5, EntryTypes DEF Furnished
  <2> QED
    BY <1>3, <2>1, RootChange DEF TookRoot
<1> HIDE DEF r
<1>7. /\ r \in Entry /\ SameKnowledge(r, s) /\ r.rpc = s.rpc /\ r.inbound = s.inbound
      /\ r.tree = s.tree /\ r.removals = s.removals
      /\ Rooted(r) /\ Covered(r) /\ AllElected(r) /\ Alike(r)
      /\ \A l \in Links : Present(r, l) <=> l \in vifs
  <2>1. AllNonRoots(d, s, vifs)
    BY <1>5 DEF AllNonRoots
  <2>2. Ready(r, s, vifs)
    BY <1>4, <1>6, <2>1, FurnishedWithRoot
  <2> QED
    BY <2>2 DEF Ready
<1>8. KeepsInterfaces(c, r) /\ Current(c)
  BY <1>7, ChangeKeeps, ChangeIsCurrent
<1>9. Made(f, r, r)
  BY <1>7, <1>8, RerootEnds
<1> HIDE DEF c, f
<1>10. Created(f, e, vifs)
  BY <1>3, <1>7, <1>9 DEF Made, Created, Removed, Keeps, SameKnowledge, Present
<1> QED
  BY <1>1, <1>10

LEMMA CreateNonOriginatorEnds ==
  ASSUME NEW e, NEW vifs, Blank(e, vifs), ~e.originator, e.tree = "Inactive"
  PROVE  Created(CreateNonOriginator(e, vifs), e, vifs)
<1> DEFINE t == IF FeasibleUpstream(UpstreamAt(e, e.inbound), e.rpc) THEN "Active"
                ELSE IF SomeUpstream(e) THEN "Unsure" ELSE "Inactive"
           s == [e EXCEPT !.tree = t]
           d == AddAllNonRoots(s, vifs)
           w == [d EXCEPT !.was_in_tree = IsInTree(d)]
           r == IF e.inbound = None THEN w ELSE NewRoot(w, e.inbound, "Inactive", w.tree)
           f == EvaluateInTree(Change(r))
<1>1. CreateNonOriginator(e, vifs) = f
  BY DEF CreateNonOriginator, NewRoot
<1>2. e \in Entry /\ e.inbound \in Links \cup {None} /\ t \in TreeStates /\ e.removals \in Nat
  BY EntryTypes DEF Blank, TreeStates
<1>3. t = "Inactive" => ~SomeUpstream(e)
  OBVIOUS
<1> HIDE DEF t
<1>4. /\ s \in Entry /\ SameKnowledge(s, e) /\ s.ifs = e.ifs /\ s.inbound = e.inbound
      /\ s.rpc = e.rpc /\ s.removals = e.removals /\ s.tree = t
  BY <1>2 DEF Entry, SameKnowledge
<1> HIDE DEF s
<1>5. Blank(s, vifs)
  BY <1>4, BlankKept
<1>6. Furnished(d, s, vifs) /\ \A l \in vifs : l # s.inbound => Present(d, l)
  BY <1>4, <1>5, LoopNonRoots DEF Blank
<1> HIDE DEF d
<1>7. Furnished(w, s, vifs) /\ \A l \in vifs : l # s.inbound => Present(w, l)
  <2>1. d \in Entry /\ IsInTree(d) \in BOOLEAN
    BY <1>6 DEF Furnished, IsInTree
  <2>2. /\ w \in Entry /\ w.router = d.router /\ w.originator = d.originator
        /\ w.tree = d.tree /\ w.rpc = d.rpc /\ w.inbound = d.inbound /\ w.ups = d.ups
        /\ w.int = d.int /\ w.local = d.local /\ w.sat = d.sat /\ w.removals = d.removals
        /\ w.ifs = d.ifs
    BY <2>1 DEF Entry
  <2> HIDE DEF w
  <2>3. AllElected(w)
    BY <1>6, <2>2, SameElections DEF Furnished
  <2> QED
    BY <1>6, <2>2, <2>3 DEF Furnished, Present
<1> HIDE DEF w
<1>8. TookRoot(r, w, s.inbound)
  <2>1. CASE e.inbound = None
    BY <1>4, <2>1 DEF TookRoot
  <2>2. CASE e.inbound # None
    <3>1. w \in Entry /\ w.tree \in TreeStates /\ e.inbound \in Links /\ "Inactive" \in TreeStates
      BY <1>2, <1>7, <2>2, EntryTypes DEF Furnished, TreeStates
    <3>2. r = NewRoot(w, e.inbound, "Inactive", w.tree)
      BY <2>2
    <3> HIDE DEF r
    <3>3. Rebuilt(r, w, e.inbound) /\ r.ifs[e.inbound].role = "Root"
      BY <3>1, <3>2, AddRootBuilds
    <3> QED
      BY <1>4, <2>2, <3>3 DEF TookRoot
  <2> QED
    BY <2>1, <2>2
<1> HIDE DEF r
<1>9. /\ r \in Entry /\ SameKnowledge(r, s) /\ r.rpc = s.rpc /\ r.inbound = s.inbound
      /\ r.tree = s.tree /\ r.removals = s.removals
      /\ Rooted(r) /\ Covered(r) /\ AllElected(r) /\ Alike(r)
      /\ \A l \in Links : Present(r, l) <=> l \in vifs
  <2>1. AllNonRoots(w, s, vifs)
    BY <1>7 DEF AllNonRoots
  <2>2. Ready(r, s, vifs)
    BY <1>5, <1>8, <2>1, FurnishedWithRoot
  <2> QED
    BY <2>2 DEF Ready
<1>10. KeepsInterfaces(f, r) /\ Current(f)
  BY <1>9, ChangeAndEvaluate
<1> HIDE DEF f
<1>11. Made(f, r, r)
  BY <1>9, <1>10, RerootEnds
<1>12. f.tree = t /\ f.removals = e.removals
  BY <1>4, <1>9, <1>10 DEF KeepsInterfaces, KeepsTree
<1>13. Created(f, e, vifs)
  BY <1>2, <1>3, <1>4, <1>9, <1>11, <1>12 DEF Made, Created, Keeps, SameKnowledge, Present
<1> QED
  BY <1>1, <1>13

\* create_entry
LEMMA CreateEntryEnds ==
  ASSUME NEW n \in Routers, NEW route,
         route.rpc \in Nat, route.direct \in BOOLEAN, route.rif \in Links \cup {None},
         NEW ups \in [Links -> AssertMetrics], NEW int \in [Links -> BOOLEAN],
         NEW members, NEW vifs \in SUBSET Links,
         \A l \in vifs : \E k \in 1 .. Len(Vifs[n]) : Vifs[n][k] = l,
         route.rif # None => route.rif \in vifs,
         NEW e, e = BlankEntry(n, route, ups, int, members, vifs)
  PROVE  /\ Created(CreateEntry(n, route, ups, int, members, vifs), e, vifs)
         /\ e.router = n /\ e.originator = route.direct /\ e.rpc = route.rpc
         /\ e.inbound = route.rif /\ e.ups = ups /\ e.int = int
         /\ e.local = members \cap vifs /\ e.removals = 0
<1>1. /\ e.router = n /\ e.originator = route.direct /\ e.rpc = route.rpc
      /\ e.inbound = route.rif /\ e.ups = ups /\ e.int = int
      /\ e.local = members \cap vifs /\ e.removals = 0 /\ e.tree = "Inactive"
      /\ e.ifs = [i \in Links |-> NoInterface]
  BY DEF BlankEntry
<1>2. e \in Entry
  <2>1. NoInterface \in Interface
    BY DEF NoInterface, Interface, TreeStates
  <2>2. NoRoute \in [iif : Links \cup {None}, oil : SUBSET Links]
    BY DEF NoRoute
  <2>3. <<>> \in Seq(Messages) /\ "Inactive" \in TreeStates
    BY DEF TreeStates
  <2> QED
    BY <2>1, <2>2, <2>3 DEF BlankEntry, Entry
<1>3. \A l \in Links : ~Present(e, l)
  BY <1>1 DEF Present, NoInterface
<1>4. Blank(e, vifs)
  BY <1>1, <1>2, <1>3 DEF Blank
<1>5. CreateEntry(n, route, ups, int, members, vifs)
        = IF route.direct THEN CreateOriginator(e, vifs) ELSE CreateNonOriginator(e, vifs)
  BY DEF CreateEntry
<1> QED
  BY <1>1, <1>4, <1>5, CreateOriginatorEnds, CreateNonOriginatorEnds

-----------------------------------------------------------------------------
(* The calls, as the rest of the router sees them *)

\* f is e after a call that told it what the neighbors of i say, u and b, and the
\* links with members, local.
Informed(f, e, i, u, b, local) ==
  /\ Whole(f) /\ Removed(f, e)
  /\ f.router = e.router /\ f.originator = e.originator
  /\ f.rpc = e.rpc /\ f.inbound = e.inbound
  /\ f.ups[i] = u /\ f.int[i] = b /\ f.local = local
  /\ \A l \in Links : l # i => f.ups[l] = e.ups[l] /\ f.int[l] = e.int[l]
  /\ \A l \in Links : Present(f, l) <=> Present(e, l)

Kept(f, e) ==
  /\ Whole(f) /\ Removed(f, e) /\ SameKnowledge(f, e)
  /\ f.rpc = e.rpc /\ f.inbound = e.inbound
  /\ \A l \in Links : Present(f, l) <=> Present(e, l)

LEMMA MadeIsKept ==
  ASSUME NEW e, NEW f, Made(f, e, e)
  PROVE  Kept(f, e)
BY DEF Made, Kept, SameKnowledge, Keeps, Present

SourceStarts(e) == SourceActive(e, TRUE)
SourceStops(e) == SourceActive(e, FALSE)

LEMMA SourceKept ==
  ASSUME NEW e, Whole(e), NEW f, f = SourceStarts(e) \/ f = SourceStops(e)
  PROVE  Kept(f, e)
<1>1. ASSUME NEW b \in BOOLEAN, f = SourceActive(e, b) PROVE Kept(f, e)
  <2> DEFINE k == [e EXCEPT !.sat = b]
  <2>1. Made(f, k, e)
    BY <1>1, SourceActiveEnds
  <2>2. /\ k.router = e.router /\ k.originator = e.originator /\ k.rpc = e.rpc
        /\ k.inbound = e.inbound /\ k.ups = e.ups /\ k.int = e.int /\ k.local = e.local
        /\ k.ifs = e.ifs
    BY DEF Whole, Entry
  <2> HIDE DEF k
  <2> QED
    BY <2>1, <2>2 DEF Made, Kept, SameKnowledge, Keeps, Present
<1>2. CASE f = SourceStarts(e)
  <2> DEFINE b == TRUE
  <2>1. b \in BOOLEAN /\ f = SourceActive(e, b)
    BY <1>2 DEF SourceStarts
  <2> HIDE DEF b
  <2> QED
    BY <1>1, <2>1
<1>3. CASE f = SourceStops(e)
  <2> DEFINE b == FALSE
  <2>1. b \in BOOLEAN /\ f = SourceActive(e, b)
    BY <1>3 DEF SourceStops
  <2> HIDE DEF b
  <2> QED
    BY <1>1, <2>1
<1> QED
  BY <1>2, <1>3

LEMMA HoldKept ==
  ASSUME NEW e, Whole(e), NEW i \in Links
  PROVE  Kept(HoldForwardingTimeout(e, i), e)
BY HoldTimeoutEnds, MadeIsKept

LEMMA MembershipInforms ==
  ASSUME NEW e, Whole(e), NEW i \in Links, NEW b \in BOOLEAN, Present(e, i)
  PROVE  Informed(NotifyMembership(e, i, b), e, i, e.ups[i], e.int[i],
                  IF b THEN e.local \cup {i} ELSE e.local \ {i})
<1> DEFINE local == IF b THEN e.local \cup {i} ELSE e.local \ {i}
           k == [e EXCEPT !.local = IF b THEN @ \cup {i} ELSE @ \ {i}]
           f == NotifyMembership(e, i, b)
<1>1. Made(f, k, e)
  BY NotifyMembershipEnds
<1>2. /\ k.router = e.router /\ k.originator = e.originator /\ k.rpc = e.rpc
      /\ k.inbound = e.inbound /\ k.ups = e.ups /\ k.int = e.int /\ k.local = local
      /\ k.ifs = e.ifs
  BY DEF Whole, Entry
<1> HIDE DEF k, f, local
<1>3. Informed(f, e, i, e.ups[i], e.int[i], local)
  BY <1>1, <1>2 DEF Made, Informed, Keeps, Present
<1> QED
  BY <1>3 DEF f, local

LEMMA InterestInforms ==
  ASSUME NEW e, Whole(e), NEW i \in Links, NEW b \in BOOLEAN, Present(e, i), e.tree # "Inactive"
  PROVE  Informed(CheckInterestState(e, i, b), e, i, e.ups[i], b, e.local)
<1> DEFINE k == [e EXCEPT !.int[i] = b]
           f == CheckInterestState(e, i, b)
<1>1. Made(f, k, e)
  BY CheckInterestEnds
<1>2. /\ k.router = e.router /\ k.originator = e.originator /\ k.rpc = e.rpc
      /\ k.inbound = e.inbound /\ k.ups = e.ups /\ k.int[i] = b /\ k.local = e.local
      /\ k.ifs = e.ifs /\ \A l \in Links : l # i => k.int[l] = e.int[l]
  BY DEF Whole, Entry
<1> HIDE DEF k, f
<1>3. Informed(f, e, i, e.ups[i], b, e.local)
  BY <1>1, <1>2 DEF Made, Informed, Keeps, Present
<1> QED
  BY <1>3 DEF f

LEMMA NeighborInforms ==
  ASSUME NEW e, Whole(e), NEW i \in Links, NEW u \in AssertMetrics, NEW b \in BOOLEAN,
         NEW fresh, Present(e, i), e.tree # "Inactive"
  PROVE  Informed(CheckInterfaceState(e, i, u, b, fresh), e, i, u, b, e.local)
<1> DEFINE k == [e EXCEPT !.ups[i] = u, !.int[i] = b]
           f == CheckInterfaceState(e, i, u, b, fresh)
<1>1. Made(f, k, e)
  BY CheckInterfaceEnds
<1>2. /\ k.router = e.router /\ k.originator = e.originator /\ k.rpc = e.rpc
      /\ k.inbound = e.inbound /\ k.ups[i] = u /\ k.int[i] = b /\ k.local = e.local
      /\ k.ifs = e.ifs
      /\ \A l \in Links : l # i => k.ups[l] = e.ups[l] /\ k.int[l] = e.int[l]
  BY DEF Whole, Entry
<1> HIDE DEF k, f
<1>3. Informed(f, e, i, u, b, e.local)
  BY <1>1, <1>2 DEF Made, Informed, Keeps, Present
<1> QED
  BY <1>3 DEF f

\* Neither does anything to an Inactive tree.
LEMMA InactiveKept ==
  ASSUME NEW e, Whole(e), NEW i, NEW u, NEW b, NEW fresh, e.tree = "Inactive"
  PROVE  CheckInterfaceState(e, i, u, b, fresh) = e /\ CheckInterestState(e, i, b) = e
BY DEF CheckInterfaceState, CheckInterestState

\* remove_interface of i
InterfaceRemoved(f, e, i) ==
  /\ Whole(f) /\ Removed(f, e)
  /\ f.router = e.router /\ f.originator = e.originator /\ f.rpc = e.rpc
  /\ f.inbound = (IF e.inbound = i THEN None ELSE e.inbound)
  /\ f.ups[i] = NoUpstream /\ f.int[i] = FALSE /\ f.local = e.local \ {i}
  /\ \A l \in Links : l # i => f.ups[l] = e.ups[l] /\ f.int[l] = e.int[l]
  /\ \A l \in Links : Present(f, l) <=> Present(e, l) /\ l # i

LEMMA InterfaceIsRemoved ==
  ASSUME NEW e, Whole(e), NEW i \in Links, Present(e, i)
  PROVE  InterfaceRemoved(RemoveInterface(e, i), e, i)
<1> DEFINE k == [e EXCEPT !.inbound = IF @ = i THEN None ELSE @,
                          !.ups[i] = NoUpstream, !.int[i] = FALSE,
                          !.local = @ \ {i}, !.ifs[i] = NoInterface]
           j == [k EXCEPT !.sat = FALSE]
           f == RemoveInterface(e, i)
<1>1. Made(f, k, e) \/ Made(f, j, e)
  BY RemoveInterfaceEnds
<1>2. /\ k.router = e.router /\ k.originator = e.originator /\ k.rpc = e.rpc
      /\ k.inbound = (IF e.inbound = i THEN None ELSE e.inbound)
      /\ k.ups[i] = NoUpstream /\ k.int[i] = FALSE /\ k.local = e.local \ {i}
      /\ k.ifs[i] = NoInterface
      /\ \A l \in Links : l # i => /\ k.ups[l] = e.ups[l] /\ k.int[l] = e.int[l]
                                   /\ k.ifs[l] = e.ifs[l]
  BY DEF Whole, Entry
<1>3. /\ j.router = k.router /\ j.originator = k.originator /\ j.rpc = k.rpc
      /\ j.inbound = k.inbound /\ j.ups = k.ups /\ j.int = k.int /\ j.local = k.local
      /\ j.ifs = k.ifs
  BY DEF Whole, Entry
<1>4. NoInterface.role = "Absent"
  BY DEF NoInterface
<1> HIDE DEF j, k, f
<1>5. ASSUME NEW x, Keeps(f, x), x = j \/ x = k, Whole(f), Removed(f, e)
      PROVE  InterfaceRemoved(f, e, i)
  <2>1. \A l \in Links : Present(f, l) <=> Present(e, l) /\ l # i
    BY <1>2, <1>3, <1>4, <1>5 DEF Keeps, Present
  <2> QED
    BY <1>2, <1>3, <1>5, <2>1 DEF InterfaceRemoved, Keeps
<1>6. InterfaceRemoved(f, e, i)
  BY <1>1, <1>5 DEF Made
<1> QED
  BY <1>6 DEF f

\* new_interface of i, on which nobody is a member yet and no neighbor is known,
\* and the check of that interface
InterfaceAdded(f, e, i, rif) ==
  /\ Whole(f) /\ Removed(f, e)
  /\ f.router = e.router /\ f.originator = e.originator /\ f.rpc = e.rpc
  /\ f.inbound = (IF rif = i THEN i ELSE e.inbound)
  /\ f.ups[i] = NoUpstream /\ f.int[i] = FALSE /\ f.local = e.local \ {i}
  /\ \A l \in Links : l # i => f.ups[l] = e.ups[l] /\ f.int[l] = e.int[l]
  /\ \A l \in Links : Present(f, l) <=> Present(e, l) \/ l = i

AddedInterface(e, i, route) ==
  CheckInterfaceState(NewInterface(e, i, route, FALSE), i, NoUpstream, FALSE, None)

LEMMA InterfaceIsAdded ==
  ASSUME NEW e, Whole(e), NEW i \in Links, NEW route, ~Present(e, i),
         \E k \in 1 .. Len(Vifs[e.router]) : Vifs[e.router][k] = i
  PROVE  InterfaceAdded(AddedInterface(e, i, route), e, i, route.rif)
<1> DEFINE b == FALSE
           g == NewInterface(e, i, route, b)
           local == e.local \ {i}
           c == Cleared(e, i, local)
           f == CheckInterfaceState(g, i, NoUpstream, b, None)
<1>1. b \in BOOLEAN /\ NoUpstream \in AssertMetrics
  BY DEF AssertMetrics
<1>2. local = IF b THEN e.local \cup {i} ELSE e.local \ {i}
  OBVIOUS
<1>3. b = FALSE
  OBVIOUS
<1>4. AddedInterface(e, i, route) = f
  BY DEF AddedInterface
<1>5. local \in LocalSets
  BY EntryTypes DEF Whole, LocalSets
<1>6. local = e.local \ {i}
  OBVIOUS
<1> HIDE DEF local, b
<1>7. Whole(g) /\ Removed(g, e) /\ Extended(g, c, i, route.rif)
  BY <1>1, <1>2, NewInterfaceEnds
<1>8. c = Cleared(e, i, local)
  OBVIOUS
<1> HIDE DEF g, c
<1>9. ClearedTo(c, e, i, local)
  BY <1>5, <1>8, ClearedFacts
<1>10. InterfaceAdded(g, e, i, route.rif)
  BY <1>3, <1>6, <1>7, <1>9 DEF Extended, ClearedTo, InterfaceAdded, SameKnowledge, Present
<1> HIDE DEF f
<1>11. CASE g.tree = "Inactive"
  BY <1>4, <1>7, <1>10, <1>11, InactiveKept DEF f
<1>12. CASE g.tree # "Inactive"
  <2>1. Present(g, i)
    BY <1>10 DEF InterfaceAdded
  <2>2. Informed(f, g, i, NoUpstream, b, g.local)
    BY <1>1, <1>7, <1>12, <2>1, NeighborInforms DEF f
  <2>3. Removed(f, e)
    BY <1>7, <2>2, RemovedTransitive DEF Informed, Whole
  <2>4. InterfaceAdded(f, e, i, route.rif)
    BY <1>3, <1>10, <2>2, <2>3 DEF InterfaceAdded, Informed
  <2> QED
    BY <1>4, <2>4
<1> QED
  BY <1>11, <1>12
=============================================================================
