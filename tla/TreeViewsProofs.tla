--------------------------- MODULE TreeViewsProofs ---------------------------
(***************************************************************************)
(* What the neighbors of a router believe of it, for any network.          *)
(*                                                                         *)
(* A router states on a link that it is UPSTREAM, with its RPC, when its   *)
(* NonRoot interface there is in an Active tree.  Every call of            *)
(* KernelEntry.py is faithful: who agreed with what the router stated      *)
(* before the call, and hears the messages that the call sends, agrees     *)
(* with what it states afterwards.  The network adds what delivers these   *)
(* messages, in Truthful.                                                  *)
(***************************************************************************)
EXTENDS TreeNetworkProofs

-----------------------------------------------------------------------------
(* Statements *)

\* v, which somebody stores of a router, and s, which the router states.
Agrees(v, s) == "IamUpstream" \in {v.kind, s.kind} => v = s

Upstream(rpc) == [kind |-> "IamUpstream", metric |-> rpc]

\* get_interface_sync_state of an entry, on link l.
Stated(e, l) ==
  IF l \notin SourceLinks /\ e.ifs[l].role = "NonRoot" /\ e.ifs[l].tree = "Active"
  THEN Upstream(e.ifs[l].rpc) ELSE NoInfo

\* The messages of ms for the neighbor m of link l, and what m stores after it
\* got the last one of them: w, when there is none.
Reaches(x, l, m) == x.link = l /\ x.to \in {None, m}
For(ms, l, m) == {k \in DOMAIN ms : Reaches(ms[k], l, m)}
IsLast(k, S) == k \in S /\ \A j \in S : j <= k
LastOf(S) == CHOOSE k : IsLast(k, S)
Heard(ms, w, l, m) ==
  IF For(ms, l, m) = {} THEN w ELSE StoredView(ms[LastOf(For(ms, l, m))])

\* Who agreed with e on link l, agrees with the statement s after the messages of f.
Says(f, e, l, s) ==
  \A m \in Routers, w \in Views :
    Agrees(Heard(e.out, w, l, m), Stated(e, l)) => Agrees(Heard(f.out, w, l, m), s)

FaithfulAt(f, e, l) == Says(f, e, l, Stated(f, l))
Faithful(f, e) == \A l \in Links : FaithfulAt(f, e, l)
FaithfulBut(f, e, i) == \A l \in Links : l # i => FaithfulAt(f, e, l)

LEMMA LastExists ==
  ASSUME NEW n \in Nat, NEW S \in SUBSET (1 .. n), S # {}
  PROVE  \E k \in S : IsLast(k, S)
<1> DEFINE D == {n - x : x \in S}
<1>1. D \in SUBSET Nat /\ D # {}
  <2>1. \A x \in S : n - x \in Nat
    OBVIOUS
  <2> QED
    BY <2>1
<1> HIDE DEF D
<1>2. PICK d \in D : \A y \in D : d <= y
  BY <1>1, LeastNumber
<1>3. PICK x \in S : d = n - x
  BY <1>2 DEF D
<1>4. ASSUME NEW y \in S PROVE y <= x
  <2>1. n - y \in D /\ x \in 1 .. n /\ y \in 1 .. n
    BY DEF D
  <2> QED
    BY <1>2, <1>3, <2>1
<1> QED
  BY <1>4 DEF IsLast

\* What is heard when x is added to the messages.
LEMMA HeardAppend ==
  ASSUME NEW ms \in Seq(Messages), NEW x \in Messages, NEW w, NEW l, NEW m
  PROVE  /\ Reaches(x, l, m) => Heard(Append(ms, x), w, l, m) = StoredView(x)
         /\ ~Reaches(x, l, m) => Heard(Append(ms, x), w, l, m) = Heard(ms, w, l, m)
<1> DEFINE n == Len(ms)
           ns == Append(ms, x)
           S == For(ms, l, m)
           U == For(ns, l, m)
<1>1. /\ n \in Nat /\ DOMAIN ms = 1 .. n /\ DOMAIN ns = 1 .. (n + 1)
      /\ ns[n + 1] = x /\ \A k \in 1 .. n : ns[k] = ms[k]
  OBVIOUS
<1> HIDE DEF ns
<1> SUFFICES /\ Reaches(x, l, m) => Heard(ns, w, l, m) = StoredView(x)
             /\ ~Reaches(x, l, m) => Heard(ns, w, l, m) = Heard(ms, w, l, m)
  BY DEF ns
<1>2. S \in SUBSET (1 .. n)
  BY <1>1 DEF For
<1>3. CASE Reaches(x, l, m)
  <2>1. n + 1 \in U /\ U \in SUBSET (1 .. (n + 1))
    BY <1>1, <1>3 DEF For
  <2> HIDE DEF U
  <2>2. IsLast(n + 1, U)
    BY <1>1, <2>1 DEF IsLast
  <2>3. \A k : IsLast(k, U) => k = n + 1
    <3> SUFFICES ASSUME NEW k, IsLast(k, U) PROVE k = n + 1
      OBVIOUS
    <3>1. k \in 1 .. (n + 1) /\ n + 1 <= k
      BY <2>1 DEF IsLast
    <3> QED
      BY <1>1, <3>1
  <2>4. LastOf(U) = n + 1
    BY Zenon, <2>2, <2>3 DEF LastOf
  <2> QED
    BY <1>1, <1>3, <2>1, <2>4 DEF Heard, U
<1>4. CASE ~Reaches(x, l, m)
  <2>1. U = S
    <3>1. ASSUME NEW k \in 1 .. (n + 1) PROVE k = n + 1 \/ k \in 1 .. n
      BY <1>1
    <3> QED
      BY <1>1, <1>4, <3>1 DEF For
  <2>2. CASE S = {}
    BY <1>4, <2>1, <2>2 DEF Heard
  <2>3. CASE S # {}
    <3>1. IsLast(LastOf(S), S)
      BY Zenon, <1>1, <1>2, <2>3, LastExists DEF LastOf
    <3>2. ns[LastOf(S)] = ms[LastOf(S)]
      BY <1>1, <1>2, <3>1 DEF IsLast
    <3> QED
      BY <1>4, <2>1, <2>3, <3>2 DEF Heard
  <2> QED
    BY <2>2, <2>3
<1> QED
  BY <1>3, <1>4

LEMMA SaysSteps ==
  ASSUME NEW e, NEW f, NEW l, NEW s
  PROVE  /\ FaithfulAt(e, e, l)
         /\ \A g : FaithfulAt(f, e, l) /\ Says(g, f, l, s) => Says(g, e, l, s)
         /\ \A g : f.out = g.out /\ Says(g, e, l, s) => Says(f, e, l, s)
BY DEF FaithfulAt, Says

LEMMA FaithfulTransitive ==
  ASSUME NEW e, NEW f, NEW g, Faithful(f, e), Faithful(g, f)
  PROVE  Faithful(g, e)
BY DEF Faithful, FaithfulAt, Says

LEMMA FaithfulButTransitive ==
  ASSUME NEW e, NEW f, NEW g, NEW i, FaithfulBut(f, e, i), FaithfulBut(g, f, i)
  PROVE  FaithfulBut(g, e, i)
BY DEF FaithfulBut, FaithfulAt, Says

LEMMA FaithfulExtends ==
  ASSUME NEW e, NEW f, NEW i
  PROVE  /\ Faithful(f, e) => FaithfulBut(f, e, i)
         /\ FaithfulBut(f, e, i) /\ Says(f, e, i, Stated(f, i)) => Faithful(f, e)
         /\ Faithful(e, e)
BY DEF Faithful, FaithfulBut, FaithfulAt, Says

\* Nothing is sent, and nothing else is stated.
LEMMA SilentIsFaithful ==
  ASSUME NEW e, NEW f, f.out = e.out, f.ifs = e.ifs
  PROVE  Faithful(f, e)
BY DEF Faithful, FaithfulAt, Says, Stated

LEMMA SilentBut ==
  ASSUME NEW e, NEW f, NEW i, f.out = e.out, \A l \in Links : l # i => f.ifs[l] = e.ifs[l]
  PROVE  /\ FaithfulBut(f, e, i)
         /\ Says(f, e, i, Stated(e, i))
BY DEF FaithfulBut, FaithfulAt, Says, Stated

\* What a message sent on link i says, to those who agreed with e before.
LEMMA SendSays ==
  ASSUME NEW f \in Entry, NEW i \in Links, NEW k \in MessageKinds, NEW g, g = Send(f, i, k), NEW e
  PROVE  /\ \A s : \A l \in Links : l # i /\ Says(f, e, l, s) => Says(g, e, l, s)
         /\ k = "IamUpstream" => Says(g, e, i, Upstream(f.ifs[i].rpc))
         /\ k = "IamNoLongerUpstream" => Says(g, e, i, NoInfo)
         /\ k \in {"Interest", "NoInterest"} /\ Says(f, e, i, NoInfo) => Says(g, e, i, NoInfo)
<1> DEFINE x == [kind |-> k, link |-> i,
      to |-> IF k \in {"Interest", "NoInterest"} THEN f.ups[i].ip ELSE None,
      metric |-> IF k = "IamUpstream" THEN f.ifs[i].rpc ELSE 0]
<1>1. f.ups[i].ip \in Routers \cup {None} /\ f.ifs[i].rpc \in Nat
  <2>1. f.ups[i] \in AssertMetrics /\ f.ifs[i] \in Interface
    BY EntryTypes
  <2> QED
    BY <2>1 DEF AssertMetrics, NoUpstream, Interface
<1>2. x \in Messages
  <2>1. CASE k = "IamUpstream"
    BY <1>1, <2>1 DEF Messages
  <2>2. CASE k \in {"IamNoLongerUpstream", "Interest", "NoInterest"}
    BY <1>1, <2>2 DEF Messages
  <2> QED
    BY <2>1, <2>2 DEF MessageKinds
<1>3. g.out = Append(f.out, x) /\ f.out \in Seq(Messages)
  BY DEF Send, Entry
<1>4. /\ x.link = i /\ x.kind = k
      /\ k \in {"IamUpstream", "IamNoLongerUpstream"} => x.to = None
      /\ k = "IamUpstream" => x.metric = f.ifs[i].rpc
  OBVIOUS
<1> HIDE DEF x
<1>5. ASSUME NEW w, NEW l, NEW m
      PROVE  /\ Reaches(x, l, m) => Heard(g.out, w, l, m) = StoredView(x)
             /\ ~Reaches(x, l, m) => Heard(g.out, w, l, m) = Heard(f.out, w, l, m)
  <2> DEFINE o == f.out
  <2> HIDE DEF o
  <2>1. o \in Seq(Messages) /\ g.out = Append(o, x)
    BY <1>3 DEF o
  <2> QED
    BY <1>2, <2>1, HeardAppend DEF o
<1>6. \A s : \A l \in Links : l # i /\ Says(f, e, l, s) => Says(g, e, l, s)
  BY <1>4, <1>5 DEF Says, Reaches
<1>7. ASSUME k = "IamUpstream" PROVE Says(g, e, i, Upstream(f.ifs[i].rpc))
  <2>1. StoredView(x) = Upstream(f.ifs[i].rpc)
    BY <1>4, <1>7 DEF StoredView, Upstream
  <2> QED
    BY <1>4, <1>5, <1>7, <2>1 DEF Says, Agrees, Reaches
<1>8. ASSUME k = "IamNoLongerUpstream" PROVE Says(g, e, i, NoInfo)
  <2>1. StoredView(x) = NoInfo
    BY <1>4, <1>8 DEF StoredView
  <2> QED
    BY <1>4, <1>5, <1>8, <2>1 DEF Says, Agrees, Reaches
<1>9. ASSUME k \in {"Interest", "NoInterest"}, Says(f, e, i, NoInfo) PROVE Says(g, e, i, NoInfo)
  <2>1. StoredView(x).kind = k
    BY <1>4, <1>9 DEF StoredView
  <2>2. Agrees(StoredView(x), NoInfo)
    BY <1>9, <2>1 DEF Agrees, NoInfo
  <2> QED
    BY <1>4, <1>5, <1>9, <2>2 DEF Says
<1> QED
  BY <1>6, <1>7, <1>8, <1>9

-----------------------------------------------------------------------------
(* The multicast route, the interest of the router and the election *)

\* Only the root interface sends the interest of the router, and it states nothing.
LEMMA RootStates ==
  ASSUME NEW e \in Entry, Rooted(e), e.inbound # None
  PROVE  e.inbound \in Links /\ Stated(e, e.inbound) = NoInfo
<1>1. e.inbound \in Links
  BY EntryTypes
<1> QED
  BY <1>1 DEF Rooted, Stated

LEMMA KeepsRooted ==
  ASSUME NEW e, NEW f, Keeps(f, e), Rooted(e)
  PROVE  Rooted(f)
BY DEF Keeps, Rooted

LEMMA ChangeFaithful ==
  ASSUME NEW e \in Entry
  PROVE  Faithful(Change(e), e)
BY ChangeKeeps, SilentIsFaithful DEF KeepsInterfaces

\* A message about interest from an interface that states nothing.
LEMMA InterestFaithful ==
  ASSUME NEW e \in Entry, NEW i \in Links, Stated(e, i) = NoInfo,
         NEW k \in {"Interest", "NoInterest"}, NEW f, f = Send(e, i, k)
  PROVE  Faithful(f, e)
<1>1. k \in MessageKinds
  BY DEF MessageKinds
<1>2. f.ifs = e.ifs
  BY <1>1, SendKeeps DEF KeepsInterfaces
<1>3. \A l \in Links : Stated(f, l) = Stated(e, l)
  BY <1>2 DEF Stated
<1>4. \A l \in Links : FaithfulAt(e, e, l)
  BY SaysSteps
<1>5. \A l \in Links : Says(f, e, l, Stated(e, l))
  BY <1>1, <1>4, SendSays DEF FaithfulAt
<1> QED
  BY <1>3, <1>5 DEF Faithful, FaithfulAt

LEMMA EvaluateFaithful ==
  ASSUME NEW e \in Entry, Rooted(e)
  PROVE  Faithful(EvaluateInTree(e), e)
<1> DEFINE told == [e EXCEPT !.was_in_tree = IsInTree(e)]
           k == IF IsInTree(told) THEN "Interest" ELSE "NoInterest"
           f == EvaluateInTree(e)
<1>1. told \in Entry /\ told.out = e.out /\ told.ifs = e.ifs /\ told.inbound = e.inbound
  BY DEF Entry, IsInTree
<1>2. /\ f \in {e, told} \/ (e.inbound # None /\ f = Send(told, e.inbound, k))
      /\ k \in {"Interest", "NoInterest"}
  BY DEF EvaluateInTree, SendMyInterest
<1> HIDE DEF told, k, f
<1>3. Faithful(told, e) /\ Faithful(e, e)
  BY <1>1, SilentIsFaithful
<1>4. ASSUME e.inbound # None, f = Send(told, e.inbound, k) PROVE Faithful(f, told)
  <2>1. e.inbound \in Links /\ Stated(told, e.inbound) = NoInfo
    BY <1>1, <1>4, RootStates DEF Stated
  <2> QED
    BY <1>1, <1>2, <1>4, <2>1, InterestFaithful
<1>5. Faithful(f, e)
  BY <1>2, <1>3, <1>4, FaithfulTransitive
<1> QED
  BY <1>5 DEF f

LEMMA ChangeAndEvaluateFaithful ==
  ASSUME NEW e \in Entry, Rooted(e)
  PROVE  Faithful(EvaluateInTree(Change(e)), e)
<1> DEFINE c == Change(e)
<1>1. c \in Entry /\ Keeps(c, e) /\ Faithful(c, e)
  BY ChangeKeeps, ChangeFaithful DEF KeepsInterfaces, KeepsTree, Keeps
<1> HIDE DEF c
<1>2. Faithful(EvaluateInTree(c), c)
  BY <1>1, KeepsRooted, EvaluateFaithful
<1> QED
  BY <1>1, <1>2, FaithfulTransitive DEF c

\* Only who wins and whether it holds its forwarding state changes at i.
LEMMA SameAnnouncement ==
  ASSUME NEW e, NEW f, NEW i \in Links, f.out = e.out,
         \A l \in Links : l # i => f.ifs[l] = e.ifs[l],
         f.ifs[i].role = e.ifs[i].role, f.ifs[i].tree = e.ifs[i].tree, f.ifs[i].rpc = e.ifs[i].rpc
  PROVE  Faithful(f, e)
BY DEF Faithful, FaithfulAt, Says, Stated

LEMMA ElectedFaithful ==
  ASSUME NEW e \in Entry, NEW i \in Links
  PROVE  Faithful(ElectedInterface(e, i), e)
BY ElectedKeeps, SameAnnouncement DEF Others, KeepsBut, KeepsTree, Keeps

LEMMA CalculateFaithful ==
  ASSUME NEW e \in Entry, NEW i \in Links, Rooted(e)
  PROVE  Faithful(CalculateAssertWinner(e, i), e)
<1> DEFINE g == ElectedInterface(e, i)
           f == CalculateAssertWinner(e, i)
<1>1. f = e \/ f = EvaluateInTree(Change(g))
  BY DEF CalculateAssertWinner
<1>2. g \in Entry /\ Keeps(g, e) /\ Faithful(g, e)
  BY ElectedKeeps, ElectedFaithful DEF KeepsBut, KeepsTree
<1> HIDE DEF g, f
<1>3. Faithful(EvaluateInTree(Change(g)), g)
  BY <1>2, KeepsRooted, ChangeAndEvaluateFaithful
<1>4. Faithful(f, e)
  BY <1>1, <1>2, <1>3, FaithfulTransitive, FaithfulExtends
<1> QED
  BY <1>4 DEF f

-----------------------------------------------------------------------------
(* The state of the tree *)

LEMMA RootTreeFaithful ==
  ASSUME NEW e \in Entry, NEW i \in Links, NEW t \in TreeStates, e.ifs[i].role = "Root"
  PROVE  Faithful(SetInterfaceTree(e, i, t), e)
<1> DEFINE f == SetInterfaceTree(e, i, t)
<1>1. KeepsBut(f, e, i) /\ f.out = e.out
  BY SetTreeKeeps
<1> HIDE DEF f
<1>2. FaithfulBut(f, e, i) /\ Says(f, e, i, Stated(e, i))
  BY <1>1, SilentBut DEF KeepsBut
<1>3. Stated(f, i) = NoInfo /\ Stated(e, i) = NoInfo
  BY <1>1 DEF Stated, KeepsBut, KeepsTree, Keeps
<1>4. Faithful(f, e)
  BY <1>2, <1>3, FaithfulExtends
<1> QED
  BY <1>4 DEF f

LEMMA InterfaceToActiveFaithful ==
  ASSUME NEW e \in Entry, NEW i \in Links, Present(e, i), Rooted(e)
  PROVE  Faithful(InterfaceToActive(e, i), e)
<1> DEFINE s == SetInterfaceTree(e, i, "Active")
           f == CalculateAssertWinner(s, i)
           g == Send(f, i, "IamUpstream")
<1> "Active" \in TreeStates /\ "IamUpstream" \in MessageKinds
  BY DEF TreeStates, MessageKinds
<1>1. CASE e.ifs[i].role = "Root"
  BY <1>1, RootTreeFaithful DEF InterfaceToActive
<1>2. CASE e.ifs[i].role # "Root" /\ (e.ifs[i].tree = "Active" \/ i \in SourceLinks)
  BY <1>2, FaithfulExtends DEF InterfaceToActive
<1>3. CASE e.ifs[i].role # "Root" /\ ~(e.ifs[i].tree = "Active" \/ i \in SourceLinks)
  <2>1. InterfaceToActive(e, i) = g
    BY <1>3 DEF InterfaceToActive
  <2>2. s \in Entry /\ KeepsBut(s, e, i) /\ s.ifs[i].tree = "Active" /\ s.out = e.out
    BY SetTreeKeeps
  <2> HIDE DEF s
  <2>3. FaithfulBut(s, e, i) /\ Rooted(s)
    BY <2>2, SilentBut, KeepsRooted DEF KeepsBut, KeepsTree
  <2>4. /\ f \in Entry /\ KeepsBut(f, s, i) /\ f.ifs[i].tree = "Active"
        /\ Faithful(f, s)
    BY <2>2, <2>3, CalculateKeeps, CalculateFaithful DEF ElectionOf
  <2> HIDE DEF f
  <2>5. FaithfulBut(f, e, i)
    BY <2>3, <2>4, FaithfulExtends, FaithfulButTransitive
  <2>6. g.ifs = f.ifs
    BY <2>4, SendKeeps DEF KeepsInterfaces
  <2>7. /\ \A v : \A l \in Links : l # i /\ Says(f, e, l, v) => Says(g, e, l, v)
        /\ Says(g, e, i, Upstream(f.ifs[i].rpc))
    BY <2>4, SendSays
  <2> HIDE DEF g
  <2>8. FaithfulBut(g, e, i)
    BY <2>5, <2>6, <2>7 DEF FaithfulBut, FaithfulAt, Stated
  <2>9. Stated(g, i) = Upstream(f.ifs[i].rpc)
    <3>1. e.ifs[i].role = "NonRoot"
      BY <1>3, EntryTypes DEF Present, Interface
    <3> QED
      BY <1>3, <2>2, <2>4, <2>6, <3>1 DEF Stated, KeepsBut, KeepsTree, Keeps
  <2>10. Faithful(g, e)
    BY <2>7, <2>8, <2>9, FaithfulExtends
  <2> QED
    BY <2>1, <2>10
<1> QED
  BY <1>1, <1>2, <1>3

\* The messages before an interface leaves its state, then the new state and
\* the election.
LEMMA LeavingFaithful ==
  ASSUME NEW e \in Entry, NEW i \in Links, Rooted(e), NEW t \in {"Unsure", "Inactive"},
         NEW b \in Entry, KeepsInterfaces(b, e), FaithfulBut(b, e, i), Says(b, e, i, NoInfo)
  PROVE  Faithful(CalculateAssertWinner(SetInterfaceTree(b, i, t), i), e)
<1> DEFINE s == SetInterfaceTree(b, i, t)
           f == CalculateAssertWinner(s, i)
<1>1. s \in Entry /\ KeepsBut(s, b, i) /\ s.ifs[i].tree = t /\ s.out = b.out
  BY SetTreeKeeps DEF TreeStates
<1> HIDE DEF s
<1>2. Rooted(s)
  BY <1>1, KeepsRooted DEF KeepsBut, KeepsTree, KeepsInterfaces
<1>3. FaithfulBut(s, e, i)
  BY <1>1, SilentBut, FaithfulButTransitive DEF KeepsBut
<1>4. Stated(s, i) = NoInfo /\ Says(s, e, i, NoInfo)
  BY <1>1, SaysSteps DEF Stated
<1>5. Faithful(s, e)
  BY <1>3, <1>4, FaithfulExtends
<1>6. Faithful(f, s)
  BY <1>1, <1>2, CalculateFaithful
<1> HIDE DEF f
<1>7. Faithful(f, e)
  BY <1>5, <1>6, FaithfulTransitive
<1> QED
  BY <1>7 DEF f, s

LEMMA DenySays ==
  ASSUME NEW e \in Entry, NEW i \in Links, NEW b,
         b = (IF e.ifs[i].tree = "Active" THEN Send(e, i, "IamNoLongerUpstream") ELSE e)
  PROVE  /\ b \in Entry /\ KeepsInterfaces(b, e)
         /\ FaithfulBut(b, e, i) /\ Says(b, e, i, NoInfo)
<1>1. "IamNoLongerUpstream" \in MessageKinds
  BY DEF MessageKinds
<1>2. CASE e.ifs[i].tree = "Active"
  <2>1. KeepsInterfaces(b, e)
    BY <1>1, <1>2, SendKeeps
  <2>2. /\ \A v : \A l \in Links : l # i /\ Says(e, e, l, v) => Says(b, e, l, v)
        /\ Says(b, e, i, NoInfo)
    BY <1>1, <1>2, SendSays
  <2>3. FaithfulBut(b, e, i)
    BY <2>1, <2>2, SaysSteps DEF FaithfulBut, FaithfulAt, Stated, KeepsInterfaces
  <2> QED
    BY <2>1, <2>2, <2>3 DEF KeepsInterfaces, KeepsTree, Keeps
<1>3. CASE e.ifs[i].tree # "Active"
  <2>1. Stated(e, i) = NoInfo
    BY <1>3 DEF Stated
  <2> QED
    BY <1>3, <2>1, KeepsItself, FaithfulExtends, SaysSteps DEF FaithfulAt
<1> QED
  BY <1>2, <1>3

LEMMA SendBeforeUnsureSays ==
  ASSUME NEW e \in Entry, NEW i \in Links, NEW b, b = SendBeforeUnsure(e, i)
  PROVE  /\ b \in Entry /\ KeepsInterfaces(b, e)
         /\ FaithfulBut(b, e, i) /\ Says(b, e, i, NoInfo)
<1> DEFINE left == IF e.ifs[i].tree = "Active" THEN Send(e, i, "IamNoLongerUpstream") ELSE e
           n == Send(left, i, "NoInterest")
<1>1. b = left \/ b = n
  BY DEF SendBeforeUnsure
<1>2. /\ left \in Entry /\ KeepsInterfaces(left, e)
      /\ FaithfulBut(left, e, i) /\ Says(left, e, i, NoInfo)
  BY DenySays
<1> HIDE DEF left
<1>3. "NoInterest" \in MessageKinds
  BY DEF MessageKinds
<1>4. KeepsInterfaces(n, left)
  BY <1>2, <1>3, SendKeeps
<1>5. /\ \A v : \A l \in Links : l # i /\ Says(left, e, l, v) => Says(n, e, l, v)
      /\ Says(n, e, i, NoInfo)
  BY <1>2, <1>3, SendSays
<1> HIDE DEF n
<1>6. FaithfulBut(n, e, i)
  BY <1>2, <1>4, <1>5 DEF FaithfulBut, FaithfulAt, Stated, KeepsInterfaces
<1>7. n \in Entry /\ KeepsInterfaces(n, e)
  BY <1>2, <1>4, KeepsTransitive DEF KeepsInterfaces, KeepsTree, Keeps
<1> QED
  BY <1>1, <1>2, <1>5, <1>6, <1>7

LEMMA InterfaceToFaithful ==
  ASSUME NEW e \in Entry, NEW i \in Links, NEW t \in TreeStates, Present(e, i), Rooted(e)
  PROVE  Faithful(InterfaceTo(e, i, t), e)
<1>1. CASE t = "Active"
  BY <1>1, InterfaceToActiveFaithful DEF InterfaceTo
<1>2. CASE t \in {"Unsure", "Inactive"} /\ e.ifs[i].role = "Root"
  BY <1>2, RootTreeFaithful DEF InterfaceTo, InterfaceToUnsure, InterfaceToInactive
<1>3. CASE t = "Unsure" /\ e.ifs[i].role # "Root"
  <2> DEFINE b == SendBeforeUnsure(e, i)
             f == CalculateAssertWinner(SetInterfaceTree(b, i, "Unsure"), i)
  <2>1. InterfaceTo(e, i, t) = IF e.ifs[i].tree = "Unsure" THEN e ELSE f
    BY <1>3 DEF InterfaceTo, InterfaceToUnsure
  <2>2. /\ b \in Entry /\ KeepsInterfaces(b, e)
        /\ FaithfulBut(b, e, i) /\ Says(b, e, i, NoInfo)
    BY SendBeforeUnsureSays
  <2> HIDE DEF b
  <2>3. Faithful(f, e)
    BY <2>2, LeavingFaithful
  <2> QED
    BY <2>1, <2>3, FaithfulExtends
<1>4. CASE t = "Inactive" /\ e.ifs[i].role # "Root"
  <2> DEFINE b == SendBeforeInactive(e, i)
             f == CalculateAssertWinner(SetInterfaceTree(b, i, "Inactive"), i)
  <2>1. InterfaceTo(e, i, t) = IF e.ifs[i].tree = "Inactive" THEN e ELSE f
    BY <1>4 DEF InterfaceTo, InterfaceToInactive
  <2>2. /\ b \in Entry /\ KeepsInterfaces(b, e)
        /\ FaithfulBut(b, e, i) /\ Says(b, e, i, NoInfo)
    BY DenySays DEF SendBeforeInactive
  <2> HIDE DEF b
  <2>3. Faithful(f, e)
    BY <2>2, LeavingFaithful
  <2> QED
    BY <2>1, <2>3, FaithfulExtends
<1> QED
  BY <1>1, <1>2, <1>3, <1>4 DEF TreeStates

LEMMA LoopToStateFaithful ==
  ASSUME NEW e \in Entry, NEW t \in TreeStates, Rooted(e)
  PROVE  LET f == ForEachInterface(e, LAMBDA g, i : InterfaceTo(g, i, t))
         IN  f \in Entry /\ Rooted(f) /\ Faithful(f, e)
<1> DEFINE vs == Vifs[e.router]
           N == Len(vs)
           S == {f \in Entry : Rooted(f) /\ Faithful(f, e)}
           T == [k \in 0 .. N |-> S]
           r == ForEachInterface(e, LAMBDA f, i : InterfaceTo(f, i, t))
<1>1. N \in Nat /\ \A k \in 1 .. N : vs[k] \in Links
  <2>1. e.router \in Routers
    BY EntryTypes
  <2>2. vs \in Seq(Links)
    BY <2>1, TopologyAssumption
  <2> QED
    BY <2>2
<1>2. e \in S
  BY FaithfulExtends
<1>3. ASSUME NEW f \in S, NEW i \in Links, Present(f, i), NEW g, g = InterfaceTo(f, i, t) PROVE g \in S
  <2>1. f \in Entry /\ Rooted(f) /\ Faithful(f, e)
    OBVIOUS
  <2>2. Entered(g, f, i, t) /\ Faithful(g, f)
    BY <1>3, <2>1, InterfaceToKeeps, InterfaceToFaithful
  <2>3. g \in Entry /\ Rooted(g)
    BY <2>1, <2>2, KeepsRooted DEF Entered, KeepsBut, KeepsTree
  <2>4. Faithful(g, e)
    BY <2>1, <2>2, FaithfulTransitive
  <2> QED
    BY <2>3, <2>4
<1> HIDE DEF vs, N, S
<1>4. T \in [0 .. N -> SUBSET Entry]
  BY DEF S
<1>5. e \in T[0]
  BY <1>1, <1>2
<1>6. ASSUME NEW k \in 1 .. N, NEW f \in T[k - 1]
      PROVE  (IF Present(f, vs[k]) THEN InterfaceTo(f, vs[k], t) ELSE f) \in T[k]
  BY <1>1, <1>3
<1>7. T[N] = S
  BY <1>1
<1>8. r \in T[N]
  <2> HIDE DEF T
  <2> QED
    BY <1>4, <1>5, <1>6, ForEachToState DEF vs, N
<1> QED
  BY <1>7, <1>8 DEF S

\* An entry with its shape, that told everybody what changed since e.
Tells(f, e) == f \in Entry /\ Rooted(f) /\ Faithful(f, e)

LEMMA TellsTransitive ==
  ASSUME NEW e, NEW f, NEW g, Tells(g, f)
  PROVE  /\ Tells(f, e) => Tells(g, e)
         /\ Faithful(f, e) => Tells(g, e)
         /\ \A i : FaithfulBut(f, e, i) => FaithfulBut(g, e, i)
<1>1. ASSUME Faithful(f, e) PROVE Tells(g, e)
  BY <1>1, FaithfulTransitive DEF Tells
<1>2. ASSUME NEW i, FaithfulBut(f, e, i) PROVE FaithfulBut(g, e, i)
  BY <1>2, FaithfulExtends, FaithfulButTransitive DEF Tells
<1> QED
  BY <1>1, <1>2 DEF Tells

LEMMA TellsItself ==
  ASSUME NEW e \in Entry, Rooted(e)
  PROVE  Tells(e, e)
BY FaithfulExtends DEF Tells

LEMMA SilentTells ==
  ASSUME NEW e, Rooted(e), NEW f \in Entry, f.out = e.out, f.ifs = e.ifs, f.inbound = e.inbound
  PROVE  Tells(f, e)
BY SilentIsFaithful DEF Tells, Rooted

LEMMA ChangeTells ==
  ASSUME NEW e \in Entry, Rooted(e)
  PROVE  Tells(Change(e), e) /\ Tells(EvaluateInTree(e), e) /\ Tells(EvaluateInTree(Change(e)), e)
<1>1. KeepsInterfaces(Change(e), e) /\ KeepsInterfaces(EvaluateInTree(e), e)
      /\ KeepsInterfaces(EvaluateInTree(Change(e)), e)
  BY ChangeKeeps, EvaluateKeeps, ChangeAndEvaluate
<1>2. Faithful(Change(e), e) /\ Faithful(EvaluateInTree(e), e) /\ Faithful(EvaluateInTree(Change(e)), e)
  BY ChangeFaithful, EvaluateFaithful, ChangeAndEvaluateFaithful
<1>3. \A f : KeepsInterfaces(f, e) => f \in Entry /\ Rooted(f)
  BY DEF KeepsInterfaces, KeepsTree, Keeps, Rooted
<1> QED
  BY <1>1, <1>2, <1>3 DEF Tells

LEMMA CalculateTells ==
  ASSUME NEW e \in Entry, NEW i \in Links, Rooted(e)
  PROVE  Tells(CalculateAssertWinner(e, i), e)
BY CalculateFaithful, CalculateKeeps, KeepsRooted DEF Tells, ElectionOf, KeepsBut, KeepsTree

LEMMA TransitionTells ==
  ASSUME NEW e \in Entry, NEW t \in TreeStates, Rooted(e)
  PROVE  Tells(Transition(e, t), e)
<1> DEFINE s == [e EXCEPT !.tree = t]
           r == ForEachInterface(s, LAMBDA f, i : InterfaceTo(f, i, t))
           q == [r EXCEPT !.removals = @ + 1]
           f == Transition(e, t)
<1>1. f \in {e, q, EvaluateInTree(Change(r))}
  BY DEF Transition
<1>2. s \in Entry /\ s.out = e.out /\ s.ifs = e.ifs /\ s.inbound = e.inbound
  BY DEF Entry
<1> HIDE DEF f, s
<1>3. Tells(s, e)
  BY <1>2, SilentTells
<1>4. Tells(r, s)
  BY <1>2, <1>3, LoopToStateFaithful DEF Tells
<1> HIDE DEF r
<1>5. Tells(q, r)
  <2>1. r \in Entry /\ Rooted(r)
    BY <1>4 DEF Tells
  <2>2. r.removals \in Nat
    BY <2>1, EntryTypes
  <2>3. r.removals + 1 \in Nat
    BY <2>2
  <2> DEFINE x == r.removals + 1
  <2> HIDE DEF x
  <2>4. [r EXCEPT !.removals = x] \in Entry
    BY <2>1, <2>3 DEF Entry, x
  <2>5. q \in Entry /\ q.out = r.out /\ q.ifs = r.ifs /\ q.inbound = r.inbound
    BY <2>1, <2>4 DEF Entry, x
  <2> QED
    BY <2>1, <2>5, SilentTells
<1>6. Tells(EvaluateInTree(Change(r)), r)
  BY <1>4, ChangeTells DEF Tells
<1> HIDE DEF q
<1>7. Tells(f, e)
  BY <1>1, <1>3, <1>4, <1>5, <1>6, TellsTransitive, TellsItself
<1> QED
  BY <1>7 DEF f

LEMMA CheckTells ==
  ASSUME NEW e \in Entry, Rooted(e)
  PROVE  Tells(CheckTreeState(e), e)
<1>1. NewState(e) \in TreeStates
  BY DEF NewState, OriginatorTreeState, NonOriginatorTreeState, TreeStates
<1>2. CheckTreeState(e) = Transition(e, NewState(e))
  BY DEF CheckTreeState, NewState
<1> QED
  BY <1>1, <1>2, TransitionTells

LEMMA SourceTells ==
  ASSUME NEW e \in Entry, Rooted(e), NEW b \in BOOLEAN
  PROVE  Tells(SourceActive(e, b), e)
<1> DEFINE s == [e EXCEPT !.sat = b]
<1>1. s \in Entry /\ s.out = e.out /\ s.ifs = e.ifs /\ s.inbound = e.inbound
  BY DEF Entry
<1>2. SourceActive(e, b) = CheckTreeState(s)
  BY DEF SourceActive
<1> HIDE DEF s
<1>3. Tells(s, e)
  BY <1>1, SilentTells
<1> QED
  BY <1>1, <1>2, <1>3, CheckTells, TellsTransitive DEF Tells

LEMMA HoldTimeoutTells ==
  ASSUME NEW e \in Entry, Rooted(e), NEW i \in Links
  PROVE  Tells(HoldForwardingTimeout(e, i), e)
<1> DEFINE s == [e EXCEPT !.ifs[i].hold = FALSE]
<1>1. s \in Entry /\ Others(s, e, i) /\ s.ifs[i] = [e.ifs[i] EXCEPT !.hold = FALSE]
  BY HoldChange
<1>2. HoldForwardingTimeout(e, i) = EvaluateInTree(Change(s))
  BY DEF HoldForwardingTimeout
<1> HIDE DEF s
<1>3. e.ifs[i] \in Interface
  BY EntryTypes
<1>4. s.ifs[i].role = e.ifs[i].role /\ s.ifs[i].tree = e.ifs[i].tree /\ s.ifs[i].rpc = e.ifs[i].rpc
  BY <1>1, <1>3 DEF Interface
<1>5. Faithful(s, e)
  BY <1>1, <1>4, SameAnnouncement DEF Others
<1>6. Rooted(s)
  <2>1. s.inbound = e.inbound /\ \A l \in Links : s.ifs[l].role = e.ifs[l].role
    BY <1>1, <1>4 DEF Others
  <2> QED
    BY <2>1 DEF Rooted
<1>7. Tells(s, e)
  BY <1>1, <1>5, <1>6 DEF Tells
<1> QED
  BY <1>1, <1>2, <1>6, <1>7, ChangeTells, TellsTransitive

-----------------------------------------------------------------------------
(* What the neighbors and the hosts of a link say *)

LEMMA BestUpstreamTells ==
  ASSUME NEW e \in Entry, Rooted(e), NEW i \in Links, NEW u \in AssertMetrics, NEW fresh
  PROVE  Tells(ChangeBestUpstream(e, i, u, fresh), e)
<1> DEFINE known == [e EXCEPT !.ups[i] = u]
           k == IF IsInTree(known) THEN "Interest" ELSE "NoInterest"
           a == Send(known, i, k)
           elected == CalculateAssertWinner(known, i)
           b == Send(elected, i, "NoInterest")
           f == ChangeBestUpstream(e, i, u, fresh)
<1>1. /\ e.ifs[i].role = "Root" => f \in {known, a}
      /\ e.ifs[i].role # "Root" => f = elected \/ (e.ifs[i].tree = "Unsure" /\ f = b)
  BY DEF ChangeBestUpstream, SendMyInterest
<1>2. known \in Entry /\ known.out = e.out /\ known.ifs = e.ifs /\ known.inbound = e.inbound
  BY DEF Entry
<1>3. k \in {"Interest", "NoInterest"}
  OBVIOUS
<1> HIDE DEF known, k, f
<1>4. Tells(known, e)
  BY <1>2, SilentTells
<1>5. ASSUME NEW g \in Entry, NEW x \in {"Interest", "NoInterest"}, Rooted(g), Stated(g, i) = NoInfo
      PROVE  Tells(Send(g, i, x), g)
  <2> DEFINE h == Send(g, i, x)
  <2>1. x \in MessageKinds
    BY DEF MessageKinds
  <2>2. KeepsInterfaces(h, g) /\ Faithful(h, g)
    BY <1>5, <2>1, SendKeeps, InterestFaithful
  <2> HIDE DEF h
  <2>3. Tells(h, g)
    BY <1>5, <2>2, KeepsRooted DEF Tells, KeepsInterfaces, KeepsTree, Keeps
  <2> QED
    BY <2>3 DEF h
<1>6. CASE e.ifs[i].role = "Root"
  <2>1. Stated(known, i) = NoInfo
    BY <1>2, <1>6 DEF Stated
  <2>2. Tells(a, known)
    BY <1>2, <1>3, <1>4, <1>5, <2>1 DEF Tells
  <2> HIDE DEF a
  <2>3. Tells(f, e)
    BY <1>1, <1>4, <1>6, <2>2, TellsTransitive
  <2> QED
    BY <2>3 DEF f
<1>7. CASE e.ifs[i].role # "Root"
  <2>1. /\ Tells(elected, known) /\ elected.ifs[i].tree = e.ifs[i].tree
    BY <1>2, <1>4, CalculateTells, CalculateKeeps DEF Tells
  <2> HIDE DEF elected
  <2>2. ASSUME e.ifs[i].tree = "Unsure" PROVE Tells(b, elected)
    <3>1. Stated(elected, i) = NoInfo
      BY <2>1, <2>2 DEF Stated
    <3> QED
      BY <1>5, <2>1, <3>1 DEF Tells
  <2> HIDE DEF b
  <2>3. Tells(f, e)
    BY <1>1, <1>4, <1>7, <2>1, <2>2, TellsTransitive
  <2> QED
    BY <2>3 DEF f
<1> QED
  BY <1>6, <1>7

LEMMA InterestTells ==
  ASSUME NEW e \in Entry, Rooted(e), NEW i \in Links, NEW b \in BOOLEAN
  PROVE  Tells(CheckInterestState(e, i, b), e)
<1> DEFINE known == [e EXCEPT !.int[i] = b]
           f == CheckInterestState(e, i, b)
<1>1. f \in {e, known, EvaluateInTree(Change(known))}
  BY DEF CheckInterestState
<1>2. known \in Entry /\ known.out = e.out /\ known.ifs = e.ifs /\ known.inbound = e.inbound
  BY DEF Entry
<1> HIDE DEF known, f
<1>3. Tells(known, e)
  BY <1>2, SilentTells
<1>4. Tells(EvaluateInTree(Change(known)), known)
  BY <1>3, ChangeTells DEF Tells
<1>5. Tells(f, e)
  BY <1>1, <1>3, <1>4, TellsTransitive, TellsItself
<1> QED
  BY <1>5 DEF f

LEMMA NeighborTells ==
  ASSUME NEW e \in Entry, Rooted(e), NEW i \in Links, NEW u \in AssertMetrics, NEW b \in BOOLEAN,
         NEW fresh
  PROVE  Tells(CheckInterfaceState(e, i, u, b, fresh), e)
<1> DEFINE c == ChangeBestUpstream(e, i, u, fresh)
           d == CheckInterestState(c, i, b)
           f == CheckInterfaceState(e, i, u, b, fresh)
<1>1. f \in {e, CheckTreeState(d)}
  BY DEF CheckInterfaceState
<1>2. Tells(c, e)
  BY BestUpstreamTells
<1> HIDE DEF c, f
<1>3. Tells(d, c)
  BY <1>2, InterestTells DEF Tells
<1> HIDE DEF d
<1>4. Tells(CheckTreeState(d), d)
  BY <1>3, CheckTells DEF Tells
<1>5. Tells(f, e)
  BY <1>1, <1>2, <1>3, <1>4, TellsTransitive, TellsItself
<1> QED
  BY <1>5 DEF f

LEMMA MembershipTells ==
  ASSUME NEW e \in Entry, Rooted(e), NEW i \in Links, NEW b \in BOOLEAN
  PROVE  Tells(NotifyMembership(e, i, b), e)
<1> DEFINE known == [e EXCEPT !.local = IF b THEN @ \cup {i} ELSE @ \ {i}]
           f == NotifyMembership(e, i, b)
<1>1. f \in {e, EvaluateInTree(Change(known))}
  BY DEF NotifyMembership
<1>2. known \in Entry /\ known.out = e.out /\ known.ifs = e.ifs /\ known.inbound = e.inbound
  BY DEF Entry
<1> HIDE DEF known, f
<1>3. Tells(known, e)
  BY <1>2, SilentTells
<1>4. Tells(EvaluateInTree(Change(known)), known)
  BY <1>3, ChangeTells DEF Tells
<1>5. Tells(f, e)
  BY <1>1, <1>3, <1>4, TellsTransitive, TellsItself
<1> QED
  BY <1>5 DEF f

-----------------------------------------------------------------------------
(* Interfaces that are created or change roles *)

\* A message sent on link i, when everybody knows what changed elsewhere.
LEMMA SentAt ==
  ASSUME NEW e, NEW f \in Entry, NEW i \in Links, FaithfulBut(f, e, i),
         NEW k \in MessageKinds, NEW g, g = Send(f, i, k)
  PROVE  /\ g \in Entry /\ KeepsInterfaces(g, f) /\ FaithfulBut(g, e, i)
         /\ k = "IamUpstream" => Says(g, e, i, Upstream(f.ifs[i].rpc))
         /\ k = "IamNoLongerUpstream" => Says(g, e, i, NoInfo)
         /\ k \in {"Interest", "NoInterest"} /\ Says(f, e, i, NoInfo) => Says(g, e, i, NoInfo)
<1>1. KeepsInterfaces(g, f)
  BY SendKeeps
<1>2. \A s : \A l \in Links : l # i /\ Says(f, e, l, s) => Says(g, e, l, s)
  BY SendSays
<1>3. \A l \in Links : Stated(g, l) = Stated(f, l)
  BY <1>1 DEF KeepsInterfaces, Stated
<1>4. FaithfulBut(g, e, i)
  BY <1>2, <1>3 DEF FaithfulBut, FaithfulAt
<1>5. g \in Entry
  BY <1>1 DEF KeepsInterfaces, KeepsTree, Keeps
<1> QED
  BY <1>1, <1>4, <1>5, SendSays

LEMMA InterfaceToRpcTells ==
  ASSUME NEW e \in Entry, Rooted(e), NEW i \in Links, NEW rpc \in Nat
  PROVE  Tells(InterfaceToRpc(e, i, rpc), e)
<1> DEFINE known == [e EXCEPT !.ifs[i].rpc = rpc]
           sent == Send(known, i, "IamUpstream")
           told == IF e.ifs[i].tree = "Active" /\ i \notin SourceLinks THEN sent ELSE known
           f == InterfaceToRpc(e, i, rpc)
<1> "IamUpstream" \in MessageKinds
  BY DEF MessageKinds
<1>1. f = e \/ (e.ifs[i].role = "NonRoot" /\ f = CalculateAssertWinner(told, i))
  BY DEF InterfaceToRpc
<1>2. /\ known \in Entry /\ Others(known, e, i)
      /\ known.ifs[i] = [e.ifs[i] EXCEPT !.rpc = rpc]
  BY RpcChange
<1>3. e.ifs[i] \in Interface
  BY EntryTypes
<1>4. /\ known.ifs[i].role = e.ifs[i].role /\ known.ifs[i].tree = e.ifs[i].tree
      /\ known.ifs[i].rpc = rpc
  BY <1>2, <1>3 DEF Interface
<1> HIDE DEF known, f
<1>5. FaithfulBut(known, e, i) /\ Says(known, e, i, Stated(e, i))
  BY <1>2, SilentBut DEF Others
<1>6. Rooted(known)
  <2>1. known.inbound = e.inbound /\ \A l \in Links : known.ifs[l].role = e.ifs[l].role
    BY <1>2, <1>4 DEF Others
  <2> QED
    BY <2>1 DEF Rooted
<1>7. /\ sent \in Entry /\ KeepsInterfaces(sent, known) /\ FaithfulBut(sent, e, i)
      /\ Says(sent, e, i, Upstream(rpc))
  BY <1>2, <1>4, <1>5, SentAt
<1> HIDE DEF sent
<1>8. ASSUME e.ifs[i].role = "NonRoot" PROVE Tells(told, e)
  <2>1. CASE e.ifs[i].tree = "Active" /\ i \notin SourceLinks
    <3>1. Stated(sent, i) = Upstream(rpc)
      BY <1>4, <1>7, <1>8, <2>1 DEF Stated, KeepsInterfaces
    <3>2. Rooted(sent)
      BY <1>6, <1>7 DEF Rooted, KeepsInterfaces, KeepsTree, Keeps
    <3> QED
      BY <1>7, <2>1, <3>1, <3>2, FaithfulExtends DEF Tells
  <2>2. CASE ~(e.ifs[i].tree = "Active" /\ i \notin SourceLinks)
    <3>1. Stated(known, i) = Stated(e, i)
      BY <1>4, <2>2 DEF Stated
    <3> QED
      BY <1>2, <1>5, <1>6, <2>2, <3>1, FaithfulExtends DEF Tells
  <2> QED
    BY <2>1, <2>2
<1> HIDE DEF told
<1>9. ASSUME e.ifs[i].role = "NonRoot" PROVE Tells(CalculateAssertWinner(told, i), e)
  BY <1>8, <1>9, CalculateTells, TellsTransitive DEF Tells
<1>10. Tells(f, e)
  BY <1>1, <1>9, TellsItself
<1> QED
  BY <1>10 DEF f

LEMMA NotifyRpcTells ==
  ASSUME NEW e \in Entry, Rooted(e), NEW rpc \in Nat
  PROVE  Tells(NotifyRpcChange(e, rpc), e)
<1> DEFINE vs == Vifs[e.router]
           N == Len(vs)
           S == {f \in Entry : Tells(f, e)}
           T == [k \in 0 .. N |-> S]
           r == NotifyRpcChange(e, rpc)
<1>1. N \in Nat /\ \A k \in 1 .. N : vs[k] \in Links
  <2>1. e.router \in Routers
    BY EntryTypes
  <2>2. vs \in Seq(Links)
    BY <2>1, TopologyAssumption
  <2> QED
    BY <2>2
<1>2. e \in S
  BY TellsItself
<1>3. ASSUME NEW f \in S, NEW i \in Links, NEW g, g = InterfaceToRpc(f, i, rpc) PROVE g \in S
  <2>1. f \in Entry /\ Rooted(f) /\ Tells(f, e)
    BY DEF Tells
  <2>2. Tells(g, f)
    BY <1>3, <2>1, InterfaceToRpcTells
  <2>3. Tells(g, e) /\ g \in Entry
    BY <2>1, <2>2, TellsTransitive DEF Tells
  <2> QED
    BY <2>3
<1> HIDE DEF vs, N, S
<1>4. T \in [0 .. N -> SUBSET Entry]
  BY DEF S
<1>5. e \in T[0]
  BY <1>1, <1>2
<1>6. ASSUME NEW k \in 1 .. N, NEW f \in T[k - 1]
      PROVE  (IF Present(f, vs[k]) THEN InterfaceToRpc(f, vs[k], rpc) ELSE f) \in T[k]
  BY <1>1, <1>3
<1>7. T[N] = S
  BY <1>1
<1>8. r \in T[N]
  <2> HIDE DEF T
  <2> QED
    BY <1>4, <1>5, <1>6, ForEachToRpc DEF vs, N
<1> QED
  BY <1>7, <1>8 DEF S

\* A new NonRoot interface tells what it states; the new one of an Active tree
\* (event 9) does it only when it replaces a root interface.
LEMMA AddNonRootTells ==
  ASSUME NEW e \in Entry, NEW i \in Links, NEW rpc \in Nat,
         NEW previous \in TreeStates, NEW current \in TreeStates, NEW f,
         \/ f = Demoted(e, i, rpc, previous, current)
         \/ f = NewNonRoot(e, i, rpc, previous, current)
  PROVE  /\ FaithfulBut(f, e, i)
         /\ /\ Stated(e, i) = NoInfo \/ current = "Active"
            /\ \/ f = Demoted(e, i, rpc, previous, current)
               \/ previous # "Active" \/ current # "Active"
            => Faithful(f, e)
<1> DEFINE x == [role |-> "NonRoot", tree |-> current, winner |-> TRUE, hold |-> FALSE, rpc |-> rpc]
           b == [e EXCEPT !.ifs[i] = x]
           m == ElectedInterface(b, i)
           a == Send(m, i, "IamUpstream")
           l1 == Send(m, i, "IamNoLongerUpstream")
           n0 == Send(m, i, "NoInterest")
           n1 == Send(l1, i, "NoInterest")
<1> {"IamUpstream", "IamNoLongerUpstream", "NoInterest"} \subseteq MessageKinds
  BY DEF MessageKinds
<1>1. x \in Interface
  BY DEF Interface
<1>2. b \in Entry /\ Others(b, e, i) /\ b.ifs[i] = x
  BY <1>1, InterfaceChange
<1>3. x.role = "NonRoot" /\ x.tree = current /\ x.rpc = rpc
  OBVIOUS
<1>4. /\ f \in {a, m, l1, n0, n1}
      /\ /\ current = "Active" /\ i \notin SourceLinks
         /\ f = Demoted(e, i, rpc, previous, current) \/ previous # "Active"
         => f = a
      /\ current # "Active" \/ i \in SourceLinks => f \in {m, l1, n0, n1}
  BY DEF AddNonRoot, NewNonRoot, Demoted
<1> HIDE DEF x, b
<1>5. /\ m \in Entry /\ m.out = e.out /\ \A l \in Links : l # i => m.ifs[l] = e.ifs[l]
      /\ m.ifs[i].tree = current /\ m.ifs[i].rpc = rpc /\ m.ifs[i].role = "NonRoot"
  BY <1>2, <1>3, ElectedKeeps DEF Others, KeepsBut, KeepsTree, Keeps
<1> HIDE DEF m
<1>6. FaithfulBut(m, e, i) /\ Says(m, e, i, Stated(e, i))
  BY <1>5, SilentBut
<1>7. /\ a \in Entry /\ KeepsInterfaces(a, m) /\ FaithfulBut(a, e, i)
      /\ Says(a, e, i, Upstream(rpc))
  BY <1>5, <1>6, SentAt
<1>8. /\ l1 \in Entry /\ KeepsInterfaces(l1, m) /\ FaithfulBut(l1, e, i)
      /\ Says(l1, e, i, NoInfo)
  BY <1>5, <1>6, SentAt
<1>9. /\ n0 \in Entry /\ KeepsInterfaces(n0, m) /\ FaithfulBut(n0, e, i)
      /\ Says(m, e, i, NoInfo) => Says(n0, e, i, NoInfo)
  BY <1>5, <1>6, SentAt
<1> HIDE DEF a, l1, n0
<1>10. /\ n1 \in Entry /\ KeepsInterfaces(n1, l1) /\ FaithfulBut(n1, e, i)
       /\ Says(n1, e, i, NoInfo)
  BY <1>8, SentAt
<1> HIDE DEF n1
<1>11. FaithfulBut(f, e, i)
  BY <1>4, <1>6, <1>7, <1>8, <1>9, <1>10
<1>12. f.ifs = m.ifs
  BY <1>4, <1>7, <1>8, <1>9, <1>10 DEF KeepsInterfaces
<1>13. ASSUME f = a, current = "Active", i \notin SourceLinks PROVE Faithful(f, e)
  <2>1. Stated(f, i) = Upstream(rpc)
    BY <1>5, <1>12, <1>13 DEF Stated
  <2> QED
    BY <1>7, <1>11, <1>13, <2>1, FaithfulExtends
<1>14. ASSUME f \in {m, l1, n0, n1}, current # "Active" \/ i \in SourceLinks, Stated(e, i) = NoInfo
       PROVE  Faithful(f, e)
  <2>1. Stated(f, i) = NoInfo
    BY <1>5, <1>12, <1>14 DEF Stated
  <2>2. Says(f, e, i, NoInfo)
    BY <1>6, <1>8, <1>9, <1>10, <1>14
  <2> QED
    BY <1>11, <2>1, <2>2, FaithfulExtends
<1>15. i \in SourceLinks => Stated(e, i) = NoInfo
  BY DEF Stated
<1> QED
  BY <1>4, <1>11, <1>13, <1>14, <1>15

\* A new root interface states nothing: the NonRoot one it replaces said so.
LEMMA AddRootTells ==
  ASSUME NEW e \in Entry, NEW i \in Links,
         NEW previous \in TreeStates, NEW current \in TreeStates, NEW f,
         \/ f = NewRoot(e, i, previous, current) /\ Stated(e, i) = NoInfo
         \/ /\ f = Promoted(e, i, previous, current)
            /\ \/ Stated(e, i) = NoInfo
               \/ previous = "Active" /\ current # "Inactive"
  PROVE  Faithful(f, e)
<1> DEFINE l1 == Send(e, i, "IamNoLongerUpstream")
           s0 == SendMyInterest(e, i)
           s1 == SendMyInterest(l1, i)
<1> {"IamNoLongerUpstream", "Interest", "NoInterest"} \subseteq MessageKinds
  BY DEF MessageKinds
<1>1. PICK g \in {e, l1, s0, s1} :
        /\ f = [g EXCEPT !.ifs[i] = RootInterface(current)]
        /\ Stated(e, i) = NoInfo \/ g \in {l1, s1}
  BY DEF AddRoot, NewRoot, Promoted
<1>2. \A h \in Entry :
        SendMyInterest(h, i) \in {Send(h, i, "Interest"), Send(h, i, "NoInterest")}
  BY DEF SendMyInterest
<1>3. FaithfulBut(e, e, i) /\ Says(e, e, i, Stated(e, i))
  BY SilentBut
<1>4. /\ l1 \in Entry /\ KeepsInterfaces(l1, e) /\ FaithfulBut(l1, e, i)
      /\ Says(l1, e, i, NoInfo)
  BY <1>3, SentAt
<1> HIDE DEF l1
<1>5. /\ s0 \in Entry /\ KeepsInterfaces(s0, e) /\ FaithfulBut(s0, e, i)
      /\ Stated(e, i) = NoInfo => Says(s0, e, i, NoInfo)
  BY <1>2, <1>3, SentAt
<1>6. /\ s1 \in Entry /\ KeepsInterfaces(s1, l1) /\ FaithfulBut(s1, e, i)
      /\ Says(s1, e, i, NoInfo)
  BY <1>2, <1>4, SentAt
<1> HIDE DEF s0, s1
<1>7. g \in Entry /\ FaithfulBut(g, e, i) /\ Says(g, e, i, NoInfo)
  BY <1>1, <1>3, <1>4, <1>5, <1>6
<1>8. Rebuilt(f, g, i) /\ f.ifs[i].role = "Root"
  BY <1>1, <1>7, RootChange
<1>9. f.out = g.out
  BY <1>1, <1>7 DEF Entry
<1>10. FaithfulBut(f, e, i)
  <2>1. FaithfulBut(f, g, i)
    BY <1>8, <1>9, SilentBut DEF Rebuilt
  <2> QED
    BY <1>7, <2>1, FaithfulButTransitive
<1>11. Stated(f, i) = NoInfo /\ Says(f, e, i, NoInfo)
  BY <1>7, <1>8, <1>9, SaysSteps DEF Stated
<1> QED
  BY <1>10, <1>11, FaithfulExtends

\* An entry that is not Active states nothing.
LEMMA NothingStated ==
  ASSUME NEW e, Alike(e), e.tree # "Active"
  PROVE  \A l \in Links : Stated(e, l) = NoInfo
BY DEF Alike, AlikeAt, Unannounced, InState, Stated

LEMMA SetRpcTells ==
  ASSUME NEW e \in Entry, Rooted(e), NEW rpc \in Nat
  PROVE  Tells(SetRpc(e, rpc), e)
<1> DEFINE s == [e EXCEPT !.rpc = rpc]
           c == CheckTreeState(s)
<1>1. s \in Entry /\ s.out = e.out /\ s.ifs = e.ifs /\ s.inbound = e.inbound
  BY DEF Entry
<1>2. SetRpc(e, rpc) = NotifyRpcChange(c, rpc)
  BY DEF SetRpc
<1> HIDE DEF s
<1>3. Tells(s, e)
  BY <1>1, SilentTells
<1>4. Tells(c, s)
  BY <1>1, <1>3, CheckTells DEF Tells
<1> HIDE DEF c
<1>5. Tells(NotifyRpcChange(c, rpc), c)
  BY <1>4, NotifyRpcTells DEF Tells
<1> QED
  BY <1>2, <1>3, <1>4, <1>5, TellsTransitive

LEMMA ReplaceTells ==
  ASSUME NEW e \in Entry, Rooted(e), NEW i \in Links \cup {None}, NEW f, f = ReplaceInterface(e, i)
  PROVE  Tells(f, e) /\ \A l \in Links : Stated(f, l) = Stated(e, l)
<1>1. CASE i = None
  BY <1>1, TellsItself DEF ReplaceInterface
<1>2. CASE i # None
  <2>1. i \in Links /\ f = [e EXCEPT !.ifs[i].hold = FALSE]
    BY <1>2 DEF ReplaceInterface
  <2>2. f \in Entry /\ Others(f, e, i) /\ f.ifs[i] = [e.ifs[i] EXCEPT !.hold = FALSE]
    <3> DEFINE j == i
    <3>1. j \in Links /\ FALSE \in BOOLEAN
      BY <2>1
    <3> HIDE DEF j
    <3>2. LET g == [e EXCEPT !.ifs[j].hold = FALSE]
          IN  g \in Entry /\ Others(g, e, j) /\ g.ifs[j] = [e.ifs[j] EXCEPT !.hold = FALSE]
      BY <3>1, HoldChange
    <3> QED
      BY <2>1, <3>2 DEF j
  <2>3. e.ifs[i] \in Interface
    BY <2>1, EntryTypes
  <2>4. f.ifs[i].role = e.ifs[i].role /\ f.ifs[i].tree = e.ifs[i].tree /\ f.ifs[i].rpc = e.ifs[i].rpc
    BY <2>2, <2>3 DEF Interface
  <2>5. Faithful(f, e)
    BY <2>1, <2>2, <2>4, SameAnnouncement DEF Others
  <2>6. f.inbound = e.inbound /\ \A l \in Links : f.ifs[l].role = e.ifs[l].role
    BY <2>2, <2>4 DEF Others
  <2>7. Rooted(f)
    BY <2>6 DEF Rooted
  <2>8. ASSUME NEW l \in Links PROVE Stated(f, l) = Stated(e, l)
    <3>1. f.ifs[l].role = e.ifs[l].role /\ f.ifs[l].tree = e.ifs[l].tree /\ f.ifs[l].rpc = e.ifs[l].rpc
      BY <2>2, <2>4 DEF Others
    <3> QED
      BY <3>1 DEF Stated
  <2> QED
    BY <2>2, <2>5, <2>7, <2>8 DEF Tells
<1> QED
  BY <1>1, <1>2

\* The interface of the new route takes the place of the root interface.
LEMMA NonOriginatorMoveTells ==
  ASSUME NEW e, Whole(e), NEW rt, RouteFor(rt, e), rt.rif # e.inbound,
         ~e.originator, ~rt.direct
  PROVE  Tells(NonOriginatorUpdate(e, rt), e)
<1> DEFINE new == IF e.tree = "Inactive" THEN "Inactive"
                  ELSE IF FeasibleUpstream(UpstreamAt(e, rt.rif), rt.rpc)
                       THEN "Active" ELSE "Unsure"
           old == ReplaceInterface(e, rt.rif)
           d == IF e.inbound = None THEN old
                ELSE Demoted(old, e.inbound, rt.rpc, e.tree, new)
           r == IF rt.rif = None THEN d ELSE Promoted(d, rt.rif, e.tree, new)
           g == [r EXCEPT !.inbound = rt.rif]
           c == IF e.rpc # rt.rpc THEN SetRpc(g, rt.rpc) ELSE CheckTreeState(g)
           f == NonOriginatorUpdate(e, rt)
<1>1. /\ e \in Entry /\ Rooted(e) /\ AllElected(e) /\ Alike(e)
      /\ e.tree \in TreeStates /\ e.inbound \in Links \cup {None}
      /\ rt.rpc \in Nat /\ rt.rif \in Links \cup {None} /\ new \in TreeStates
  BY EntryTypes DEF Whole, Rooted, RouteFor, TreeStates
<1>2. f = EvaluateInTree(Change(c))
  BY <1>1 DEF NonOriginatorUpdate, Demoted, Promoted, TreeStates
<1>3. /\ Tells(old, e) /\ \A l \in Links : Stated(old, l) = Stated(e, l)
      /\ KeepsTree(old, e) /\ AllElected(old)
  BY <1>1, ReplaceTells, ReplaceKeeps
<1>4. e.tree = "Active" => new # "Inactive"
  OBVIOUS
<1> HIDE DEF old, new, f
<1>5. old \in Entry /\ Rooted(old) /\ old.inbound = e.inbound /\ old.tree = e.tree
  BY <1>3 DEF KeepsTree, Keeps, Tells
<1>6. GaveUpRoot(d, old, new) /\ d \in Entry /\ Faithful(d, old)
  <2>1. CASE e.inbound = None
    BY <1>5, <2>1, FaithfulExtends DEF GaveUpRoot
  <2>2. CASE e.inbound # None
    <3>1. e.inbound \in Links /\ Stated(old, e.inbound) = NoInfo
      BY <1>5, <2>2, RootStates
    <3>2. d = Demoted(old, e.inbound, rt.rpc, e.tree, new)
      BY <2>2
    <3> HIDE DEF d
    <3>3. Rebuilt(d, old, e.inbound) /\ Elected(d, e.inbound)
          /\ d.ifs[e.inbound].role = "NonRoot" /\ d.ifs[e.inbound].tree = new
      BY <1>1, <1>5, <3>1, <3>2, AddNonRootBuilds
    <3>4. Faithful(d, old)
      BY <1>1, <1>5, <3>1, <3>2, AddNonRootTells
    <3> QED
      BY <1>5, <2>2, <3>3, <3>4 DEF GaveUpRoot, Rebuilt
  <2> QED
    BY <2>1, <2>2
<1> HIDE DEF d
<1>7. TookRoot(r, d, rt.rif) /\ r \in Entry /\ Faithful(r, d)
  <2>1. CASE rt.rif = None
    BY <1>6, <2>1, FaithfulExtends DEF TookRoot
  <2>2. CASE rt.rif # None
    <3>1. rt.rif \in Links
      BY <1>1, <2>2
    <3>2. r = Promoted(d, rt.rif, e.tree, new)
      BY <2>2
    <3> HIDE DEF r
    <3>3. Rebuilt(r, d, rt.rif) /\ r.ifs[rt.rif].role = "Root"
      BY <1>1, <1>6, <3>1, <3>2, AddRootBuilds
    <3>4. d.ifs[rt.rif] = old.ifs[rt.rif]
      BY <1>5, <1>6, <3>1 DEF GaveUpRoot, Rebuilt
    <3>5. Stated(d, rt.rif) = Stated(e, rt.rif)
      BY <1>3, <3>1, <3>4 DEF Stated
    <3>6. e.tree # "Active" => Stated(d, rt.rif) = NoInfo
      BY <1>1, <3>1, <3>5, NothingStated
    <3>7. Faithful(r, d)
      BY <1>1, <1>4, <1>6, <3>1, <3>2, <3>6, AddRootTells
    <3> QED
      BY <2>2, <3>3, <3>7 DEF TookRoot, Rebuilt
  <2> QED
    BY <2>1, <2>2
<1> HIDE DEF r
<1>8. g \in Entry /\ g.out = r.out /\ g.ifs = r.ifs
  BY <1>1, <1>7 DEF Entry
<1>9. Rooted(g)
  <2>1. NamedRoot(g, r, rt.rif) /\ old.inbound # rt.rif
    BY <1>5 DEF NamedRoot
  <2> HIDE DEF g
  <2>2. Rerooted(g, old, rt.rif)
    BY <1>1, <1>3, <1>5, <1>6, <1>7, <2>1, RerootBuilds
  <2> QED
    BY <2>2 DEF Rerooted
<1> HIDE DEF g
<1>10. Tells(g, e)
  <2>1. Faithful(old, e) /\ Faithful(d, old) /\ Faithful(r, d) /\ Faithful(g, r)
    BY <1>3, <1>6, <1>7, <1>8, SilentIsFaithful DEF Tells
  <2>2. Faithful(d, e)
    BY <2>1, FaithfulTransitive
  <2>3. Faithful(r, e)
    BY <2>1, <2>2, FaithfulTransitive
  <2>4. Faithful(g, e)
    BY <2>1, <2>3, FaithfulTransitive
  <2> QED
    BY <1>8, <1>9, <2>4 DEF Tells
<1>11. Tells(c, g)
  BY <1>1, <1>8, <1>9, SetRpcTells, CheckTells
<1> HIDE DEF c
<1>12. Tells(EvaluateInTree(Change(c)), c)
  BY <1>11, ChangeTells DEF Tells
<1>13. Tells(f, e)
  BY <1>2, <1>10, <1>11, <1>12, TellsTransitive
<1> QED
  BY <1>13 DEF f

\* The root interface of an originator is in the subnet of the source, where
\* nobody states anything.
DirectRoute(rt) == rt.direct => rt.rif \in SourceLinks \cup {None}

LEMMA OriginatorUpdateTells ==
  ASSUME NEW e, Whole(e), NEW rt, RouteFor(rt, e), DirectRoute(rt), e.originator
  PROVE  Tells(OriginatorUpdate(e, rt), e)
<1> DEFINE new == IF rt.rif = None THEN "Unsure" ELSE "Active"
           d == IF e.inbound = None THEN e ELSE Demoted(e, e.inbound, e.rpc, e.tree, new)
           r == IF rt.rif = None THEN d
                ELSE [d EXCEPT !.ifs[rt.rif] = RootInterface(new)]
           k == [r EXCEPT !.inbound = rt.rif, !.sat = (rt.rif # None)]
           moved == Change(CheckTreeState(k))
           done == IF rt.rif = e.inbound THEN e ELSE moved
           s == [done EXCEPT !.rpc = rt.rpc]
           f == OriginatorUpdate(e, rt)
<1>1. /\ e \in Entry /\ Rooted(e) /\ AllElected(e)
      /\ e.tree \in TreeStates /\ e.inbound \in Links \cup {None} /\ e.rpc \in Nat
      /\ rt.rpc \in Nat /\ rt.rif \in Links \cup {None} /\ new \in TreeStates
  BY EntryTypes DEF Whole, Rooted, RouteFor, TreeStates
<1>2. /\ ~rt.direct => f = Transition(e, "Inactive")
      /\ rt.direct => f = IF e.rpc # rt.rpc THEN NotifyRpcChange(s, rt.rpc) ELSE done
  BY DEF OriginatorUpdate, Demoted
<1> HIDE DEF new, f
<1>3. GaveUpRoot(d, e, new) /\ d \in Entry /\ Faithful(d, e)
  <2>1. CASE e.inbound = None
    BY <1>1, <2>1, FaithfulExtends DEF GaveUpRoot
  <2>2. CASE e.inbound # None
    <3>1. e.inbound \in Links /\ Stated(e, e.inbound) = NoInfo
      BY <1>1, <2>2, RootStates
    <3>2. d = Demoted(e, e.inbound, e.rpc, e.tree, new)
      BY <2>2
    <3> HIDE DEF d
    <3>3. Rebuilt(d, e, e.inbound) /\ Elected(d, e.inbound)
          /\ d.ifs[e.inbound].role = "NonRoot" /\ d.ifs[e.inbound].tree = new
      BY <1>1, <3>1, <3>2, AddNonRootBuilds
    <3>4. Faithful(d, e)
      BY <1>1, <3>1, <3>2, AddNonRootTells
    <3> QED
      BY <2>2, <3>3, <3>4 DEF GaveUpRoot, Rebuilt
  <2> QED
    BY <2>1, <2>2
<1> HIDE DEF d
<1>4. ASSUME rt.direct PROVE TookRoot(r, d, rt.rif) /\ r \in Entry /\ Faithful(r, d)
  <2>1. CASE rt.rif = None
    BY <1>3, <2>1, FaithfulExtends DEF TookRoot
  <2>2. CASE rt.rif # None
    <3>1. rt.rif \in Links /\ rt.rif \in SourceLinks
      BY <1>1, <1>4, <2>2 DEF DirectRoute
    <3>2. r = [d EXCEPT !.ifs[rt.rif] = RootInterface(new)]
      BY <2>2
    <3>3. r.out = d.out
      BY <1>3, <3>2 DEF Entry
    <3> HIDE DEF r
    <3>4. Rebuilt(r, d, rt.rif) /\ r.ifs[rt.rif].role = "Root"
      BY <1>1, <1>3, <3>1, <3>2, RootChange
    <3>5. FaithfulBut(r, d, rt.rif) /\ Says(r, d, rt.rif, Stated(d, rt.rif))
      BY <3>3, <3>4, SilentBut DEF Rebuilt
    <3>6. Stated(r, rt.rif) = NoInfo /\ Stated(d, rt.rif) = NoInfo
      BY <3>1 DEF Stated
    <3>7. Faithful(r, d)
      BY <3>5, <3>6, FaithfulExtends
    <3> QED
      BY <2>2, <3>4, <3>7 DEF TookRoot, Rebuilt
  <2> QED
    BY <2>1, <2>2
<1> HIDE DEF r
<1>5. ASSUME rt.direct, rt.rif # e.inbound PROVE Tells(moved, e)
  <2>1. k \in Entry /\ k.out = r.out /\ k.ifs = r.ifs
    BY <1>1, <1>4, <1>5 DEF Entry
  <2>2. NamedRoot(k, r, rt.rif)
    BY DEF NamedRoot
  <2> HIDE DEF k
  <2>3. Rerooted(k, e, rt.rif)
    BY <1>1, <1>3, <1>4, <1>5, <2>2, RerootBuilds
  <2>4. Faithful(r, e)
    BY <1>3, <1>4, <1>5, FaithfulTransitive
  <2>5. Faithful(k, r)
    BY <2>1, SilentIsFaithful
  <2>6. Tells(k, e)
    BY <2>1, <2>3, <2>4, <2>5, FaithfulTransitive DEF Tells, Rerooted
  <2> DEFINE c == CheckTreeState(k)
  <2>7. Tells(c, k)
    BY <2>6, CheckTells DEF Tells
  <2> HIDE DEF c
  <2>8. Tells(Change(c), c)
    BY <2>7, ChangeTells DEF Tells
  <2> QED
    BY <2>6, <2>7, <2>8, TellsTransitive DEF c
<1> HIDE DEF moved
<1>6. rt.direct => Tells(done, e)
  BY <1>1, <1>5, TellsItself
<1> HIDE DEF done
<1>7. ASSUME rt.direct PROVE Tells(s, done)
  <2>1. done \in Entry /\ Rooted(done)
    BY <1>6, <1>7 DEF Tells
  <2>2. s \in Entry /\ s.out = done.out /\ s.ifs = done.ifs /\ s.inbound = done.inbound
    BY <1>1, <2>1 DEF Entry
  <2> QED
    BY <2>1, <2>2, SilentTells
<1> HIDE DEF s
<1>8. rt.direct => Tells(NotifyRpcChange(s, rt.rpc), s)
  BY <1>1, <1>7, NotifyRpcTells DEF Tells
<1>9. Tells(Transition(e, "Inactive"), e)
  BY <1>1, TransitionTells DEF TreeStates
<1>10. Tells(f, e)
  BY <1>2, <1>6, <1>7, <1>8, <1>9, TellsTransitive
<1> QED
  BY <1>10 DEF f

LEMMA NetworkUpdateTells ==
  ASSUME NEW e, Whole(e), NEW rt, RouteFor(rt, e), DirectRoute(rt)
  PROVE  Tells(NetworkUpdate(e, rt), e)
<1> DEFINE f == NonOriginatorUpdate(e, rt)
<1>1. e \in Entry /\ Rooted(e) /\ rt.rpc \in Nat
  BY DEF Whole, Rooted, RouteFor
<1>2. /\ rt.direct => f = Transition(e, "Inactive")
      /\ ~rt.direct /\ rt.rif = e.inbound => f \in {e, SetRpc(e, rt.rpc)}
  BY DEF NonOriginatorUpdate
<1>3. Tells(Transition(e, "Inactive"), e) /\ Tells(e, e) /\ Tells(SetRpc(e, rt.rpc), e)
  BY <1>1, TransitionTells, TellsItself, SetRpcTells DEF TreeStates
<1>4. ~e.originator => Tells(f, e)
  BY <1>2, <1>3, NonOriginatorMoveTells
<1> HIDE DEF f
<1> QED
  BY <1>4, OriginatorUpdateTells DEF NetworkUpdate, f

-----------------------------------------------------------------------------
(* new_interface, remove_interface and create_entry *)

LEMMA ClearedSilent ==
  ASSUME NEW e \in Entry, NEW i \in Links, NEW local \in LocalSets, NEW c, c = Cleared(e, i, local)
  PROVE  c.out = e.out /\ c.ifs = e.ifs
BY DEF Cleared, Entry

\* The root interface of an entry that has none at i becomes a NonRoot one.
LEMMA DemotedTells ==
  ASSUME NEW e \in Entry, Rooted(e), NEW i \in Links, ~Present(e, i), NEW rpc \in Nat,
         NEW previous \in TreeStates, NEW current \in TreeStates, NEW d,
         d = (IF e.inbound = None THEN e ELSE Demoted(e, e.inbound, rpc, previous, current))
  PROVE  d \in Entry /\ Faithful(d, e) /\ d.ifs[i] = e.ifs[i]
<1>1. CASE e.inbound = None
  BY <1>1, FaithfulExtends
<1>2. CASE e.inbound # None
  <2>1. e.inbound \in Links /\ Stated(e, e.inbound) = NoInfo /\ e.inbound # i
    BY <1>2, RootStates DEF Rooted, Present
  <2>2. d = Demoted(e, e.inbound, rpc, previous, current)
    BY <1>2
  <2>3. Rebuilt(d, e, e.inbound) /\ Faithful(d, e)
    BY <2>1, <2>2, AddNonRootBuilds, AddNonRootTells
  <2> QED
    BY <2>1, <2>3 DEF Rebuilt
<1> QED
  BY <1>1, <1>2

LEMMA OriginatorNewTells ==
  ASSUME NEW c \in Entry, Rooted(c), NEW i \in Links, ~Present(c, i), NEW rt
  PROVE  FaithfulBut(OriginatorNewInterface(c, i, rt), c, i)
<1> DEFINE d == IF c.inbound = None THEN c ELSE Demoted(c, c.inbound, c.rpc, c.tree, c.tree)
           n == NewNonRoot(c, i, c.rpc, c.tree, c.tree)
           r == [d EXCEPT !.ifs[i] = RootInterface(c.tree)]
           g == [r EXCEPT !.inbound = i, !.sat = TRUE]
           f == OriginatorNewInterface(c, i, rt)
<1>1. c.rpc \in Nat /\ c.tree \in TreeStates
  BY EntryTypes
<1>2. rt.rif # i => f = n
  BY DEF OriginatorNewInterface, NewNonRoot
<1>3. rt.rif = i => f = [d EXCEPT !.ifs[i] = RootInterface(c.tree), !.inbound = i, !.sat = TRUE]
  BY DEF OriginatorNewInterface, Demoted
<1> HIDE DEF f
<1>4. FaithfulBut(n, c, i)
  BY <1>1, AddNonRootTells
<1> HIDE DEF n
<1>5. d \in Entry /\ Faithful(d, c)
  BY <1>1, DemotedTells
<1> HIDE DEF d
<1>6. ASSUME rt.rif = i PROVE f.out = d.out /\ \A l \in Links : l # i => f.ifs[l] = d.ifs[l]
  <2>1. Rebuilt(r, d, i)
    BY <1>1, <1>5, RootChange
  <2>2. r \in Entry /\ r.out = d.out
    BY <1>5, <2>1 DEF Entry, Rebuilt
  <2> HIDE DEF r
  <2>3. f = g
    BY <1>3, <1>6 DEF r
  <2>4. g.out = r.out /\ g.ifs = r.ifs
    BY <2>2 DEF Entry
  <2> HIDE DEF g
  <2> QED
    BY <2>1, <2>2, <2>3, <2>4 DEF Rebuilt
<1>7. rt.rif = i => FaithfulBut(f, c, i)
  BY <1>5, <1>6, SilentBut, FaithfulExtends, FaithfulButTransitive
<1>8. FaithfulBut(f, c, i)
  BY <1>2, <1>4, <1>7
<1> QED
  BY <1>8 DEF f

LEMMA NonOriginatorNewTells ==
  ASSUME NEW c \in Entry, Rooted(c), NEW i \in Links, ~Present(c, i), NEW rt
  PROVE  FaithfulBut(NonOriginatorNewInterface(c, i, rt), c, i)
<1> DEFINE new == IF c.tree = "Active" THEN "Unsure" ELSE c.tree
           d == IF c.inbound = None THEN c ELSE Demoted(c, c.inbound, c.rpc, c.tree, new)
           n == NewNonRoot(c, i, c.rpc, c.tree, c.tree)
           k == [c EXCEPT !.inbound = i]
           r0 == NewRoot(k, i, c.tree, c.tree)
           r1 == Promoted(d, i, c.tree, new)
           g1 == [r1 EXCEPT !.inbound = i]
           f == NonOriginatorNewInterface(c, i, rt)
<1>1. c.rpc \in Nat /\ c.tree \in TreeStates /\ new \in TreeStates
  BY EntryTypes DEF TreeStates
<1>2. /\ rt.rif # i => f = n
      /\ rt.rif = i /\ c.inbound = None => f = r0
      /\ rt.rif = i /\ c.inbound # None => f = g1
  BY DEF NonOriginatorNewInterface, NewNonRoot, NewRoot, Promoted, Demoted
<1> HIDE DEF f, new
<1>3. FaithfulBut(n, c, i)
  BY <1>1, AddNonRootTells
<1> HIDE DEF n
<1>4. FaithfulBut(r0, c, i)
  <2>1. k \in Entry /\ k.out = c.out /\ k.ifs = c.ifs
    BY DEF Entry
  <2> HIDE DEF k
  <2>2. Stated(k, i) = NoInfo
    BY <2>1 DEF Stated, Present
  <2>3. Faithful(r0, k)
    BY <1>1, <2>1, <2>2, AddRootTells
  <2> HIDE DEF r0
  <2> QED
    BY <2>1, <2>3, SilentIsFaithful, FaithfulTransitive, FaithfulExtends
<1> HIDE DEF r0
<1>5. d \in Entry /\ Faithful(d, c) /\ d.ifs[i] = c.ifs[i]
  BY <1>1, DemotedTells
<1> HIDE DEF d
<1>6. FaithfulBut(g1, c, i)
  <2>1. Stated(d, i) = NoInfo
    BY <1>5 DEF Stated, Present
  <2>2. Faithful(r1, d) /\ r1 \in Entry
    BY <1>1, <1>5, <2>1, AddRootTells, AddRootBuilds DEF Rebuilt
  <2> HIDE DEF r1
  <2>3. g1.out = r1.out /\ g1.ifs = r1.ifs
    BY <2>2 DEF Entry
  <2> HIDE DEF g1
  <2>4. Faithful(g1, r1)
    BY <2>3, SilentIsFaithful
  <2>5. Faithful(g1, d)
    BY <2>2, <2>4, FaithfulTransitive
  <2>6. Faithful(g1, c)
    BY <1>5, <2>5, FaithfulTransitive
  <2> QED
    BY <2>6, FaithfulExtends
<1> HIDE DEF g1
<1>7. FaithfulBut(f, c, i)
  BY <1>2, <1>3, <1>4, <1>6
<1> QED
  BY <1>7 DEF f

\* What changes on the link of the new interface, nobody knows: the neighbors
\* there are not known yet.
LEMMA NewInterfaceTells ==
  ASSUME NEW e, Whole(e), NEW i \in Links, NEW rt, ~Present(e, i)
  PROVE  FaithfulBut(AddedInterface(e, i, rt), e, i)
<1> DEFINE b == FALSE
           local == IF b THEN e.local \cup {i} ELSE e.local \ {i}
           c == Cleared(e, i, local)
           g == IF e.originator THEN OriginatorNewInterface(c, i, rt)
                ELSE NonOriginatorNewInterface(c, i, rt)
           x == Change(g)
           y == EvaluateInTree(Change(g))
           h == IF e.originator THEN x ELSE CheckTreeState(y)
           f == AddedInterface(e, i, rt)
<1> HIDE DEF b
<1>1. f = CheckInterfaceState(h, i, NoUpstream, FALSE, None)
  <2>1. NewInterface(e, i, rt, b) = h
    BY DEF NewInterface, Cleared
  <2> HIDE DEF h
  <2> QED
    BY <2>1 DEF AddedInterface, b
<1>2. /\ c \in Entry /\ c.originator = e.originator /\ c.ups[i] = NoUpstream /\ ~Present(c, i)
      /\ AllElected(c) /\ Rooted(c) /\ Alike(c) /\ Faithful(c, e)
  <2>1. c = Cleared(e, i, local) /\ e \in Entry
    BY DEF Whole
  <2>2. local \in LocalSets
    BY EntryTypes DEF Whole, LocalSets
  <2> HIDE DEF c, local, f, g, h, x, y
  <2>3. ClearedTo(c, e, i, local) /\ AllElected(c) /\ Rooted(c) /\ Alike(c)
    BY <2>1, <2>2, ClearedFacts
  <2>4. c.out = e.out
    BY <2>1, <2>2, ClearedSilent
  <2> QED
    BY <2>3, <2>4, SilentIsFaithful DEF Present, ClearedTo
<1> HIDE DEF c, f
<1>3. g \in Entry /\ Rooted(g) /\ FaithfulBut(g, c, i)
  <2>1. CASE e.originator
    <3>1. g = OriginatorNewInterface(c, i, rt)
      BY <2>1
    <3> HIDE DEF g
    <3> QED
      BY <1>2, <3>1, OriginatorExtends, OriginatorNewTells DEF Extended
  <2>2. CASE ~e.originator
    <3>1. g = NonOriginatorNewInterface(c, i, rt)
      BY <2>2
    <3> HIDE DEF g
    <3> QED
      BY <1>2, <3>1, NonOriginatorExtends, NonOriginatorNewTells DEF Extended
  <2> QED
    BY <2>1, <2>2
<1> HIDE DEF g
<1>4. FaithfulBut(g, e, i)
  BY <1>2, <1>3, FaithfulExtends, FaithfulButTransitive
<1>5. Tells(x, g) /\ Tells(y, g)
  BY <1>3, ChangeTells
<1> HIDE DEF x, y
<1>6. Tells(CheckTreeState(y), y)
  BY <1>5, CheckTells DEF Tells
<1>7. Tells(h, g)
  BY <1>5, <1>6, TellsTransitive
<1> HIDE DEF h
<1>8. Tells(f, h)
  <2>1. NoUpstream \in AssertMetrics
    BY DEF AssertMetrics
  <2> QED
    BY <1>1, <1>7, <2>1, NeighborTells DEF Tells
<1>9. FaithfulBut(f, e, i)
  BY <1>4, <1>7, <1>8, TellsTransitive
<1> QED
  BY <1>9 DEF f

LEMMA RemoveInterfaceTells ==
  ASSUME NEW e, Whole(e), NEW i \in Links, Present(e, i)
  PROVE  FaithfulBut(RemoveInterface(e, i), e, i)
<1> DEFINE k == [e EXCEPT !.inbound = IF @ = i THEN None ELSE @,
                          !.ups[i] = NoUpstream, !.int[i] = FALSE,
                          !.local = @ \ {i}, !.ifs[i] = NoInterface]
           g == EvaluateInTree(Change(k))
           c == CheckTreeState(g)
           f == RemoveInterface(e, i)
<1>1. e \in Entry /\ Rooted(e) /\ NoInterface \in Interface /\ NoUpstream \in AssertMetrics
  BY DEF Whole, Rooted, NoInterface, Interface, AssertMetrics, TreeStates
<1>2. /\ k \in Entry /\ k.out = e.out
      /\ k.ifs[i] = NoInterface /\ k.inbound = IF e.inbound = i THEN None ELSE e.inbound
      /\ \A l \in Links : l # i => k.ifs[l] = e.ifs[l]
  BY <1>1 DEF Entry
<1>3. f \in {c, SourceActive(c, FALSE)}
  BY DEF RemoveInterface
<1> HIDE DEF k, f
<1>4. NoInterface.role = "Absent"
  BY DEF NoInterface
<1>5. Rooted(k)
  <2> SUFFICES ASSUME NEW l \in Links PROVE k.ifs[l].role = "Root" <=> l = k.inbound
    BY DEF Rooted
  <2>1. i # None /\ l # None
    BY TopologyAssumption
  <2> QED
    BY <1>1, <1>2, <1>4, <2>1 DEF Rooted
<1>6. FaithfulBut(k, e, i)
  BY <1>2, SilentBut
<1>7. Tells(g, k)
  BY <1>2, <1>5, ChangeTells
<1> HIDE DEF g
<1>8. Tells(c, g)
  BY <1>7, CheckTells DEF Tells
<1> HIDE DEF c
<1>9. Tells(SourceActive(c, FALSE), c)
  BY <1>8, SourceTells DEF Tells
<1>10. FaithfulBut(f, e, i)
  BY <1>3, <1>6, <1>7, <1>8, <1>9, TellsTransitive
<1> QED
  BY <1>10 DEF f

\* The NonRoot interfaces of a new entry announce themselves.
LEMMA LoopNonRootsTells ==
  ASSUME NEW e \in Entry, \A l \in Links : ~Present(e, l), NEW vifs,
         NEW r, r = AddAllNonRoots(e, vifs)
  PROVE  Faithful(r, e)
<1> DEFINE vs == Vifs[e.router]
           N == Len(vs)
           Quiet1(f) == \A l \in Links : f.ifs[l].role = "NonRoot" => f.ifs[l].tree = e.tree
           S == {f \in Entry : Faithful(f, e) /\ f.tree = e.tree /\ Quiet1(f)}
           T == [k \in 0 .. N |-> S]
<1>1. N \in Nat /\ \A k \in 1 .. N : vs[k] \in Links
  <2>1. e.router \in Routers
    BY EntryTypes
  <2>2. vs \in Seq(Links)
    BY <2>1, TopologyAssumption
  <2> QED
    BY <2>2
<1>2. e \in S
  BY FaithfulExtends DEF Present
<1>3. ASSUME NEW f \in S, NEW i \in Links, NEW g, g = NewNonRoot(f, i, f.rpc, "Inactive", f.tree)
      PROVE  g \in S
  <2>1. f \in Entry /\ Faithful(f, e) /\ f.tree = e.tree /\ Quiet1(f)
    OBVIOUS
  <2>2. f.rpc \in Nat /\ f.tree \in TreeStates /\ "Inactive" \in TreeStates
    BY <2>1, EntryTypes DEF TreeStates
  <2>3. Stated(f, i) = NoInfo \/ f.tree = "Active"
    BY <2>1 DEF Stated
  <2>4. Rebuilt(g, f, i) /\ g.ifs[i].tree = f.tree /\ Faithful(g, f)
    BY <1>3, <2>1, <2>2, <2>3, AddNonRootBuilds, AddNonRootTells
  <2>5. Faithful(g, e)
    BY <2>1, <2>4, FaithfulTransitive
  <2>6. Quiet1(g)
    BY <2>1, <2>4 DEF Rebuilt
  <2> QED
    BY <2>1, <2>4, <2>5, <2>6 DEF Rebuilt
<1> HIDE DEF vs, N, S
<1>4. T \in [0 .. N -> SUBSET Entry]
  BY DEF S
<1>5. e \in T[0]
  BY <1>1, <1>2
<1>6. ASSUME NEW k \in 1 .. N, NEW f \in T[k - 1]
      PROVE  (IF vs[k] \in vifs /\ vs[k] # e.inbound
              THEN NewNonRoot(f, vs[k], f.rpc, "Inactive", f.tree) ELSE f) \in T[k]
  BY <1>1, <1>3
<1>7. T[N] = S
  BY <1>1
<1>8. r \in T[N]
  <2> HIDE DEF T
  <2> QED
    BY <1>4, <1>5, <1>6, ForEachNewNonRoot DEF vs, N
<1> QED
  BY <1>7, <1>8 DEF S

LEMMA CreateOriginatorTells ==
  ASSUME NEW e, NEW vifs, Blank(e, vifs), e.originator
  PROVE  Faithful(CreateOriginator(e, vifs), e)
<1> DEFINE s == [e EXCEPT !.sat = (e.inbound # None),
                          !.tree = IF e.inbound # None THEN "Active" ELSE "Unsure"]
           d == AddAllNonRoots(s, vifs)
           r == IF e.inbound = None THEN d
                ELSE [d EXCEPT !.ifs[e.inbound] = RootInterface(d.tree)]
           c == Change(r)
           f == CheckTreeState(c)
<1>1. CreateOriginator(e, vifs) = f
  BY DEF CreateOriginator
<1>2. e \in Entry /\ e.inbound \in Links \cup {None}
  BY EntryTypes DEF Blank
<1>3. /\ s \in Entry /\ SameKnowledge(s, e) /\ s.ifs = e.ifs /\ s.inbound = e.inbound
      /\ s.out = e.out
  BY <1>2 DEF Entry, SameKnowledge, TreeStates
<1> HIDE DEF s
<1>4. Blank(s, vifs)
  BY <1>3, BlankKept
<1>5. /\ AllNonRoots(d, s, vifs) /\ Faithful(d, s) /\ d \in Entry
      /\ s.inbound # None => ~Present(d, s.inbound)
  <2>1. Furnished(d, s, vifs) /\ \A l \in vifs : l # s.inbound => Present(d, l)
    BY <1>3, <1>4, LoopNonRoots DEF Blank
  <2>2. Faithful(d, s)
    BY <1>3, <1>4, LoopNonRootsTells DEF Blank
  <2>3. s.inbound \in Links \cup {None}
    BY <1>2, <1>3
  <2> HIDE DEF d
  <2> QED
    BY <2>1, <2>2, <2>3 DEF AllNonRoots, Furnished
<1> HIDE DEF d
<1>6. TookRoot(r, d, s.inbound) /\ Faithful(r, d)
  <2>1. CASE e.inbound = None
    BY <1>3, <2>1, FaithfulExtends DEF TookRoot
  <2>2. CASE e.inbound # None
    <3>1. d.tree \in TreeStates /\ e.inbound \in Links
      BY <1>2, <1>5, <2>2, EntryTypes
    <3>2. r = [d EXCEPT !.ifs[e.inbound] = RootInterface(d.tree)]
      BY <2>2
    <3>3. r.out = d.out
      BY <1>5, <3>2 DEF Entry
    <3> HIDE DEF r
    <3>4. Rebuilt(r, d, e.inbound) /\ r.ifs[e.inbound].role = "Root"
      BY <1>5, <3>1, <3>2, RootChange
    <3>5. FaithfulBut(r, d, e.inbound) /\ Says(r, d, e.inbound, Stated(d, e.inbound))
      BY <3>3, <3>4, SilentBut DEF Rebuilt
    <3>6. Stated(r, e.inbound) = NoInfo /\ Stated(d, e.inbound) = NoInfo
      BY <1>3, <1>5, <2>2, <3>4 DEF Stated, Present
    <3>7. Faithful(r, d)
      BY <3>5, <3>6, FaithfulExtends
    <3> QED
      BY <1>3, <2>2, <3>4, <3>7 DEF TookRoot
  <2> QED
    BY <2>1, <2>2
<1> HIDE DEF r
<1>7. r \in Entry /\ Rooted(r)
  BY <1>4, <1>5, <1>6, FurnishedWithRoot DEF Ready
<1>8. Faithful(r, e)
  <2>1. Faithful(s, e)
    BY <1>3, SilentIsFaithful
  <2>2. Faithful(d, e)
    BY <1>5, <2>1, FaithfulTransitive
  <2> QED
    BY <1>6, <2>2, FaithfulTransitive
<1>9. Tells(c, r)
  BY <1>7, ChangeTells
<1> HIDE DEF c
<1>10. Tells(f, c)
  BY <1>9, CheckTells DEF Tells
<1> HIDE DEF f
<1> QED
  BY <1>1, <1>8, <1>9, <1>10, TellsTransitive DEF Tells

LEMMA CreateNonOriginatorTells ==
  ASSUME NEW e, NEW vifs, Blank(e, vifs), ~e.originator
  PROVE  Faithful(CreateNonOriginator(e, vifs), e)
<1> DEFINE t == IF FeasibleUpstream(UpstreamAt(e, e.inbound), e.rpc) THEN "Active"
                ELSE IF SomeUpstream(e) THEN "Unsure" ELSE "Inactive"
           s == [e EXCEPT !.tree = t]
           d == AddAllNonRoots(s, vifs)
           w == [d EXCEPT !.was_in_tree = IsInTree(d)]
           r == IF e.inbound = None THEN w ELSE NewRoot(w, e.inbound, "Inactive", w.tree)
           f == EvaluateInTree(Change(r))
<1>1. CreateNonOriginator(e, vifs) = f
  BY DEF CreateNonOriginator, NewRoot
<1>2. e \in Entry /\ e.inbound \in Links \cup {None} /\ t \in TreeStates
  BY EntryTypes DEF Blank, TreeStates
<1> HIDE DEF t
<1>3. /\ s \in Entry /\ SameKnowledge(s, e) /\ s.ifs = e.ifs /\ s.inbound = e.inbound
      /\ s.out = e.out
  BY <1>2 DEF Entry, SameKnowledge
<1> HIDE DEF s
<1>4. Blank(s, vifs)
  BY <1>3, BlankKept
<1>5. /\ Furnished(d, s, vifs) /\ Faithful(d, s)
      /\ \A l \in vifs : l # s.inbound => Present(d, l)
  BY <1>3, <1>4, LoopNonRoots, LoopNonRootsTells DEF Blank
<1> HIDE DEF d
<1>6. /\ AllNonRoots(w, s, vifs) /\ w \in Entry /\ Faithful(w, d)
      /\ s.inbound # None => ~Present(w, s.inbound)
  <2>1. d \in Entry /\ IsInTree(d) \in BOOLEAN
    BY <1>5 DEF Furnished, IsInTree
  <2>2. /\ w \in Entry /\ w.router = d.router /\ w.originator = d.originator
        /\ w.tree = d.tree /\ w.rpc = d.rpc /\ w.inbound = d.inbound /\ w.ups = d.ups
        /\ w.int = d.int /\ w.local = d.local /\ w.sat = d.sat /\ w.removals = d.removals
        /\ w.ifs = d.ifs /\ w.out = d.out
    BY <2>1 DEF Entry
  <2> HIDE DEF w
  <2>3. AllElected(w)
    BY <1>5, <2>2, SameElections DEF Furnished
  <2>4. Furnished(w, s, vifs) /\ \A l \in vifs : l # s.inbound => Present(w, l)
    BY <1>5, <2>2, <2>3 DEF Furnished, Present
  <2>5. s.inbound \in Links \cup {None}
    BY <1>2, <1>3
  <2> QED
    BY <2>2, <2>4, <2>5, SilentIsFaithful DEF AllNonRoots, Furnished
<1> HIDE DEF w
<1>7. TookRoot(r, w, s.inbound) /\ Faithful(r, w)
  <2>1. CASE e.inbound = None
    BY <1>3, <2>1, FaithfulExtends DEF TookRoot
  <2>2. CASE e.inbound # None
    <3>1. w.tree \in TreeStates /\ e.inbound \in Links /\ "Inactive" \in TreeStates
      BY <1>2, <1>6, <2>2, EntryTypes DEF TreeStates
    <3>2. r = NewRoot(w, e.inbound, "Inactive", w.tree)
      BY <2>2
    <3> HIDE DEF r
    <3>3. Rebuilt(r, w, e.inbound) /\ r.ifs[e.inbound].role = "Root"
      BY <1>6, <3>1, <3>2, AddRootBuilds
    <3>4. Stated(w, e.inbound) = NoInfo
      BY <1>3, <1>6, <2>2 DEF Stated, Present
    <3>5. Faithful(r, w)
      BY <1>6, <3>1, <3>2, <3>4, AddRootTells
    <3> QED
      BY <1>3, <2>2, <3>3, <3>5 DEF TookRoot
  <2> QED
    BY <2>1, <2>2
<1> HIDE DEF r
<1>8. r \in Entry /\ Rooted(r)
  BY <1>4, <1>6, <1>7, FurnishedWithRoot DEF Ready
<1>9. Faithful(r, e)
  <2>1. Faithful(s, e)
    BY <1>3, SilentIsFaithful
  <2>2. Faithful(d, e)
    BY <1>5, <2>1, FaithfulTransitive
  <2>3. Faithful(w, e)
    BY <1>6, <2>2, FaithfulTransitive
  <2> QED
    BY <1>7, <2>3, FaithfulTransitive
<1>10. Tells(f, r)
  BY <1>8, ChangeTells
<1> HIDE DEF f
<1> QED
  BY <1>1, <1>9, <1>10, TellsTransitive DEF Tells

\* The messages that a new entry sends tell everything that it states.
LEMMA CreateEntryTells ==
  ASSUME NEW n \in Routers, NEW rt,
         rt.rpc \in Nat, rt.direct \in BOOLEAN, rt.rif \in Links \cup {None},
         NEW ups \in [Links -> AssertMetrics], NEW int \in [Links -> BOOLEAN],
         NEW ms, NEW vifs \in SUBSET Links,
         \A l \in vifs : \E k \in 1 .. Len(Vifs[n]) : Vifs[n][k] = l,
         rt.rif # None => rt.rif \in vifs,
         NEW e, e = BlankEntry(n, rt, ups, int, ms, vifs)
  PROVE  /\ e.out = <<>> /\ \A l \in Links : Stated(e, l) = NoInfo
         /\ Faithful(CreateEntry(n, rt, ups, int, ms, vifs), e)
<1>1. /\ e.router = n /\ e.originator = rt.direct /\ e.rpc = rt.rpc
      /\ e.inbound = rt.rif /\ e.ups = ups /\ e.int = int
      /\ e.local = ms \cap vifs /\ e.removals = 0 /\ e.tree = "Inactive"
      /\ e.ifs = [i \in Links |-> NoInterface] /\ e.out = <<>>
  BY DEF BlankEntry
<1>2. e \in Entry
  <2>1. NoInterface \in Interface
    BY DEF NoInterface, Interface, TreeStates
  <2>2. NoRoute \in [iif : Links \cup {None}, oil : SUBSET Links]
    BY DEF NoRoute
  <2>3. <<>> \in Seq(Messages) /\ "Inactive" \in TreeStates
    BY DEF TreeStates
  <2> QED
    BY <2>1, <2>2, <2>3 DEF BlankEntry, Entry
<1>3. \A l \in Links : ~Present(e, l)
  BY <1>1 DEF Present, NoInterface
<1>4. Blank(e, vifs)
  BY <1>1, <1>2, <1>3 DEF Blank
<1>5. CreateEntry(n, rt, ups, int, ms, vifs)
        = IF rt.direct THEN CreateOriginator(e, vifs) ELSE CreateNonOriginator(e, vifs)
  BY DEF CreateEntry
<1>6. \A l \in Links : Stated(e, l) = NoInfo
  BY <1>1 DEF Stated, NoInterface
<1> QED
  BY <1>1, <1>4, <1>5, <1>6, CreateOriginatorTells, CreateNonOriginatorTells

-----------------------------------------------------------------------------
(* What a call of a router tells its neighbors *)

StatedBy(e, l) == IF e = NoEntry THEN NoInfo ELSE Stated(e, l)

\* The messages of the call after which n has f, tell on link l what f states
\* to whoever agreed with e, the entry before it.
Explains(f, e, l) ==
  \A m \in Routers, w \in Views :
    Agrees(w, StatedBy(e, l)) => Agrees(Heard(Out(f), w, l, m), StatedBy(f, l))

LEMMA SilenceHeard ==
  ASSUME NEW w, NEW l, NEW m
  PROVE  Heard(<<>>, w, l, m) = w
<1>1. For(<<>>, l, m) = {}
  BY DEF For
<1> QED
  BY <1>1 DEF Heard

LEMMA FaithfulExplains ==
  ASSUME NEW e \in Entry, e.out = <<>>, NEW f \in Entry, NEW l, FaithfulAt(f, e, l)
  PROVE  Explains(f, e, l)
<1>1. StatedBy(e, l) = Stated(e, l) /\ StatedBy(f, l) = Stated(f, l) /\ Out(f) = f.out
  BY IsEntry DEF StatedBy, Out
<1>2. \A w, m : Heard(e.out, w, l, m) = w
  BY SilenceHeard
<1> QED
  BY <1>1, <1>2 DEF Explains, FaithfulAt, Says

LEMMA SilenceExplains ==
  ASSUME NEW e, NEW l, StatedBy(e, l) = NoInfo
  PROVE  Explains(NoEntry, e, l)
BY SilenceHeard DEF Explains, StatedBy, Out

LEMMA CleanStates ==
  ASSUME NEW f \in Entry \cup {NoEntry}, NEW l
  PROVE  StatedBy(Clean(f), l) = StatedBy(f, l)
<1>1. CASE f = NoEntry
  BY <1>1 DEF Clean
<1>2. CASE f \in Entry
  <2>1. f # NoEntry /\ Clean(f) # NoEntry /\ Clean(f).ifs = f.ifs
    BY <1>2, IsEntry, CleanKeeps
  <2> QED
    BY <2>1 DEF StatedBy, Stated
<1> QED
  BY <1>1, <1>2

LEMMA NewEntryExplains ==
  ASSUME TypeInv, NEW n \in Routers, NEW vw \in [Pairs -> Views], NEW ad,
         NEW e, NEW l \in Links, StatedBy(e, l) = NoInfo
  PROVE  NewEntry(n, vw, ad) \in Entry /\ Explains(NewEntry(n, vw, ad), e, l)
<1> DEFINE rt == Route(n)
           ups == [i \in Links |-> UpstreamState(n, i, vw, ad)]
           int == [i \in Links |-> InterestState(n, i, vw, ad)]
           f == NewEntry(n, vw, ad)
           b == BlankEntry(n, rt, ups, int, members[n], up[n])
<1>1. /\ rt.rpc \in Nat /\ rt.direct \in BOOLEAN /\ rt.rif \in Links \cup {None}
      /\ rt.rif # None => rt.rif \in up[n]
  <2>1. route[n] \in Routes[n] /\ up[n] \in SUBSET Links
    BY DEF TypeInv, TablesInv
  <2> QED
    BY <2>1, RouteFacts DEF Route
<1>2. ups \in [Links -> AssertMetrics] /\ int \in [Links -> BOOLEAN]
  BY StateTypes
<1>3. /\ up[n] \in SUBSET Links
      /\ \A i \in up[n] : \E k \in 1 .. Len(Vifs[n]) : Vifs[n][k] = i
  BY AttachedIsVif DEF TypeInv, TablesInv
<1>4. f = CreateEntry(n, rt, ups, int, members[n], up[n])
  BY DEF NewEntry
<1> HIDE DEF rt, ups, int, f
<1>5. f \in Entry
  <2>1. Created(f, b, up[n])
    BY <1>1, <1>2, <1>3, <1>4, CreateEntryEnds
  <2> QED
    BY <2>1 DEF Created, Whole
<1>6. b.out = <<>> /\ Stated(b, l) = NoInfo /\ Faithful(f, b)
  BY <1>1, <1>2, <1>3, <1>4, CreateEntryTells
<1> HIDE DEF b
<1>7. StatedBy(f, l) = Stated(f, l) /\ Out(f) = f.out
  BY <1>5, IsEntry DEF StatedBy, Out
<1>8. \A w, m : Heard(b.out, w, l, m) = w
  BY <1>6, SilenceHeard
<1>9. Explains(f, e, l)
  BY <1>6, <1>7, <1>8 DEF Explains, Faithful, FaithfulAt, Says
<1> QED
  BY <1>5, <1>9 DEF f

-----------------------------------------------------------------------------
(* What is in flight *)

\* What a router stores after it received everything in c, with v before it.
Word(v, c) == IF c = <<>> THEN v ELSE StoredView(c[Len(c)])

\* s ends with the last of the first k messages of ms that reach p.
EndsWith(s, ms, p, k) ==
  LET S == For(ms, p.link, p.at) \cap (1 .. k)
  IN  /\ S = {} => s = <<>>
      /\ \A j : IsLast(j, S) => s # <<>> /\ s[Len(s)] = ms[j]

LEMMA EndsWithNext ==
  ASSUME NEW ms \in Seq(Messages), NEW p, NEW k \in 1 .. Len(ms), NEW s \in Seq(Messages),
         EndsWith(s, ms, p, k - 1)
  PROVE  EndsWith(Took(ms, p, s, k), ms, p, k)
<1> DEFINE F == For(ms, p.link, p.at)
           S == F \cap (1 .. (k - 1))
           U == F \cap (1 .. k)
           t == Took(ms, p, s, k)
<1>1. /\ S = {} => s = <<>>
      /\ \A j : IsLast(j, S) => s # <<>> /\ s[Len(s)] = ms[j]
  BY DEF EndsWith
<1>2. k \in DOMAIN ms /\ ms[k] \in Messages /\ (k \in F <=> Reaches(ms[k], p.link, p.at))
  BY DEF For
<1> HIDE DEF F
<1>3. CASE k \in F
  <2>1. t = Append(s, ms[k])
    BY <1>2, <1>3 DEF Took, Reaches
  <2>2. t # <<>> /\ t[Len(t)] = ms[k]
    BY <1>2, <2>1
  <2>3. k \in U /\ \A j : IsLast(j, U) => j = k
    <3>1. ASSUME NEW j, IsLast(j, U) PROVE j = k
      <4>1. j \in 1 .. k /\ k \in U
        BY <1>3, <3>1 DEF IsLast
      <4>2. k <= j
        BY <3>1, <4>1 DEF IsLast
      <4> QED
        BY <4>1, <4>2
    <3>2. k \in U
      BY <1>3
    <3> HIDE DEF U
    <3> QED
      BY <3>1, <3>2
  <2> HIDE DEF t, U
  <2>4. EndsWith(t, ms, p, k)
    BY <2>2, <2>3 DEF EndsWith, U, F
  <2> QED
    BY <2>4 DEF t
<1>4. CASE k \notin F
  <2>1. t = s
    BY <1>2, <1>4 DEF Took, Reaches
  <2>2. U = S
    BY <1>4
  <2> QED
    BY <1>1, <2>1, <2>2 DEF EndsWith, F
<1> QED
  BY <1>3, <1>4

LEMMA AddressedEnds ==
  ASSUME NEW ms \in Seq(Messages), NEW p
  PROVE  /\ Addressed(ms, p) \in Seq(Messages)
         /\ EndsWith(Addressed(ms, p), ms, p, Len(ms))
<1> DEFINE N == Len(ms)
           T == [k \in 0 .. N |-> {s \in Seq(Messages) : EndsWith(s, ms, p, k)}]
<1>1. N \in Nat /\ \A k \in 0 .. N : T[k] = {s \in Seq(Messages) : EndsWith(s, ms, p, k)}
  OBVIOUS
<1>2. T \in [0 .. N -> SUBSET Seq(Messages)]
  OBVIOUS
<1> HIDE DEF T, N
<1>3. <<>> \in T[0]
  <2>1. For(ms, p.link, p.at) \cap (1 .. 0) = {}
    OBVIOUS
  <2>2. EndsWith(<<>>, ms, p, 0)
    BY <2>1 DEF EndsWith, IsLast
  <2>3. <<>> \in Seq(Messages) /\ 0 \in 0 .. N
    BY <1>1
  <2> QED
    BY <1>1, <2>2, <2>3
<1>4. ASSUME NEW k \in 1 .. N, NEW s \in T[k - 1] PROVE Took(ms, p, s, k) \in T[k]
  <2>1. k - 1 \in 0 .. N /\ k \in 0 .. N /\ k \in 1 .. Len(ms) /\ ms[k] \in Messages
    BY <1>1 DEF N
  <2>2. s \in Seq(Messages) /\ EndsWith(s, ms, p, k - 1)
    BY <1>1, <2>1
  <2>3. Append(s, ms[k]) \in Seq(Messages)
    BY <2>1, <2>2
  <2>4. Took(ms, p, s, k) \in Seq(Messages)
    BY <2>2, <2>3 DEF Took
  <2>5. EndsWith(Took(ms, p, s, k), ms, p, k)
    BY <2>1, <2>2, EndsWithNext
  <2> QED
    BY <1>1, <2>1, <2>4, <2>5
<1>5. Addressed(ms, p) \in T[N]
  BY <1>2, <1>3, <1>4, AddressedReaches DEF N
<1> QED
  BY <1>1, <1>5 DEF N

LEMMA AddressedHeard ==
  ASSUME NEW ms \in Seq(Messages), NEW p, NEW w
  PROVE  Word(w, Addressed(ms, p)) = Heard(ms, w, p.link, p.at)
<1> DEFINE S == For(ms, p.link, p.at)
           a == Addressed(ms, p)
<1>1. S \cap (1 .. Len(ms)) = S /\ S \in SUBSET (1 .. Len(ms)) /\ Len(ms) \in Nat
  BY DEF For
<1>2. /\ S = {} => a = <<>>
      /\ \A j : IsLast(j, S) => a # <<>> /\ a[Len(a)] = ms[j]
  BY <1>1, AddressedEnds DEF EndsWith
<1> HIDE DEF a
<1>3. CASE S = {}
  BY <1>2, <1>3 DEF Word, Heard, a
<1>4. CASE S # {}
  <2> HIDE DEF S
  <2>1. IsLast(LastOf(S), S)
    BY Zenon, <1>1, <1>4, LastExists DEF LastOf
  <2>2. a # <<>> /\ a[Len(a)] = ms[LastOf(S)]
    BY <1>2, <2>1
  <2> QED
    BY <1>4, <2>2 DEF Word, Heard, S, a
<1> QED
  BY <1>3, <1>4

\* The newest messages end like all of them.
LEMMA NewestWord ==
  ASSUME NEW c \in Seq(Messages), NEW w
  PROVE  Word(w, Newest(c)) = Word(w, c)
<1> DEFINE N == Len(c)
           d == Newest(c)
           b == IF N > MaxInFlight THEN N - MaxInFlight + 1 ELSE 1
<1>1. MaxInFlight \in Nat \ {0} /\ N \in Nat
  BY EventsAssumption
<1>2. d = SubSeq(c, b, N)
  BY DEF Newest
<1>3. CASE c = <<>>
  <2>1. N = 0 /\ b = 1
    BY <1>1, <1>3
  <2>2. d = <<>>
    BY <1>2, <1>3, <2>1
  <2> QED
    BY <1>3, <2>2
<1>4. CASE c # <<>>
  <2>1. N > 0 /\ b \in 1 .. N
    BY <1>1, <1>4
  <2> HIDE DEF b
  <2>2. Len(d) = N - b + 1 /\ d[N - b + 1] = c[N]
    BY <1>1, <1>2, <2>1
  <2>3. d # <<>> /\ d[Len(d)] = c[N]
    <3>1. Len(d) # 0
      BY <1>1, <2>1, <2>2
    <3> QED
      BY <2>2, <3>1
  <2> QED
    BY <1>4, <2>3 DEF Word
<1> QED
  BY <1>3, <1>4

LEMMA DeliveredWord ==
  ASSUME NEW ms \in Seq(Messages), NEW p, NEW c \in Seq(Messages), NEW w
  PROVE  Word(w, Newest(c \o Addressed(ms, p))) = Heard(ms, Word(w, c), p.link, p.at)
<1> DEFINE a == Addressed(ms, p)
<1>1. a \in Seq(Messages) /\ c \o a \in Seq(Messages)
  BY AddressedEnds
<1>2. Word(Word(w, c), a) = Heard(ms, Word(w, c), p.link, p.at)
  BY AddressedHeard
<1> HIDE DEF a
<1>3. Word(w, c \o a) = Word(Word(w, c), a)
  <2>1. CASE a = <<>>
    <3>1. c \o a = c
      BY <2>1
    <3> QED
      BY <2>1, <3>1 DEF Word
  <2>2. CASE a # <<>>
    <3>1. Len(a) > 0 /\ Len(c \o a) = Len(c) + Len(a) /\ Len(a) \in Nat /\ Len(c) \in Nat
      BY <1>1, <2>2
    <3>2. (c \o a)[Len(c) + Len(a)] = a[Len(a)]
      BY <1>1, <3>1
    <3>3. c \o a # <<>>
      BY <1>1, <3>1
    <3> QED
      BY <2>2, <3>1, <3>2, <3>3 DEF Word
  <2> QED
    BY <2>1, <2>2
<1>4. Word(w, Newest(c \o a)) = Word(w, c \o a)
  BY <1>1, NewestWord
<1>5. Word(w, Newest(c \o a)) = Heard(ms, Word(w, c), p.link, p.at)
  BY <1>2, <1>3, <1>4
<1> QED
  BY <1>5 DEF a

-----------------------------------------------------------------------------
(* What is stored of a neighbor, once everything in flight arrived, is     *)
(* what the neighbor states                                                *)

Trusts(p, vw, ch, ad, s) ==
  ad[p] # "Down" /\ ad[Mirror(p)] # "Down" => Agrees(Word(vw[p], ch[p]), s)

Trusted(vw, ch, ad) ==
  \A p \in Pairs : Trusts(p, vw, ch, ad, StatedBy(entry[p.of], p.link))

Truthful == Trusted(view, chan, adj)

LEMMA WordTypes ==
  ASSUME NEW v \in Views, NEW c \in Seq(Messages)
  PROVE  Word(v, c) \in Views
<1>1. ASSUME c # <<>> PROVE c[Len(c)] \in Messages
  <2>1. Len(c) \in Nat /\ Len(c) # 0 /\ Len(c) \in 1 .. Len(c)
    BY <1>1
  <2> QED
    BY <2>1
<1> QED
  BY <1>1, StoredViewTypes DEF Word

LEMMA TellsExplains ==
  ASSUME NEW n \in Routers, Fits(n), HasEntry(n), NEW f
  PROVE  /\ Whole(entry[n]) /\ entry[n] \in Entry /\ Rooted(entry[n]) /\ entry[n].out = <<>>
         /\ \A l \in Links : f \in Entry /\ FaithfulAt(f, entry[n], l) => Explains(f, entry[n], l)
         /\ Tells(f, entry[n]) => f \in Entry /\ \A l \in Links : Explains(f, entry[n], l)
<1>1. Whole(entry[n]) /\ entry[n].out = <<>>
  BY DEF Fits, Fitting, HasEntry
<1>2. entry[n] \in Entry /\ Rooted(entry[n])
  BY <1>1 DEF Whole, Rooted
<1>3. \A l \in Links : f \in Entry /\ FaithfulAt(f, entry[n], l) => Explains(f, entry[n], l)
  BY <1>1, <1>2, FaithfulExplains
<1> QED
  BY <1>1, <1>2, <1>3 DEF Tells, Faithful

\* n takes the entry f, whose messages tell what it states where somebody listens.
LEMMA TruthKept ==
  ASSUME TypeInv, NEW n \in Routers, NEW f \in Entry \cup {NoEntry},
         NEW ch, Channels(ch), NEW ad, NEW vw \in [Pairs -> Views], Trusted(vw, ch, ad),
         entry' = [entry EXCEPT ![n] = Clean(f)], chan' = Deliver(ch, ad, n, Out(f)),
         adj' = ad, view' = vw,
         \A p \in Pairs : p.of = n /\ ad[p] # "Down" /\ ad[Mirror(p)] # "Down"
                            => Explains(f, entry[n], p.link)
  PROVE  Truthful'
<1> SUFFICES ASSUME NEW p \in Pairs, ad[p] # "Down", ad[Mirror(p)] # "Down"
             PROVE  Agrees(Word(vw[p], chan'[p]), StatedBy(entry'[p.of], p.link))
  BY DEF Truthful, Trusted, Trusts
<1> DEFINE w == Word(vw[p], ch[p])
<1>1. /\ p.of \in Routers /\ p.at \in Routers /\ p.link \in Links
      /\ entry \in [Routers -> Entry \cup {NoEntry}]
  BY PairTypes DEF TypeInv
<1>2. Agrees(w, StatedBy(entry[p.of], p.link))
  BY DEF Trusted, Trusts
<1>3. vw[p] \in Views /\ ch[p] \in Seq(Messages) /\ w \in Views
  BY WordTypes DEF Channels
<1>4. CASE p.of = n
  <2>1. entry'[p.of] = Clean(f) /\ StatedBy(Clean(f), p.link) = StatedBy(f, p.link)
    BY <1>1, <1>4, CleanStates
  <2>2. Out(f) \in Seq(Messages)
    BY OutTypes
  <2>3. chan'[p] = Newest(ch[p] \o Addressed(Out(f), p))
    BY <1>4 DEF Deliver
  <2>4. Word(vw[p], chan'[p]) = Heard(Out(f), w, p.link, p.at)
    BY <1>3, <2>2, <2>3, DeliveredWord
  <2>5. Explains(f, entry[n], p.link) /\ Agrees(w, StatedBy(entry[n], p.link))
    BY <1>2, <1>4
  <2> HIDE DEF w
  <2>6. Agrees(Heard(Out(f), w, p.link, p.at), StatedBy(f, p.link))
    BY <1>1, <1>3, <2>5 DEF Explains
  <2> QED
    BY <2>1, <2>4, <2>6
<1>5. CASE p.of # n
  <2>1. entry'[p.of] = entry[p.of] /\ chan'[p] = ch[p]
    BY <1>1, <1>5 DEF Deliver
  <2> QED
    BY <1>2, <2>1
<1> QED
  BY <1>4, <1>5

\* A call of n that only changes its entry and sends messages.
LEMMA CallTruth ==
  ASSUME TreeInv, Truthful, NEW n \in Routers, NEW f \in Entry \cup {NoEntry},
         \A l \in Links : Explains(f, entry[n], l),
         Became(n, f, chan, adj), view' = view
  PROVE  Truthful'
<1>1. TypeInv /\ Channels(chan) /\ view \in [Pairs -> Views]
  BY DEF TreeInv, TypeInv
<1>2. \A p \in Pairs : p.link \in Links
  BY PairTypes
<1> QED
  BY <1>1, <1>2, TruthKept DEF Truthful, Became

LEMMA NobodyExplains ==
  ASSUME NEW l
  PROVE  Explains(NoEntry, NoEntry, l)
BY SilenceExplains DEF StatedBy

LEMMA HoldTimeoutTruth ==
  ASSUME TreeInv, Truthful, NEW n \in Routers, NEW l \in Links, HoldTimeout(n, l)
  PROVE  Truthful'
<1> DEFINE f == HoldForwardingTimeout(entry[n], l)
<1>1. Fits(n) /\ HasEntry(n) /\ Became(n, f, chan, adj) /\ view' = view
  BY DEF TreeInv, HoldTimeout
<1>2. Tells(f, entry[n])
  BY <1>1, TellsExplains, HoldTimeoutTells
<1> HIDE DEF f
<1> QED
  BY <1>1, <1>2, TellsExplains, CallTruth

LEMMA SourceExpiresTruth ==
  ASSUME TreeInv, Truthful, NEW n \in Routers, SourceExpires(n)
  PROVE  Truthful'
<1> DEFINE f == SourceActive(entry[n], FALSE)
<1>1. Fits(n) /\ HasEntry(n) /\ Became(n, f, chan, adj) /\ view' = view
  BY DEF TreeInv, SourceExpires, ExpiryDue
<1>2. Tells(f, entry[n])
  BY <1>1, TellsExplains, SourceTells
<1> HIDE DEF f
<1> QED
  BY <1>1, <1>2, TellsExplains, CallTruth

LEMMA DataArrivesTruth ==
  ASSUME TreeInv, Truthful, NEW n \in Routers, DataArrives(n)
  PROVE  Truthful'
<1> DEFINE f == IF ~HasEntry(n) THEN NewEntry(n, view, adj) ELSE SourceActive(entry[n], TRUE)
<1>1. /\ Fits(n) /\ Became(n, f, chan, adj) /\ view' = view
      /\ TypeInv /\ view \in [Pairs -> Views]
  BY DEF TreeInv, TypeInv, DataArrives
<1>2. f \in Entry /\ \A l \in Links : Explains(f, entry[n], l)
  <2>1. CASE HasEntry(n)
    <3>1. f = SourceActive(entry[n], TRUE)
      BY <2>1
    <3>2. Tells(f, entry[n])
      BY <1>1, <2>1, <3>1, TellsExplains, SourceTells
    <3> HIDE DEF f
    <3> QED
      BY <1>1, <2>1, <3>2, TellsExplains
  <2>2. CASE ~HasEntry(n)
    <3>1. f = NewEntry(n, view, adj)
      BY <2>2
    <3>2. Routers # {} /\ \A l \in Links : StatedBy(entry[n], l) = NoInfo
      BY <2>2 DEF HasEntry, StatedBy
    <3>3. Links = {} => f \in Entry
      <4>1. ASSUME Links = {} PROVE f \in Entry
        <5>1. Route(n).rif = None /\ DataDue(n)
          <6>1. up[n] = {}
            BY <4>1, <1>1 DEF TypeInv, TablesInv
          <6> QED
            BY <6>1 DEF Route, UnicastInfo, DataArrives
        <5> QED
          BY <5>1 DEF DataDue
      <4> QED
        BY <4>1
    <3> HIDE DEF f
    <3> QED
      BY <1>1, <3>1, <3>2, <3>3, NewEntryExplains
  <2> QED
    BY <2>1, <2>2
<1> HIDE DEF f
<1> QED
  BY <1>1, <1>2, CallTruth

LEMMA MembershipChangeTruth ==
  ASSUME TreeInv, Truthful, NEW n \in Routers, NEW l \in Links, MembershipChange(n, l)
  PROVE  Truthful'
<1> DEFINE b == l \in hosts
           f == IF HasEntry(n) THEN NotifyMembership(entry[n], l, b) ELSE NoEntry
<1>1. Fits(n) /\ Became(n, f, chan, adj) /\ view' = view /\ b \in BOOLEAN
  BY DEF TreeInv, MembershipChange
<1>2. f \in Entry \cup {NoEntry} /\ \A i \in Links : Explains(f, entry[n], i)
  <2>1. CASE HasEntry(n)
    <3>1. f = NotifyMembership(entry[n], l, b)
      BY <2>1
    <3> HIDE DEF f, b
    <3>2. Tells(f, entry[n])
      BY <1>1, <2>1, <3>1, TellsExplains, MembershipTells
    <3> QED
      BY <1>1, <2>1, <3>2, TellsExplains
  <2>2. CASE ~HasEntry(n)
    BY <2>2, NobodyExplains DEF HasEntry
  <2> QED
    BY <2>1, <2>2
<1> HIDE DEF f
<1> QED
  BY <1>1, <1>2, CallTruth

LEMMA NotifyUnicastChangesTruth ==
  ASSUME TreeInv, Truthful, NEW n \in Routers, NotifyUnicastChanges(n)
  PROVE  Truthful'
<1> DEFINE rt == Route(n)
           f == IF HasEntry(n) THEN NetworkUpdate(entry[n], rt) ELSE NoEntry
<1>1. Fits(n) /\ Became(n, f, chan, adj) /\ view' = view /\ TablesInv
  BY DEF TreeInv, TypeInv, NotifyUnicastChanges
<1>2. f \in Entry \cup {NoEntry} /\ \A i \in Links : Explains(f, entry[n], i)
  <2>1. CASE HasEntry(n)
    <3>1. f = NetworkUpdate(entry[n], rt)
      BY <2>1
    <3>2. \A l \in Links : Present(entry[n], l) <=> l \in up[n]
      BY <1>1, <2>1 DEF Fits, Fitting, HasEntry
    <3>3. /\ rt.rpc \in Nat /\ rt.direct \in BOOLEAN /\ rt.rif \in Links \cup {None}
          /\ rt.rif # None => rt.rif \in up[n]
      <4>1. route[n] \in Routes[n] /\ up[n] \in SUBSET Links
        BY <1>1 DEF TablesInv
      <4> QED
        BY <4>1, RouteFacts DEF Route
    <3>4. DirectRoute(rt)
      <4>1. route[n] \in Routes[n]
        BY <1>1 DEF TablesInv
      <4>2. route[n].direct => route[n].rif \in SourceLinks \cup {None}
        BY <4>1, RoutesAssumption
      <4> QED
        BY <4>2 DEF DirectRoute, Route, UnicastInfo
    <3> HIDE DEF f, rt
    <3>5. RouteFor(rt, entry[n])
      BY <3>2, <3>3 DEF RouteFor
    <3>6. Tells(f, entry[n])
      BY <1>1, <2>1, <3>1, <3>4, <3>5, TellsExplains, NetworkUpdateTells
    <3> QED
      BY <1>1, <2>1, <3>6, TellsExplains
  <2>2. CASE ~HasEntry(n)
    BY <2>2, NobodyExplains DEF HasEntry
  <2> QED
    BY <2>1, <2>2
<1> HIDE DEF f
<1> QED
  BY <1>1, <1>2, CallTruth

LEMMA RecheckedExplains ==
  ASSUME TypeInv, NEW n \in Routers, Fits(n), NEW i \in Links,
         NEW vw \in [Pairs -> Views], NEW ad, NEW fresh, NEW f, f = Rechecked(n, i, vw, ad, fresh)
  PROVE  f \in Entry \cup {NoEntry} /\ \A l \in Links : Explains(f, entry[n], l)
<1> DEFINE u == UpstreamState(n, i, vw, ad)
           b == InterestState(n, i, vw, ad)
<1>1. u \in AssertMetrics /\ b \in BOOLEAN
  BY UpstreamFacts DEF InterestState
<1>2. f = IF HasEntry(n) THEN CheckInterfaceState(entry[n], i, u, b, fresh)
          ELSE IF u # NoUpstream THEN NewEntry(n, vw, ad) ELSE NoEntry
  BY DEF Rechecked
<1> HIDE DEF u, b
<1>3. CASE HasEntry(n)
  <2>1. Tells(f, entry[n])
    BY <1>1, <1>2, <1>3, TellsExplains, NeighborTells
  <2> QED
    BY <1>3, <2>1, TellsExplains
<1>4. CASE ~HasEntry(n) /\ u # NoUpstream
  <2>1. \A l \in Links : StatedBy(entry[n], l) = NoInfo
    BY <1>4 DEF HasEntry, StatedBy
  <2> QED
    BY <1>2, <1>4, <2>1, NewEntryExplains
<1>5. CASE ~HasEntry(n) /\ u = NoUpstream
  BY <1>2, <1>5, NobodyExplains DEF HasEntry
<1> QED
  BY <1>3, <1>4, <1>5

\* Forgetting the interest of a neighbor says nothing about who is UPSTREAM.
LEMMA ForgetTrusted ==
  ASSUME NEW vw, NEW ch, NEW ad, NEW n, NEW ls, Trusted(vw, ch, ad)
  PROVE  Trusted(Forget(vw, n, ls), ch, ad)
<1>1. ASSUME NEW v, NEW s, v.kind # "IamUpstream", Agrees(v, s) PROVE Agrees(NoInfo, s)
  BY <1>1 DEF Agrees, NoInfo
<1>2. ASSUME NEW p \in Pairs, NEW s, Trusts(p, vw, ch, ad, s)
      PROVE  Trusts(p, Forget(vw, n, ls), ch, ad, s)
  <2>1. \/ Forget(vw, n, ls)[p] = vw[p]
        \/ Forget(vw, n, ls)[p] = NoInfo /\ vw[p].kind # "IamUpstream"
    BY DEF Forget
  <2> QED
    BY <1>1, <1>2, <2>1 DEF Trusts, Word
<1> QED
  BY <1>2 DEF Trusted

LEMMA BecameTruth ==
  ASSUME TypeInv, NEW n \in Routers, NEW f \in Entry \cup {NoEntry},
         NEW ch, Channels(ch), NEW ad, NEW vw \in [Pairs -> Views], Trusted(vw, ch, ad),
         Became(n, f, ch, ad), view' = vw,
         \A p \in Pairs : p.of = n /\ ad[p] # "Down" /\ ad[Mirror(p)] # "Down"
                            => Explains(f, entry[n], p.link)
  PROVE  Truthful'
<1>1. /\ entry' = [entry EXCEPT ![n] = Clean(f)] /\ chan' = Deliver(ch, ad, n, Out(f))
      /\ adj' = ad
  BY DEF Became
<1> QED
  BY <1>1, TruthKept

\* Receiving a message, which drops the older ones.
LEMMA RestWord ==
  ASSUME NEW c \in Seq(Messages), NEW k \in DOMAIN c, NEW v
  PROVE  Word(StoredView(c[k]), SubSeq(c, k + 1, Len(c))) = Word(v, c)
<1> DEFINE N == Len(c)
           r == SubSeq(c, k + 1, N)
<1>1. N \in Nat /\ k \in 1 .. N /\ c # <<>>
  OBVIOUS
<1>2. CASE k = N
  <2>1. r = <<>>
    BY <1>1, <1>2
  <2> QED
    BY <1>1, <1>2, <2>1 DEF Word
<1>3. CASE k # N
  <2>1. k + 1 \in 1 .. N
    BY <1>1, <1>3
  <2>2. Len(r) = N - k /\ N - k > 0 /\ r[N - k] = c[N]
    BY <1>1, <2>1
  <2>3. Len(r) # 0
    BY <1>1, <2>1, <2>2
  <2> HIDE DEF r
  <2>4. r # <<>>
    BY <2>3
  <2>5. Word(StoredView(c[k]), r) = Word(v, c)
    BY <1>1, <2>2, <2>4 DEF Word
  <2> QED
    BY <2>5 DEF r
<1> QED
  BY <1>2, <1>3

LEMMA ReceiveTruth ==
  ASSUME TreeInv, Truthful, NEW p \in Pairs, NEW k \in DOMAIN chan[p], Receive(p, k)
  PROVE  Truthful'
<1> DEFINE m == chan[p][k]
           n == p.at
           vw == [view EXCEPT ![p] = StoredView(m)]
           left == [chan EXCEPT ![p] = SubSeq(@, k + 1, Len(@))]
           e == IF ~(m.kind \in {"Interest", "NoInterest"} /\ view[p].kind # "IamUpstream")
                THEN Rechecked(n, p.link, vw, adj, p.of)
                ELSE IF ~HasEntry(n) THEN NoEntry
                ELSE CheckInterestState(entry[n], p.link, InterestState(n, p.link, vw, adj))
<1>1. /\ TypeInv /\ n \in Routers /\ p.link \in Links /\ Fits(n)
      /\ chan \in [Pairs -> Seq(Messages)] /\ view \in [Pairs -> Views]
      /\ Channels(chan) /\ Trusted(view, chan, adj)
  BY PairTypes DEF TreeInv, TypeInv, Channels, Truthful
<1>2. /\ Became(n, e, left, adj)
      /\ view' = IF e = NoEntry THEN Forget(vw, n, {p.link}) ELSE vw
  BY DEF Receive
<1>3. m \in Messages
  BY <1>1
<1>4. vw \in [Pairs -> Views] /\ Channels(left)
  BY <1>1, <1>3, StoredViewTypes, RestTypes
<1>5. Word(vw[p], left[p]) = Word(view[p], chan[p])
  <2>1. chan[p] \in Seq(Messages) /\ vw[p] = StoredView(chan[p][k])
        /\ left[p] = SubSeq(chan[p], k + 1, Len(chan[p]))
    BY <1>1
  <2> QED
    BY <2>1, RestWord
<1>6. \A q \in Pairs : q # p => vw[q] = view[q] /\ left[q] = chan[q]
  BY <1>1
<1>7. e \in Entry \cup {NoEntry} /\ \A l \in Links : Explains(e, entry[n], l)
  <2> DEFINE b == InterestState(n, p.link, vw, adj)
  <2>1. CASE ~(m.kind \in {"Interest", "NoInterest"} /\ view[p].kind # "IamUpstream")
    <3>1. e = Rechecked(n, p.link, vw, adj, p.of)
      BY <2>1
    <3> HIDE DEF e, vw
    <3> QED
      BY <1>1, <1>4, <3>1, RecheckedExplains
  <2>2. CASE m.kind \in {"Interest", "NoInterest"} /\ view[p].kind # "IamUpstream" /\ ~HasEntry(n)
    BY <2>2, NobodyExplains DEF HasEntry
  <2>3. CASE m.kind \in {"Interest", "NoInterest"} /\ view[p].kind # "IamUpstream" /\ HasEntry(n)
    <3>1. e = CheckInterestState(entry[n], p.link, b) /\ b \in BOOLEAN
      BY <2>3 DEF InterestState
    <3> HIDE DEF e, vw, b
    <3>2. Tells(e, entry[n])
      BY <1>1, <2>3, <3>1, TellsExplains, InterestTells
    <3> QED
      BY <1>1, <2>3, <3>2, TellsExplains
  <2> QED
    BY <2>1, <2>2, <2>3
<1> HIDE DEF e, vw, left
<1>8. Trusted(vw, left, adj)
  <2>1. \A q \in Pairs : Word(vw[q], left[q]) = Word(view[q], chan[q])
    BY <1>5, <1>6
  <2> QED
    BY <1>1, <2>1 DEF Trusted, Trusts
<1>9. Trusted(view', left, adj) /\ view' \in [Pairs -> Views]
  BY <1>1, <1>2, <1>4, <1>8, ForgetTrusted, ForgetTypes
<1>10. \A q \in Pairs : q.of = n /\ adj[q] # "Down" /\ adj[Mirror(q)] # "Down"
                          => Explains(e, entry[n], q.link)
  BY <1>7, PairTypes
<1> DEFINE vv == view'
<1>11. vv \in [Pairs -> Views] /\ Trusted(vv, left, adj) /\ view' = vv
  BY <1>9
<1>12. TypeInv /\ n \in Routers /\ Channels(left) /\ Became(n, e, left, adj)
  BY <1>1, <1>2, <1>4
<1>13. e \in Entry \cup {NoEntry}
  BY <1>7
<1> HIDE DEF vv, n, m
<1> QED
  BY <1>10, <1>11, <1>12, <1>13, BecameTruth

\* Nothing of the routers changes.
LEMMA NothingTruth ==
  ASSUME Truthful, UNCHANGED <<entry, view, adj, chan>>
  PROVE  Truthful'
BY DEF Truthful, Trusted, Trusts

LEMMA ResyncTruth ==
  ASSUME TreeInv, Truthful, NEW p \in Pairs, Resync(p)
  PROVE  Truthful'
<1> DEFINE q == Mirror(p)
<1>1. /\ view \in [Pairs -> Views] /\ adj \in [Pairs -> AdjStates]
      /\ chan \in [Pairs -> Seq(Messages)]
      /\ q \in Pairs /\ q.at = p.of /\ q.of = p.at /\ q.link = p.link /\ q # p
  BY PairTypes DEF TreeInv, TypeInv, Channels
<1>2. entry' = entry
  BY DEF Resync
<1>3. \A n, l : SyncState(n, l) = StatedBy(entry[n], l)
  BY DEF SyncState, StatedBy, Stated, HasEntry, Upstream
<1> HIDE DEF q
<1>4. /\ view'[p] = StatedBy(entry[p.of], p.link) /\ view'[q] = StatedBy(entry[q.of], q.link)
      /\ chan'[p] = <<>> /\ chan'[q] = <<>>
  BY <1>1, <1>3 DEF Resync, q
<1>5. \A r \in Pairs : r # p /\ r # q =>
        view'[r] = view[r] /\ chan'[r] = chan[r] /\ adj'[r] = adj[r]
  BY <1>1 DEF Resync, q
<1>6. \A r \in Pairs : r # p /\ r # q => Mirror(r) \in Pairs /\ Mirror(r) # p /\ Mirror(r) # q
  BY <1>1, PairTypes DEF q
<1> SUFFICES ASSUME NEW r \in Pairs
             PROVE  Trusts(r, view', chan', adj', StatedBy(entry[r.of], r.link))
  BY <1>2 DEF Truthful, Trusted
<1>7. CASE r = p \/ r = q
  BY <1>4, <1>7 DEF Trusts, Word, Agrees
<1>8. CASE r # p /\ r # q
  <2>1. Trusts(r, view, chan, adj, StatedBy(entry[r.of], r.link))
    BY DEF Truthful, Trusted
  <2> QED
    BY <1>5, <1>6, <1>8, <2>1 DEF Trusts
<1> QED
  BY <1>7, <1>8

LEMMA SyncedTruth ==
  ASSUME TreeInv, Truthful, NEW p \in Pairs, Synced(p)
  PROVE  Truthful'
<1> DEFINE n == p.at
           ad == [adj EXCEPT ![p] = "Synced"]
           f == Rechecked(n, p.link, view, ad, p.of)
<1>1. /\ TypeInv /\ n \in Routers /\ p.link \in Links /\ Fits(n)
      /\ adj \in [Pairs -> AdjStates] /\ view \in [Pairs -> Views]
      /\ Channels(chan) /\ Trusted(view, chan, adj)
  BY PairTypes DEF TreeInv, TypeInv, Truthful
<1>2. adj[p] = "Syncing" /\ Became(n, f, chan, ad) /\ view' = view
  BY DEF Synced
<1>3. \A q \in Pairs : ad[q] = "Down" <=> adj[q] = "Down"
  BY <1>1, <1>2
<1> HIDE DEF ad
<1>4. f \in Entry \cup {NoEntry} /\ \A l \in Links : Explains(f, entry[n], l)
  BY <1>1, RecheckedExplains
<1> HIDE DEF f
<1>5. Trusted(view, chan, ad)
  BY <1>1, <1>3, PairTypes DEF Trusted, Trusts
<1>6. \A q \in Pairs : q.of = n => Explains(f, entry[n], q.link)
  BY <1>4, PairTypes
<1> HIDE DEF n
<1> QED
  BY <1>1, <1>2, <1>4, <1>5, <1>6, BecameTruth

LEMMA RemoveNeighborTruth ==
  ASSUME TreeInv, Truthful, NEW p \in Pairs, RemoveNeighbor(p)
  PROVE  Truthful'
<1> DEFINE n == p.at
           ad == [adj EXCEPT ![p] = "Down"]
           vw == [view EXCEPT ![p] = NoInfo]
           ch == [chan EXCEPT ![p] = <<>>, ![Mirror(p)] = <<>>]
           f == Rechecked(n, p.link, vw, ad, None)
<1>1. /\ TypeInv /\ n \in Routers /\ p.link \in Links /\ Fits(n)
      /\ adj \in [Pairs -> AdjStates] /\ view \in [Pairs -> Views]
      /\ chan \in [Pairs -> Seq(Messages)] /\ Channels(chan) /\ Trusted(view, chan, adj)
  BY PairTypes DEF TreeInv, TypeInv, Truthful, Channels
<1>2. Became(n, f, ch, ad) /\ view' = vw
  BY DEF RemoveNeighbor
<1>3. NoInfo \in Views
  BY DEF NoInfo, Views
<1>4. vw \in [Pairs -> Views] /\ Channels(ch) /\ ad[p] = "Down"
  BY <1>1, <1>3, EmptyTypes
<1>5. \A q \in Pairs : q # p => vw[q] = view[q] /\ ad[q] = adj[q] /\ (q # Mirror(p) => ch[q] = chan[q])
  BY <1>1
<1> HIDE DEF ad, vw, ch
<1>6. f \in Entry \cup {NoEntry} /\ \A l \in Links : Explains(f, entry[n], l)
  BY <1>1, <1>4, RecheckedExplains
<1> HIDE DEF f
<1>7. Trusted(vw, ch, ad)
  <2> SUFFICES ASSUME NEW q \in Pairs, ad[q] # "Down", ad[Mirror(q)] # "Down", NEW s,
                      Trusts(q, view, chan, adj, s)
               PROVE  Agrees(Word(vw[q], ch[q]), s)
    BY <1>1 DEF Trusted, Trusts
  <2>1. q # p /\ Mirror(q) # p
    BY <1>4
  <2>2. q # Mirror(p) /\ Mirror(q) \in Pairs
    BY <2>1, PairTypes
  <2>3. /\ vw[q] = view[q] /\ ch[q] = chan[q]
        /\ adj[q] = ad[q] /\ adj[Mirror(q)] = ad[Mirror(q)]
    BY <1>5, <2>1, <2>2
  <2> QED
    BY <2>3 DEF Trusts
<1>8. \A q \in Pairs : q.of = n => Explains(f, entry[n], q.link)
  BY <1>6, PairTypes
<1> HIDE DEF n
<1> QED
  BY <1>1, <1>2, <1>4, <1>6, <1>7, <1>8, BecameTruth

LEMMA InterfaceDownTruth ==
  ASSUME TreeInv, Truthful, NEW n \in Routers, NEW l \in Links, InterfaceDown(n, l)
  PROVE  Truthful'
<1> DEFINE mine == NeighborsOf[n][l]
           ad == [p \in Pairs |-> IF p \in mine THEN "Down" ELSE adj[p]]
           vw == [p \in Pairs |-> IF p \in mine THEN NoInfo ELSE view[p]]
           ch == [p \in Pairs |-> IF p \in mine \/ Mirror(p) \in mine THEN <<>> ELSE chan[p]]
           f == IF HasEntry(n) THEN RemoveInterface(entry[n], l) ELSE NoEntry
<1>1. /\ TypeInv /\ TablesInv /\ Fits(n) /\ l \in up[n]
      /\ adj \in [Pairs -> AdjStates] /\ view \in [Pairs -> Views]
      /\ chan \in [Pairs -> Seq(Messages)] /\ Channels(chan) /\ Trusted(view, chan, adj)
  BY DEF TreeInv, TypeInv, Truthful, Channels, InterfaceDown
<1>2. Became(n, f, ch, ad) /\ view' = vw
  BY DEF InterfaceDown
<1>3. mine = {p \in Pairs : p.link = l /\ p.at = n}
  BY NeighborTypes
<1>4. vw \in [Pairs -> Views] /\ Channels(ch)
  <2>1. NoInfo \in Views
    BY DEF NoInfo, Views
  <2>2. <<>> \in Seq(Messages) /\ Len(<<>>) <= MaxInFlight
    BY EventsAssumption
  <2> HIDE DEF mine
  <2> QED
    BY <1>1, <2>1, <2>2 DEF Channels
<1>5. \A p \in Pairs : /\ ad[p] = IF p \in mine THEN "Down" ELSE adj[p]
                       /\ p \notin mine => vw[p] = view[p]
                       /\ p \notin mine /\ Mirror(p) \notin mine => ch[p] = chan[p]
  OBVIOUS
<1> HIDE DEF mine, ad, vw, ch
<1>6. f \in Entry \cup {NoEntry} /\ \A i \in Links : i # l => Explains(f, entry[n], i)
  <2>1. CASE HasEntry(n)
    <3>1. f = RemoveInterface(entry[n], l)
      BY <2>1
    <3>2. Whole(entry[n]) /\ entry[n] \in Entry /\ Present(entry[n], l)
      BY <1>1, <2>1 DEF Fits, Fitting, HasEntry, Whole
    <3> HIDE DEF f
    <3>3. FaithfulBut(f, entry[n], l)
      BY <3>1, <3>2, RemoveInterfaceTells
    <3>4. f \in Entry
      BY <3>1, <3>2, InterfaceIsRemoved DEF InterfaceRemoved, Whole
    <3> QED
      BY <1>1, <2>1, <3>3, <3>4, TellsExplains DEF FaithfulBut
  <2>2. CASE ~HasEntry(n)
    BY <2>2, NobodyExplains DEF HasEntry
  <2> QED
    BY <2>1, <2>2
<1> HIDE DEF f
<1>7. Trusted(vw, ch, ad)
  <2> SUFFICES ASSUME NEW q \in Pairs, ad[q] # "Down", ad[Mirror(q)] # "Down", NEW s,
                      Trusts(q, view, chan, adj, s)
               PROVE  Agrees(Word(vw[q], ch[q]), s)
    BY <1>1 DEF Trusted, Trusts
  <2>1. Mirror(q) \in Pairs
    BY PairTypes
  <2>2. q \notin mine /\ Mirror(q) \notin mine
    BY <1>5, <2>1
  <2>3. /\ vw[q] = view[q] /\ ch[q] = chan[q]
        /\ adj[q] = ad[q] /\ adj[Mirror(q)] = ad[Mirror(q)]
    BY <1>5, <2>1, <2>2
  <2> QED
    BY <2>3 DEF Trusts
<1>8. \A q \in Pairs : q.of = n /\ ad[q] # "Down" /\ ad[Mirror(q)] # "Down"
                         => Explains(f, entry[n], q.link)
  <2> SUFFICES ASSUME NEW q \in Pairs, q.of = n, ad[Mirror(q)] # "Down"
               PROVE  Explains(f, entry[n], q.link)
    OBVIOUS
  <2>1. Mirror(q) \in Pairs /\ Mirror(q).at = n /\ Mirror(q).link = q.link /\ q.link \in Links
    BY PairTypes
  <2>2. q.link # l
    BY <1>3, <1>5, <2>1
  <2> QED
    BY <1>6, <2>1, <2>2
<1>9. TypeInv /\ f \in Entry \cup {NoEntry}
  BY <1>1, <1>6
<1> QED
  BY <1>2, <1>4, <1>7, <1>8, <1>9, BecameTruth

LEMMA InterfaceUpTruth ==
  ASSUME TreeInv, Truthful, NEW n \in Routers, NEW l \in Links, InterfaceUp(n, l)
  PROVE  Truthful'
<1> DEFINE rt == UnicastInfo(n, route[n], up'[n])
           f == IF HasEntry(n) THEN AddedInterface(entry[n], l, rt) ELSE NoEntry
<1>1. /\ TypeInv /\ TablesInv /\ Fits(n) /\ l \in AttachedTo(n) /\ l \notin up[n]
      /\ \A p \in Pairs : p.link = l /\ n \in {p.at, p.of} => adj[p] = "Down"
      /\ view \in [Pairs -> Views] /\ Channels(chan) /\ Trusted(view, chan, adj)
  BY DEF TreeInv, TypeInv, Truthful, InterfaceUp
<1>2. Became(n, f, chan, adj) /\ view' = view
  BY DEF InterfaceUp, AddedInterface
<1>3. f \in Entry \cup {NoEntry} /\ \A i \in Links : i # l => Explains(f, entry[n], i)
  <2>1. CASE HasEntry(n)
    <3>1. f = AddedInterface(entry[n], l, rt)
      BY <2>1
    <3>2. Whole(entry[n]) /\ entry[n] \in Entry /\ entry[n].router = n /\ ~Present(entry[n], l)
      BY <1>1, <2>1 DEF Fits, Fitting, HasEntry, Whole
    <3>3. \E k \in 1 .. Len(Vifs[entry[n].router]) : Vifs[entry[n].router][k] = l
      BY <1>1, <3>2, AttachedIsVif
    <3> HIDE DEF f, rt
    <3>4. FaithfulBut(f, entry[n], l)
      BY <3>1, <3>2, NewInterfaceTells
    <3>5. f \in Entry
      BY <3>1, <3>2, <3>3, InterfaceIsAdded DEF InterfaceAdded, Whole
    <3> QED
      BY <1>1, <2>1, <3>4, <3>5, TellsExplains DEF FaithfulBut
  <2>2. CASE ~HasEntry(n)
    BY <2>2, NobodyExplains DEF HasEntry
  <2> QED
    BY <2>1, <2>2
<1> HIDE DEF f
<1>4. \A q \in Pairs : q.of = n /\ adj[q] # "Down" /\ adj[Mirror(q)] # "Down"
                         => Explains(f, entry[n], q.link)
  BY <1>1, <1>3, PairTypes
<1> QED
  BY <1>1, <1>2, <1>3, <1>4, BecameTruth

LEMMA RemoveTreeTruth ==
  ASSUME TreeInv, Truthful, NEW n \in Routers, RemoveTree(n), ~IsActive(n)
  PROVE  Truthful'
<1> DEFINE known == \E p \in Pairs : p.at = n /\ adj[p] = "Synced" /\ view[p].kind = "IamUpstream"
           f == IF HasEntry(n) /\ known THEN NewEntry(n, view, adj) ELSE NoEntry
           vw == IF HasEntry(n) /\ ~known THEN Forget(view, n, Links) ELSE view
<1>1. /\ TypeInv /\ Fits(n) /\ view \in [Pairs -> Views] /\ Channels(chan)
      /\ Trusted(view, chan, adj)
  BY DEF TreeInv, TypeInv, Truthful
<1>2. /\ view' = vw /\ entry' = [entry EXCEPT ![n] = Clean(f)]
      /\ chan' = Deliver(chan, adj, n, Out(f)) /\ adj' = adj
  BY DEF RemoveTree
<1>3. \A l \in Links : StatedBy(entry[n], l) = NoInfo
  <2>1. CASE HasEntry(n)
    <3>1. Alike(entry[n]) /\ entry[n].tree # "Active"
      BY <1>1, <2>1 DEF Fits, Fitting, HasEntry, Whole, IsActive
    <3> QED
      BY <2>1, <3>1, NothingStated DEF StatedBy, HasEntry
  <2>2. CASE ~HasEntry(n)
    BY <2>2 DEF StatedBy, HasEntry
  <2> QED
    BY <2>1, <2>2
<1>4. f \in Entry \cup {NoEntry} /\ \A l \in Links : Explains(f, entry[n], l)
  <2>1. CASE HasEntry(n) /\ known
    <3>1. f = NewEntry(n, view, adj) /\ \E l \in Links : TRUE
      BY <2>1, PairTypes
    <3> HIDE DEF f
    <3> QED
      BY <1>1, <1>3, <3>1, NewEntryExplains
  <2>2. CASE ~(HasEntry(n) /\ known)
    BY <1>3, <2>2, SilenceExplains
  <2> QED
    BY <2>1, <2>2
<1> HIDE DEF f
<1>5. vw \in [Pairs -> Views] /\ Trusted(vw, chan, adj)
  BY <1>1, ForgetTrusted, ForgetTypes
<1> HIDE DEF vw
<1>6. \A q \in Pairs : q.of = n => Explains(f, entry[n], q.link)
  BY <1>4, PairTypes
<1> QED
  BY <1>1, <1>2, <1>4, <1>5, <1>6, TruthKept

LEMMA NextTruth ==
  ASSUME TreeInv, Truthful,
         (Next /\ \A n \in Routers : RemoveTree(n) => ~IsActive(n)) \/ UNCHANGED vars
  PROVE  Truthful'
<1>1. CASE UNCHANGED vars
  BY <1>1, NothingTruth DEF vars
<1>2. ASSUME Next, \A n \in Routers : RemoveTree(n) => ~IsActive(n)
      PROVE  Truthful'
  <2>1. ASSUME NEW p \in Pairs, Discover(p) \/ AdjacencyReset(p) PROVE Truthful'
    <3>1. Resync(p)
      BY <2>1 DEF Discover, AdjacencyReset
    <3> QED
      BY <3>1, ResyncTruth
  <2>2. ASSUME NEW p \in Pairs, NeighborGone(p) \/ NeighborFails(p) PROVE Truthful'
    <3>1. RemoveNeighbor(p)
      BY <2>2 DEF NeighborGone, NeighborFails
    <3> QED
      BY <3>1, RemoveNeighborTruth
  <2>3. ASSUME NEW p \in Pairs, NEW k \in DOMAIN chan[p], Receive(p, k) PROVE Truthful'
    BY <2>3, ReceiveTruth
  <2>4. ASSUME NEW p \in Pairs, Synced(p) PROVE Truthful'
    BY <2>4, SyncedTruth
  <2>5. ASSUME NEW n \in Routers,
               DataArrives(n) \/ SourceExpires(n) \/ NotifyUnicastChanges(n) \/ RemoveTree(n)
        PROVE  Truthful'
    BY <1>2, <2>5, DataArrivesTruth, SourceExpiresTruth, NotifyUnicastChangesTruth, RemoveTreeTruth
  <2>6. ASSUME NEW n \in Routers, NEW l \in Links,
               HoldTimeout(n, l) \/ InterfaceUp(n, l) \/ MembershipChange(n, l) \/ InterfaceDown(n, l)
        PROVE  Truthful'
    BY <2>6, HoldTimeoutTruth, InterfaceUpTruth, MembershipChangeTruth, InterfaceDownTruth
  <2>7. CASE SourceChanges \/ \E l \in HostLinks : MembersChange(l)
    BY <2>7, NothingTruth DEF SourceChanges, MembersChange
  <2>8. ASSUME NEW n \in Routers, NEW r \in Routes[n], UnicastChange(n, r) PROVE Truthful'
    BY <2>8, NothingTruth DEF UnicastChange
  <2>9. CASE Step
    BY <2>1, <2>2, <2>3, <2>4, <2>5, <2>6, <2>9 DEF Step
  <2>10. CASE Environment
    BY <2>1, <2>2, <2>6, <2>7, <2>8, <2>10 DEF Environment
  <2> QED
    BY <1>2, <2>9, <2>10 DEF Next
<1> QED
  BY <1>1, <1>2

\* No thread of removal finds the tree Active again: what it finds, it removes
\* without a word to the neighbors (_remove_multicast_route).
NoRevival == [][\A n \in Routers : RemoveTree(n) => ~IsActive(n)]_vars

LEMMA TruthInvariant == Spec /\ NoRevival => [](TreeInv /\ Truthful)
<1>1. Init => Truthful
  <2> SUFFICES ASSUME Init, NEW p \in Pairs
               PROVE  Trusts(p, view, chan, adj, StatedBy(entry[p.of], p.link))
    BY DEF Truthful, Trusted
  <2>1. view[p] = NoInfo /\ chan[p] = <<>> /\ entry[p.of] = NoEntry
    BY PairTypes DEF Init
  <2> QED
    BY <2>1 DEF Trusts, Word, Agrees, StatedBy
<1>2. TreeInv /\ Truthful /\ [Next]_vars /\ [\A n \in Routers : RemoveTree(n) => ~IsActive(n)]_vars
        => Truthful'
  BY NextTruth
<1> QED
  BY <1>1, <1>2, TreeInvariant, PTL DEF Spec, NoRevival

\* At rest what is stored is what is stated.
TrueAt(p) == /\ adj[p] = "Synced" /\ Agrees(view[p], StatedBy(entry[p.of], p.link))
             /\ StatedBy(entry[p.of], p.link) = SyncState(p.of, p.link)

LEMMA TruthAtRest ==
  ASSUME TreeInv, Truthful, AtRest, NEW p \in Pairs
  PROVE  TrueAt(p)
<1>1. /\ Mirror(p) \in Pairs /\ p.at \in Routers /\ p.of \in Routers
      /\ BothUp(p) /\ BothUp(Mirror(p))
  <2>1. /\ p.link \in AttachedTo(p.at) \cap AttachedTo(p.of) /\ Mirror(p) \in Pairs
        /\ Mirror(p).at = p.of /\ Mirror(p).of = p.at /\ Mirror(p).link = p.link
        /\ p.at \in Routers /\ p.of \in Routers
    BY PairTypes DEF Pairs
  <2> QED
    BY <2>1 DEF BothUp, AtRest
<1>2. chan[p] = <<>> /\ adj[p] = "Synced" /\ adj[Mirror(p)] = "Synced"
  BY <1>1 DEF AtRest
<1>3. StatedBy(entry[p.of], p.link) = SyncState(p.of, p.link)
  BY DEF SyncState, StatedBy, Stated, HasEntry, Upstream
<1> QED
  BY <1>2, <1>3 DEF Truthful, Trusted, Trusts, Word, TrueAt

\* At rest what a router stores of a neighbor that is UPSTREAM, or that it believes to
\* be, is what that neighbor states, whatever messages were lost or overtaken by
\* newer ones and whatever links, neighbors, routes and interfaces came and went:
\* unless a tree that had become Active again was removed, which nobody announces.
THEOREM ViewsStayTrue == Spec /\ NoRevival => []ViewsAreTrue
<1>1. TreeInv /\ Truthful => ViewsAreTrue
  BY TruthAtRest DEF ViewsAreTrue, TrueAt, Agrees
<1> QED
  BY <1>1, TruthInvariant, PTL

-----------------------------------------------------------------------------
(* Who forwards to a link *)

\* m is UPSTREAM on l, where it is one of the candidates for the AssertWinner.
Candidate(m, l) == HasEntry(m) /\ Stated(entry[m], l) # NoInfo
Offer(m, l) == [ip |-> m, metric |-> entry[m].ifs[l].rpc]

\* Facts about the entry of n at rest.
Rested(n, l) ==
  /\ entry[n] \in Entry /\ entry[n].router = n /\ entry[n].local = members[n]
  /\ entry[n].tree \in {"Active", "Unsure"} /\ InState(entry[n], l, entry[n].tree)
  /\ Elected(entry[n], l) /\ ~entry[n].ifs[l].hold
  /\ Present(entry[n], l) <=> l \in AttachedTo(n)
  /\ l \in AttachedTo(n) => entry[n].ups[l] = UpstreamState(n, l, view, adj)

LEMMA EntryAtRest ==
  ASSUME TreeInv, AtRest, NEW n \in Routers, HasEntry(n), NEW l \in Links
  PROVE  Rested(n, l)
<1>1. /\ Whole(entry[n]) /\ entry[n].router = n /\ entry[n].local = members[n]
      /\ entry[n].tree # "Inactive" /\ (Present(entry[n], l) <=> l \in up[n])
      /\ up[n] = AttachedTo(n) /\ ~entry[n].ifs[l].hold /\ removing[n] = 0
  BY DEF TreeInv, Fits, Fitting, HasEntry, AtRest
<1>2. entry[n] \in Entry /\ entry[n].tree \in {"Active", "Unsure"}
  BY <1>1, EntryTypes DEF Whole, TreeStates
<1>3. InState(entry[n], l, entry[n].tree) /\ Elected(entry[n], l)
  BY <1>1 DEF Whole, AllElected, Alike, AlikeAt
<1>4. \A p \in NeighborsOf[n][l] : adj[p] # "Syncing"
  BY NeighborTypes DEF AtRest
<1>5. entry[n].ups[l] = UpstreamState(n, l, view, adj)
  BY <1>1, <1>4 DEF TreeInv, Sees, Seeing, HasEntry
<1> QED
  BY <1>1, <1>2, <1>3, <1>5 DEF Rested

\* The AssertMetric of the neighbors is the best offer of the others.
LEMMA BestOffer ==
  ASSUME TreeInv, Truthful, AtRest, NEW n \in Routers, HasEntry(n), NEW l \in AttachedTo(n)
  PROVE  /\ entry[n].ups[l] # NoUpstream =>
              \E m \in Routers : m # n /\ Candidate(m, l) /\ entry[n].ups[l] = Offer(m, l)
         /\ \A m \in Routers : m # n /\ Candidate(m, l) =>
              /\ entry[n].ups[l] # NoUpstream
              /\ entry[n].ups[l] = Offer(m, l) \/ IsBetterThan(entry[n].ups[l], Offer(m, l))
<1> DEFINE u == UpstreamState(n, l, view, adj)
<1>1. l \in Links /\ view \in [Pairs -> Views]
  BY AttachedIsVif DEF TreeInv, TypeInv
<1>2. entry[n].ups[l] = u
  BY <1>1, EntryAtRest DEF Rested
<1>3. /\ u # NoUpstream <=> \E p \in Read(n, l, adj) : IsUp(p, view)
      /\ u # NoUpstream => \E p \in Read(n, l, adj) : /\ IsUp(p, view) /\ u = Metric(p, view)
                                                      /\ \A q \in Read(n, l, adj) : IsUp(q, view) /\ q # p
                                                           => IsBetterThan(u, Metric(q, view))
  BY <1>1, UpstreamFacts
<1> HIDE DEF u
<1>4. ASSUME NEW p \in Read(n, l, adj), IsUp(p, view)
      PROVE  p.of \in Routers /\ p.of # n /\ Candidate(p.of, l) /\ Metric(p, view) = Offer(p.of, l)
  <2>1. p \in Pairs /\ p.link = l /\ p.at = n /\ p.of \in Routers /\ p.of # n
    BY <1>1, NeighborTypes, PairTypes DEF Read
  <2>2. view[p] = StatedBy(entry[p.of], l) /\ view[p].kind = "IamUpstream"
    BY <1>4, <2>1, TruthAtRest DEF TrueAt, Agrees, IsUp
  <2>3. HasEntry(p.of) /\ view[p] = Stated(entry[p.of], l) /\ Stated(entry[p.of], l) # NoInfo
    BY <2>2 DEF StatedBy, NoInfo, HasEntry
  <2>4. view[p].metric = entry[p.of].ifs[l].rpc
    BY <2>3 DEF Stated, Upstream
  <2> QED
    BY <2>1, <2>3, <2>4 DEF Candidate, Metric, Offer
<1>5. ASSUME NEW m \in Routers, m # n, Candidate(m, l)
      PROVE  \E p \in Read(n, l, adj) : IsUp(p, view) /\ p.of = m
  <2> DEFINE p == Pair(l, n, m)
  <2>1. l \in AttachedTo(m)
    <3>1. Present(entry[m], l)
      BY <1>5 DEF Candidate, Stated, Present
    <3> QED
      BY <1>1, <1>5, <3>1, EntryAtRest DEF Candidate, Rested
  <2>2. p \in Pairs /\ p.link = l /\ p.at = n /\ p.of = m
    BY <1>1, <1>5, <2>1 DEF Pairs, Pair
  <2> HIDE DEF p
  <2>3. TrueAt(p)
    BY <2>2, TruthAtRest
  <2>4. StatedBy(entry[m], l) = Stated(entry[m], l) /\ Stated(entry[m], l).kind = "IamUpstream"
    BY <1>5 DEF Candidate, StatedBy, HasEntry, Stated, Upstream
  <2>5. IsUp(p, view)
    BY <2>2, <2>3, <2>4 DEF TrueAt, Agrees, IsUp
  <2>6. p \in Read(n, l, adj)
    BY <1>1, <2>2, <2>3, NeighborTypes DEF Read, TrueAt
  <2> QED
    BY <2>2, <2>5, <2>6
<1>6. ASSUME u # NoUpstream
      PROVE  \E m \in Routers : m # n /\ Candidate(m, l) /\ u = Offer(m, l)
  BY <1>3, <1>4, <1>6
<1>7. ASSUME NEW m \in Routers, m # n, Candidate(m, l)
      PROVE  u # NoUpstream /\ (u = Offer(m, l) \/ IsBetterThan(u, Offer(m, l)))
  <2>1. PICK q \in Read(n, l, adj) : IsUp(q, view) /\ q.of = m
    BY <1>5, <1>7
  <2>2. u # NoUpstream /\ Metric(q, view) = Offer(m, l)
    BY <1>3, <1>4, <2>1
  <2> QED
    BY <1>3, <2>1, <2>2
<1> QED
  BY <1>2, <1>6, <1>7

LEMMA ForwardingAtRest ==
  ASSUME TreeInv, AtRest, NEW n \in Routers, NEW l \in Links, HasEntry(n)
  PROVE  /\ Forwards(n, l) => /\ l \in AttachedTo(n) /\ WinsAssert(entry[n], l)
                              /\ entry[n].ifs[l].tree = entry[n].tree
                              /\ Candidate(n, l) <=> IsActive(n)
         /\ Candidate(n, l) /\ WinsAssert(entry[n], l) /\ l \in members[n] => Forwards(n, l)
         /\ Candidate(n, l) => /\ l \in AttachedTo(n) /\ l \notin SourceLinks
                               /\ entry[n].ifs[l].tree = "Active" /\ entry[n].ifs[l].rpc \in Nat
<1>1. Rested(n, l)
  BY EntryAtRest
<1>2. entry[n].ifs[l].rpc \in Nat
  BY <1>1, EntryTypes DEF Rested, Interface
<1>3. Candidate(n, l) => /\ l \in AttachedTo(n) /\ l \notin SourceLinks
                         /\ entry[n].ifs[l].tree = "Active" /\ entry[n].ifs[l].role = "NonRoot"
  BY <1>1 DEF Candidate, Stated, Rested, Present
<1>4. ASSUME Candidate(n, l), WinsAssert(entry[n], l), l \in members[n] PROVE Forwards(n, l)
  BY <1>1, <1>3, <1>4 DEF Forwards, Forwarding, Rested, Elected
<1>5. ASSUME Forwards(n, l)
      PROVE  /\ l \in AttachedTo(n) /\ WinsAssert(entry[n], l)
             /\ entry[n].ifs[l].tree = entry[n].tree
             /\ Candidate(n, l) <=> IsActive(n)
  <2>1. /\ entry[n].ifs[l].role = "NonRoot" /\ entry[n].ifs[l].winner /\ l \notin SourceLinks
    BY <1>1, <1>5 DEF Forwards, Forwarding, Rested
  <2>2. l \in AttachedTo(n) /\ WinsAssert(entry[n], l) /\ entry[n].ifs[l].tree = entry[n].tree
    BY <1>1, <2>1 DEF Rested, Elected, InState, Present
  <2> QED
    BY <2>1, <2>2 DEF Candidate, IsActive, Stated, Upstream, NoInfo
<1> QED
  BY <1>2, <1>3, <1>4, <1>5

LEMMA WinnerBeats ==
  ASSUME TreeInv, Truthful, AtRest, NEW l \in Links, NEW m \in Routers, NEW n \in Routers, m # n,
         Forwards(n, l), Candidate(m, l)
  PROVE  IsActive(n) /\ IsBetterThan(Offer(n, l), Offer(m, l))
<1>1. /\ HasEntry(n) /\ l \in AttachedTo(n) /\ WinsAssert(entry[n], l)
      /\ entry[n].ifs[l].tree = entry[n].tree /\ (Candidate(n, l) <=> IsActive(n))
  BY ForwardingAtRest DEF Forwards
<1>2. /\ entry[n].ups[l] # NoUpstream
      /\ entry[n].ups[l] = Offer(m, l) \/ IsBetterThan(entry[n].ups[l], Offer(m, l))
  BY <1>1, BestOffer
<1>3. Rested(n, l)
  BY <1>1, EntryAtRest
<1>4. entry[n].tree = "Active" /\ IsBetterThan(Offer(n, l), entry[n].ups[l])
  BY <1>1, <1>2, <1>3 DEF WinsAssert, Rested, Offer
<1>5. HasEntry(m) /\ Offer(m, l).metric \in Nat /\ Offer(m, l).ip \in Nat
  <2>1. HasEntry(m) /\ m \in Nat
    BY TopologyAssumption DEF Candidate
  <2> QED
    BY <2>1, ForwardingAtRest DEF Offer
<1>6. Offer(n, l).metric \in Nat /\ Offer(n, l).ip \in Nat
  <2>1. n \in Nat /\ Candidate(n, l)
    BY <1>1, <1>4, TopologyAssumption DEF IsActive
  <2> QED
    BY <1>1, <2>1, ForwardingAtRest DEF Offer
<1>7. entry[n].ups[l].metric \in Nat /\ entry[n].ups[l].ip \in Nat
  <2>1. entry[n].ups[l] \in AssertMetrics
    BY <1>3, EntryTypes DEF Rested
  <2> QED
    BY <1>2, <2>1, TopologyAssumption DEF AssertMetrics
<1>8. IsBetterThan(Offer(n, l), Offer(m, l))
  BY <1>2, <1>4, <1>5, <1>6, <1>7 DEF IsBetterThan
<1> QED
  BY <1>1, <1>4, <1>8 DEF IsActive

\* At rest the only router that forwards to a link is the one that does it from an
\* Active tree: two routers of the link cannot both win the election, because each
\* knows the RPC that the other one announced (calculate_assert_winner).
THEOREM OneRouterForwards == Spec /\ NoRevival => []OneForwarder
<1>1. ASSUME TreeInv, Truthful, AtRest, NEW l \in Links, NEW m \in Routers, NEW n \in Routers,
             m # n, Forwards(m, l), Forwards(n, l), IsActive(m)
      PROVE  FALSE
  <2>1. Candidate(m, l)
    BY <1>1, ForwardingAtRest DEF Forwards
  <2>2. IsActive(n) /\ IsBetterThan(Offer(n, l), Offer(m, l))
    BY <1>1, <2>1, WinnerBeats
  <2>3. Candidate(n, l)
    BY <1>1, <2>2, ForwardingAtRest DEF Forwards
  <2>4. IsBetterThan(Offer(m, l), Offer(n, l))
    BY <1>1, <2>3, WinnerBeats
  <2>5. /\ HasEntry(m) /\ HasEntry(n) /\ m \in Nat /\ n \in Nat
    BY <1>1, TopologyAssumption DEF Forwards
  <2>6. entry[m].ifs[l].rpc \in Nat /\ entry[n].ifs[l].rpc \in Nat
    BY <1>1, <2>1, <2>3, <2>5, ForwardingAtRest
  <2> QED
    BY <2>2, <2>4, <2>5, <2>6 DEF IsBetterThan, Offer
<1>2. TreeInv /\ Truthful => OneForwarder
  BY <1>1 DEF OneForwarder
<1> QED
  BY <1>2, TruthInvariant, PTL

\* At rest a link with a member has a forwarder, if one of its routers can forward
\* at all: of the UPSTREAM routers the best one knows that it is the best, and it
\* knows of the member, so that no loser waits for a winner that does not exist.
THEOREM MembersStayServed == Spec /\ NoRevival => []MembersAreServed
<1>1. ASSUME TreeInv, Truthful, AtRest, NEW n \in Routers, NEW l \in members[n] \ SourceLinks,
             IsActive(n), entry[n].ifs[l].role = "NonRoot"
      PROVE  \E m \in Routers : Forwards(m, l)
  <2> DEFINE S == {m \in Routers : Candidate(m, l)}
             offers == {Offer(m, l) : m \in S}
  <2>1. l \in Links /\ HasEntry(n) /\ l \in up[n]
    BY <1>1 DEF TreeInv, TypeInv, TablesInv, IsActive
  <2>2. n \in S
    <3>1. Rested(n, l)
      BY <1>1, <2>1, EntryAtRest
    <3>2. entry[n].ifs[l].tree = "Active"
      BY <1>1, <3>1 DEF Rested, InState, IsActive
    <3> QED
      BY <1>1, <2>1, <3>2 DEF Candidate, Stated, Upstream, NoInfo
  <2>3. \A m \in S : m \in Routers /\ HasEntry(m) /\ l \in AttachedTo(m) /\ entry[m].ifs[l].rpc \in Nat
    BY <1>1, <2>1, ForwardingAtRest DEF Candidate
  <2>4. offers \in SUBSET [ip : Routers, metric : Nat] /\ offers # {}
    <3> HIDE DEF S
    <3>1. \A m \in S : Offer(m, l) \in [ip : Routers, metric : Nat]
      BY <2>3 DEF Offer
    <3> QED
      BY <2>2, <3>1
  <2> HIDE DEF offers
  <2>5. PICK u \in offers : \A w \in offers \ {u} : IsBetterThan(u, w)
    BY <2>4, BestExists
  <2>6. PICK m \in S : u = Offer(m, l)
    BY DEF offers
  <2>7. WinsAssert(entry[m], l)
    <3>1. CASE entry[m].ups[l] = NoUpstream
      <4>1. entry[m].ifs[l].tree = "Active"
        BY <1>1, <2>1, <2>3, ForwardingAtRest
      <4> QED
        BY <3>1, <4>1 DEF WinsAssert
    <3>2. CASE entry[m].ups[l] # NoUpstream
      <4>1. PICK k \in Routers : k # m /\ Candidate(k, l) /\ entry[m].ups[l] = Offer(k, l)
        BY <1>1, <2>1, <2>3, <3>2, BestOffer
      <4>2. Offer(k, l) \in offers \ {u}
        BY <2>6, <4>1 DEF offers, Offer
      <4>3. IsBetterThan(Offer(m, l), entry[m].ups[l])
        BY <2>5, <2>6, <4>1, <4>2
      <4>4. entry[m].ifs[l].tree = "Active" /\ entry[m].router = m
        BY <1>1, <2>1, <2>3, ForwardingAtRest, EntryAtRest DEF Rested
      <4> QED
        BY <4>3, <4>4 DEF WinsAssert, Offer
    <3> QED
      BY <3>1, <3>2
  <2>8. l \in members[m]
    <3>1. l \in up[m]
      BY <1>1, <2>3 DEF AtRest
    <3>2. l \in hosts
      BY <1>1, <2>1 DEF AtRest, MembershipDue
    <3> QED
      BY <1>1, <2>1, <3>1, <3>2 DEF AtRest, MembershipDue
  <2>9. Forwards(m, l)
    BY <1>1, <2>1, <2>3, <2>7, <2>8, ForwardingAtRest
  <2> QED
    BY <2>9
<1>2. TreeInv /\ Truthful => MembersAreServed
  BY <1>1 DEF MembersAreServed
<1> QED
  BY <1>2, TruthInvariant, PTL
=============================================================================
