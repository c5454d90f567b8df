-------------------------- MODULE TreeNetworkProofs --------------------------
(***************************************************************************)
(* Proofs about TreeNetwork, for any finite set of routers, any links,     *)
(* routes, events and bounds: what is true of the network at rest, from an *)
(* invariant (TreeInv) that holds of every state.                          *)
(*                                                                         *)
(* TreeInv says of every router that its entry is whole (TreeEntryProofs)  *)
(* and agrees with the tables of the router (Fits), and that what the      *)
(* entry remembers of its neighbors is what their Neighbor objects say     *)
(* (Sees), unless a thread that will remove the tree is about to correct   *)
(* it.  A step is about one router: Lands is what its call must achieve    *)
(* there, and the others see the same state as before.                     *)
(***************************************************************************)
EXTENDS TreeNetwork, TreeEntryProofs

-----------------------------------------------------------------------------
(* The best UPSTREAM neighbor *)

LEMMA BoundedAbove ==
  ASSUME NEW S \in SUBSET Nat, IsFiniteSet(S)
  PROVE  \E b \in Nat : \A x \in S : x <= b
<1>1. PICK N \in Nat : ExistsBijection(1 .. N, S)
  BY FS_NatBijection
<1>2. PICK f : f \in Bijection(1 .. N, S)
  BY <1>1 DEF ExistsBijection
<1>3. f \in [1 .. N -> S] /\ \A x \in S : \E j \in 1 .. N : f[j] = x
  BY <1>2 DEF Bijection, Injection, Surjection
<1> DEFINE T == {k \in 0 .. N : \E b \in Nat : \A j \in 1 .. k : f[j] <= b}
<1>4. 0 \in T
  OBVIOUS
<1>5. ASSUME NEW k \in 1 .. N, k - 1 \in T PROVE k \in T
  <2>1. PICK b \in Nat : \A j \in 1 .. (k - 1) : f[j] <= b
    BY <1>5
  <2>2. f[k] \in Nat
    BY <1>3
  <2> DEFINE c == IF b <= f[k] THEN f[k] ELSE b
  <2>3. c \in Nat /\ b <= c /\ f[k] <= c
    BY <2>2
  <2>4. \A j \in 1 .. k : f[j] <= c
    <3> SUFFICES ASSUME NEW j \in 1 .. k PROVE f[j] <= c
      OBVIOUS
    <3>1. f[j] \in Nat
      <4>1. j \in 1 .. N
        BY <1>5
      <4> HIDE DEF c, T
      <4> QED
        BY <1>3, <4>1
    <3>2. CASE j = k
      BY <2>3, <3>2
    <3>3. CASE j # k
      <4>1. j \in 1 .. (k - 1)
        BY <3>3
      <4>2. f[j] <= b
        BY <2>1, <4>1
      <4> HIDE DEF c
      <4> QED
        BY <2>3, <3>1, <4>2
    <3> QED
      BY <3>2, <3>3
  <2> HIDE DEF c
  <2> QED
    BY <2>3, <2>4
<1> HIDE DEF T
<1>6. N \in T
  <2>1. \A k \in 0 .. N : k \in T
    BY <1>4, <1>5, Induction
  <2> QED
    BY <2>1
<1>7. PICK b \in Nat : \A j \in 1 .. N : f[j] <= b
  BY <1>6 DEF T
<1> QED
  BY <1>3, <1>7

\* The least metric, and of the routers that have it the one with the greatest IP.
LEMMA BestExists ==
  ASSUME NEW ups \in SUBSET [ip : Routers, metric : Nat], ups # {}
  PROVE  \E u \in ups : \A w \in ups \ {u} : IsBetterThan(u, w)
<1>1. Routers \in SUBSET Nat /\ IsFiniteSet(Routers)
  BY TopologyAssumption
<1>2. PICK b \in Nat : \A x \in Routers : x <= b
  BY <1>1, BoundedAbove
<1> DEFINE M == {u.metric : u \in ups}
<1>3. M \in SUBSET Nat /\ M # {}
  OBVIOUS
<1>4. PICK m \in M : \A y \in M : m <= y
  BY <1>3, LeastNumber
<1> DEFINE D == {b - u.ip : u \in {v \in ups : v.metric = m}}
<1>5. D \in SUBSET Nat /\ D # {}
  <2>1. \A u \in ups : u.ip \in Nat /\ u.ip <= b
    BY <1>1, <1>2
  <2>2. \A u \in ups : b - u.ip \in Nat
    BY <2>1
  <2> QED
    BY <1>4, <2>2
<1> HIDE DEF D
<1>6. PICK d \in D : \A y \in D : d <= y
  BY <1>5, LeastNumber
<1>7. PICK u \in ups : u.metric = m /\ d = b - u.ip
  BY <1>6 DEF D
<1>8. ASSUME NEW w \in ups \ {u} PROVE IsBetterThan(u, w)
  <2>1. /\ u \in [ip : Routers, metric : Nat] /\ w \in [ip : Routers, metric : Nat]
        /\ u.ip \in Nat /\ w.ip \in Nat /\ u.metric \in Nat /\ w.metric \in Nat
    BY <1>1
  <2>2. u.metric <= w.metric
    BY <1>4, <1>7
  <2>3. CASE w.metric # m
    BY <1>7, <2>1, <2>2, <2>3 DEF IsBetterThan
  <2>4. CASE w.metric = m
    <3>1. b - w.ip \in D
      BY <2>4 DEF D
    <3>2. d <= b - w.ip
      BY <1>6, <3>1
    <3>3. w.ip <= u.ip
      BY <1>7, <2>1, <3>2
    <3>4. w.ip # u.ip
      BY <1>7, <2>1, <2>4
    <3> QED
      BY <1>7, <2>1, <2>4, <3>3, <3>4 DEF IsBetterThan
  <2> QED
    BY <2>3, <2>4
<1> QED
  BY <1>8

LEMMA PairTypes ==
  ASSUME NEW p \in Pairs
  PROVE  /\ p.link \in Links /\ p.at \in Routers /\ p.of \in Routers /\ p.at # p.of
         /\ p \in NeighborsOf[p.at][p.link]
         /\ Mirror(p) \in Pairs /\ Mirror(p).at = p.of /\ Mirror(p).of = p.at
         /\ Mirror(p).link = p.link /\ Mirror(p) # p /\ Mirror(Mirror(p)) = p
         /\ p = Pair(p.link, p.at, p.of)
BY DEF Pairs, NeighborsOf, Mirror, Pair

LEMMA NeighborTypes ==
  ASSUME NEW n \in Routers, NEW l \in Links
  PROVE  NeighborsOf[n][l] = {p \in Pairs : p.link = l /\ p.at = n}
BY DEF NeighborsOf

IsUp(p, vw) == vw[p].kind = "IamUpstream"

LEMMA UpstreamFacts ==
  ASSUME NEW n \in Routers, NEW l \in Links, NEW vw \in [Pairs -> Views], NEW ad,
         NEW u, u = UpstreamState(n, l, vw, ad)
  PROVE  /\ u \in AssertMetrics
         /\ u # NoUpstream <=> \E p \in Read(n, l, ad) : IsUp(p, vw)
         /\ u # NoUpstream => \E p \in Read(n, l, ad) : /\ IsUp(p, vw) /\ u = Metric(p, vw)
                                                       /\ \A q \in Read(n, l, ad) : IsUp(q, vw) /\ q # p
                                                            => IsBetterThan(u, Metric(q, vw))
<1> DEFINE R == {q \in Read(n, l, ad) : vw[q].kind = "IamUpstream"}
           ups == {Metric(p, vw) : p \in R}
<1>1. \A p \in R : /\ p \in Pairs /\ p.link = l /\ p.at = n
                   /\ Metric(p, vw) \in [ip : Routers, metric : Nat]
                   /\ Metric(p, vw).ip = p.of
  <2> SUFFICES ASSUME NEW p \in R PROVE /\ p \in Pairs /\ p.link = l /\ p.at = n
                   /\ Metric(p, vw) \in [ip : Routers, metric : Nat]
                   /\ Metric(p, vw).ip = p.of
    OBVIOUS
  <2>1. p \in Pairs /\ p.link = l /\ p.at = n
    BY NeighborTypes DEF Read
  <2>2. vw[p] \in Views /\ vw[p].kind = "IamUpstream"
    BY <2>1
  <2>3. vw[p].metric \in Nat
    BY <2>2 DEF Views
  <2> QED
    BY <2>1, <2>3, PairTypes DEF Metric
<1>2. u = IF ups = {} THEN NoUpstream
          ELSE CHOOSE x \in ups : \A w \in ups \ {x} : IsBetterThan(x, w)
  BY DEF UpstreamState
<1>3. CASE ups = {}
  <2>1. u = NoUpstream /\ R = {}
    BY <1>2, <1>3
  <2> QED
    BY <2>1 DEF AssertMetrics, IsUp
<1>4. CASE ups # {}
  <2>1. ups \in SUBSET [ip : Routers, metric : Nat]
    BY <1>1
  <2>2. \E x \in ups : \A w \in ups \ {x} : IsBetterThan(x, w)
    BY <1>4, <2>1, BestExists
  <2>3. u \in ups /\ \A w \in ups \ {u} : IsBetterThan(u, w)
    <3> HIDE DEF ups
    <3> QED
      BY <1>2, <1>4, <2>2
  <2>4. PICK p \in R : u = Metric(p, vw)
    BY <2>3
  <2>5. u.ip \in Routers
    BY <2>1, <2>3
  <2>6. u \in AssertMetrics /\ u # NoUpstream
    <3>1. u \in [ip : Routers, metric : Nat]
      BY <2>1, <2>3
    <3>2. None \notin Routers /\ NoUpstream.ip = None
      BY TopologyAssumption DEF NoUpstream
    <3> HIDE DEF R, ups
    <3> QED
      BY <2>5, <3>1, <3>2 DEF AssertMetrics
  <2>7. ASSUME NEW q \in R, q # p PROVE IsBetterThan(u, Metric(q, vw))
    <3>1. Metric(q, vw).ip # u.ip
      <4>1. p = Pair(l, n, p.of) /\ q = Pair(l, n, q.of)
        BY <1>1, PairTypes
      <4> QED
        BY <1>1, <2>4, <2>7, <4>1
    <3>2. Metric(q, vw) \in ups \ {u}
      BY <3>1
    <3> QED
      BY <2>3, <3>2
  <2> QED
    BY <2>4, <2>6, <2>7 DEF IsUp
<1> QED
  BY <1>3, <1>4

\* What n reads of its neighbors only depends on its own Neighbor objects.
LEMMA SameUpstream ==
  ASSUME NEW n \in Routers, NEW l \in Links, NEW vw, NEW vw2, NEW ad, NEW ad2,
         Read(n, l, ad2) = Read(n, l, ad),
         \A p \in Read(n, l, ad) : IsUp(p, vw) \/ IsUp(p, vw2) => vw2[p] = vw[p]
  PROVE  UpstreamState(n, l, vw2, ad2) = UpstreamState(n, l, vw, ad)
<1>1. \A p \in Read(n, l, ad) : IsUp(p, vw) <=> IsUp(p, vw2)
  BY DEF IsUp
<1>2. {q \in Read(n, l, ad) : vw[q].kind = "IamUpstream"}
        = {q \in Read(n, l, ad) : vw2[q].kind = "IamUpstream"}
  BY <1>1 DEF IsUp
<1>3. \A p \in Read(n, l, ad) : IsUp(p, vw) => Metric(p, vw2) = Metric(p, vw)
  BY DEF Metric
<1>4. {Metric(p, vw) : p \in {q \in Read(n, l, ad) : vw[q].kind = "IamUpstream"}}
        = {Metric(p, vw2) : p \in {q \in Read(n, l, ad) : vw2[q].kind = "IamUpstream"}}
  BY <1>2, <1>3 DEF IsUp
<1> DEFINE a == {Metric(p, vw) : p \in {q \in Read(n, l, ad) : vw[q].kind = "IamUpstream"}}
           b == {Metric(p, vw2) : p \in {q \in Read(n, l, ad2) : vw2[q].kind = "IamUpstream"}}
           Best(s) == IF s = {} THEN NoUpstream
                      ELSE CHOOSE u \in s : \A w \in s \ {u} : IsBetterThan(u, w)
<1>5. a = b
  BY <1>4
<1>6. UpstreamState(n, l, vw, ad) = Best(a) /\ UpstreamState(n, l, vw2, ad2) = Best(b)
  BY DEF UpstreamState
<1> HIDE DEF a, b, Best
<1> QED
  BY <1>5, <1>6

LEMMA SameViews ==
  ASSUME NEW n \in Routers, NEW l \in Links, NEW vw, NEW vw2, NEW ad, NEW ad2,
         \A p \in NeighborsOf[n][l] : vw2[p] = vw[p] /\ ad2[p] = ad[p]
  PROVE  /\ UpstreamState(n, l, vw2, ad2) = UpstreamState(n, l, vw, ad)
         /\ InterestState(n, l, vw2, ad2) = InterestState(n, l, vw, ad)
<1>1. Read(n, l, ad2) = Read(n, l, ad)
  BY DEF Read
<1>2. \A p \in Read(n, l, ad) : vw2[p] = vw[p]
  BY DEF Read
<1>3. InterestState(n, l, vw2, ad2) <=> InterestState(n, l, vw, ad)
  BY <1>1, <1>2 DEF InterestState
<1> QED
  BY <1>1, <1>2, <1>3, SameUpstream DEF InterestState

-----------------------------------------------------------------------------
(* The inductive invariant *)

\* Channels that hold messages, as many as they may.
Channels(ch) == ch \in [Pairs -> Seq(Messages)] /\ \A p \in Pairs : Len(ch[p]) <= MaxInFlight

\* The tables that are not about the tree, and the network around the routers.
TablesInv ==
  /\ route \in [Routers -> UNION {Routes[n] : n \in Routers}]
  /\ \A n \in Routers : route[n] \in Routes[n]
  /\ up \in [Routers -> SUBSET Links] /\ \A n \in Routers : up[n] \subseteq AttachedTo(n)
  /\ members \in [Routers -> SUBSET Links] /\ \A n \in Routers : members[n] \subseteq up[n]
  /\ hosts \subseteq HostLinks /\ pending \subseteq Routers /\ sending \in BOOLEAN
  /\ events \in 0 .. MaxEvents

AdjStates == {"Down", "Syncing", "Synced"}

\* What the variables hold.
TypeInv ==
  /\ entry \in [Routers -> Entry \cup {NoEntry}]
  /\ view \in [Pairs -> Views]
  /\ adj \in [Pairs -> AdjStates]
  /\ Channels(chan)
  /\ TablesInv
  /\ removing \in [Routers -> Nat]

\* A router only has Neighbor objects on the links it runs the protocol on.
AdjInv == \A p \in Pairs : adj[p] # "Down" => p.link \in up[p.at]

\* e is an entry of n that agrees with the tables of its router: the members ms, the
\* interfaces vifs and, when nothing is about to change it, the route rt.
Fitting(n, e, ms, vifs, rem, rt, due) ==
  e # NoEntry =>
    /\ Whole(e) /\ e.out = <<>> /\ e.removals = 0 /\ e.router = n /\ e.local = ms
    /\ \A l \in Links : Present(e, l) <=> l \in vifs
    /\ e.tree = "Inactive" => rem > 0
    /\ rem = 0 /\ n \notin due => e.inbound = rt.rif /\ e.rpc = rt.rpc

\* The entry remembers what the views of the neighbors of l say; without one, no
\* neighbor is UPSTREAM.
Seeing(n, l, e, rem, vw, ad) ==
  IF e = NoEntry THEN UpstreamState(n, l, vw, ad) = NoUpstream
  ELSE rem = 0 /\ (\A p \in NeighborsOf[n][l] : ad[p] # "Syncing")
         => /\ e.ups[l] = UpstreamState(n, l, vw, ad)
            /\ e.int[l] = InterestState(n, l, vw, ad)

Fits(n) == Fitting(n, entry[n], members[n], up[n], removing[n], Route(n), pending)
Sees(n) == \A l \in Links : Seeing(n, l, entry[n], removing[n], view, adj)

TreeInv == TypeInv /\ AdjInv /\ \A n \in Routers : Fits(n) /\ Sees(n)

-----------------------------------------------------------------------------
(* Messages *)

\* The messages for one neighbor are messages.
\* What the loop over the messages ms adds to s for the message k.
Took(ms, p, s, k) ==
  IF ms[k].link = p.link /\ ms[k].to \in {None, p.at} THEN Append(s, ms[k]) ELSE s

\* T[k] holds what the first k messages of ms may lead to.
LEMMA AddressedReaches ==
  ASSUME NEW ms \in Seq(Messages), NEW p, NEW N, N = Len(ms),
         NEW T \in [0 .. N -> SUBSET Seq(Messages)], <<>> \in T[0],
         \A k \in 1 .. N : \A s \in T[k - 1] : Took(ms, p, s, k) \in T[k]
  PROVE  Addressed(ms, p) \in T[N]
<1> DEFINE S == Seq(Messages)
           Add(s, k) == Took(ms, p, s, k)
           G == [x \in S \X (1 .. N) |-> Add(x[1], x[2])]
           Body(f) == [t \in SUBSET (DOMAIN ms) |->
                         IF t = {} THEN << >> ELSE Add(f[t \ {Max(t)}], Max(t))]
           h == CHOOSE f : f = Body(f)
<1>1. N \in Nat /\ DOMAIN ms = 1 .. N
  OBVIOUS
<1>2. ASSUME NEW s \in S, NEW k \in 1 .. N PROVE Add(s, k) \in S
  <2>1. ms[k] \in Messages
    OBVIOUS
  <2>2. Append(s, ms[k]) \in S
    BY <2>1
  <2> QED
    BY <2>2 DEF Took
<1>3. G \in [S \X (1 .. N) -> S]
  <2> HIDE DEF Add, S
  <2> QED
    BY <1>2
<1>4. ASSUME NEW s \in S, NEW k \in 1 .. N PROVE G[<<s, k>>] = Add(s, k)
  <2> HIDE DEF Add, S
  <2> QED
    OBVIOUS
<1>5. Addressed(ms, p) = h[DOMAIN ms]
  BY Zenon DEF Addressed, FoldLeft, MapThenFoldSet, Took
<1>6. << >> \in S
  OBVIOUS
<1>0. T \in [0 .. N -> SUBSET S] /\ \A k \in 1 .. N : \A s \in T[k - 1] : Add(s, k) \in T[k]
  OBVIOUS
<1> HIDE DEF G, Add, S
<1>7. \E f : f = Body(f)
  <2>1. PICK f \in [SUBSET (1 .. N) -> S] : DefinesFold(f, N, << >>, G)
    BY Zenon, <1>1, <1>3, <1>6, FoldExists
  <2>2. ASSUME NEW t \in SUBSET (1 .. N), t # {} PROVE f[t] = Add(f[t \ {Max(t)}], Max(t))
    <3>1. Max(t) \in 1 .. N /\ t \ {Max(t)} \in SUBSET (1 .. N)
      BY <1>1, <2>2, GreatestOfPrefix
    <3> QED
      BY <1>4, <2>1, <2>2, <3>1 DEF DefinesFold
  <2>3. f[{}] = << >>
    BY <2>1 DEF DefinesFold
  <2>4. ASSUME NEW t \in SUBSET (1 .. N)
        PROVE  f[t] = IF t = {} THEN << >> ELSE Add(f[t \ {Max(t)}], Max(t))
    BY <2>2, <2>3
  <2> QED
    BY <1>1, <2>1, <2>4
<1>8. h = Body(h)
  BY Zenon, <1>7
<1> HIDE DEF h
<1>9. ReadsFold(h, N, S, << >>, G)
  <2>1. ASSUME NEW t \in SUBSET (1 .. N)
        PROVE  h[t] = IF t = {} THEN << >> ELSE Add(h[t \ {Max(t)}], Max(t))
    BY Zenon, <1>1, <1>8
  <2>2. ASSUME NEW t \in SUBSET (1 .. N), t # {}, h[t \ {Max(t)}] \in S
        PROVE  h[t] = G[<<h[t \ {Max(t)}], Max(t)>>]
    <3>1. Max(t) \in 1 .. N
      BY <1>1, <2>2, GreatestOfPrefix
    <3> QED
      BY <1>4, <2>1, <2>2, <3>1
  <2> QED
    BY <2>1, <2>2 DEF ReadsFold
<1>10. ASSUME NEW k \in 1 .. N, NEW s \in T[k - 1] PROVE G[<<s, k>>] \in T[k]
  <2>1. k - 1 \in 0 .. N
    BY <1>1
  <2>2. s \in S
    BY <1>0, <2>1
  <2> QED
    BY <1>0, <1>4, <2>2
<1>11. h[1 .. N] \in T[N]
  BY <1>0, <1>1, <1>6, <1>9, <1>10, FoldReaches
<1> QED
  BY <1>1, <1>5, <1>11

LEMMA AddressedTypes ==
  ASSUME NEW ms \in Seq(Messages), NEW p
  PROVE  Addressed(ms, p) \in Seq(Messages)
<1> DEFINE N == Len(ms)
           T == [k \in 0 .. N |-> Seq(Messages)]
<1>1. T \in [0 .. N -> SUBSET Seq(Messages)] /\ <<>> \in T[0] /\ T[N] = Seq(Messages)
  OBVIOUS
<1>2. ASSUME NEW k \in 1 .. N, NEW s \in T[k - 1] PROVE Took(ms, p, s, k) \in T[k]
  <2>1. k - 1 \in 0 .. N /\ k \in 0 .. N /\ ms[k] \in Messages
    OBVIOUS
  <2>2. s \in Seq(Messages)
    BY <2>1
  <2>3. Append(s, ms[k]) \in Seq(Messages)
    BY <2>1, <2>2
  <2>4. T[k] = Seq(Messages)
    BY <2>1
  <2> HIDE DEF T
  <2> QED
    BY <2>2, <2>3, <2>4 DEF Took
<1> HIDE DEF T
<1>3. Addressed(ms, p) \in T[N]
  BY <1>1, <1>2, AddressedReaches
<1> QED
  BY <1>1, <1>3

LEMMA NewestTypes ==
  ASSUME NEW ms \in Seq(Messages)
  PROVE  Newest(ms) \in Seq(Messages) /\ Len(Newest(ms)) <= MaxInFlight
<1>1. MaxInFlight \in Nat \ {0}
  BY EventsAssumption
<1>2. CASE Len(ms) > MaxInFlight
  <2>1. Newest(ms) = SubSeq(ms, Len(ms) - MaxInFlight + 1, Len(ms))
    BY <1>2 DEF Newest
  <2>2. Len(ms) \in Nat /\ Len(ms) - MaxInFlight + 1 \in 1 .. Len(ms)
    BY <1>1, <1>2
  <2> QED
    BY <1>1, <2>1, <2>2
<1>3. CASE ~(Len(ms) > MaxInFlight)
  <2>1. Newest(ms) = SubSeq(ms, 1, Len(ms))
    BY <1>3 DEF Newest
  <2> QED
    BY <1>1, <1>3, <2>1
<1> QED
  BY <1>2, <1>3

LEMMA DeliverTypes ==
  ASSUME NEW ch, Channels(ch), NEW ad, NEW n, NEW ms \in Seq(Messages)
  PROVE  Channels(Deliver(ch, ad, n, ms))
<1>1. ASSUME NEW p \in Pairs
      PROVE  /\ Newest(ch[p] \o Addressed(ms, p)) \in Seq(Messages)
             /\ Len(Newest(ch[p] \o Addressed(ms, p))) <= MaxInFlight
  <2>1. Addressed(ms, p) \in Seq(Messages) /\ ch[p] \in Seq(Messages)
    BY AddressedTypes DEF Channels
  <2>2. ch[p] \o Addressed(ms, p) \in Seq(Messages)
    BY <2>1
  <2> QED
    BY <2>2, NewestTypes
<1> QED
  BY <1>1 DEF Channels, Deliver

LEMMA EmptyTypes ==
  ASSUME NEW ch, Channels(ch), NEW p \in Pairs, NEW q
  PROVE  Channels([ch EXCEPT ![p] = <<>>, ![q] = <<>>])
<1> DEFINE s == <<>>
<1>1. s \in Seq(Messages) /\ Len(s) <= MaxInFlight
  BY EventsAssumption
<1> HIDE DEF s
<1>2. Channels([ch EXCEPT ![p] = s, ![q] = s])
  BY <1>1 DEF Channels
<1> QED
  BY <1>2 DEF s

LEMMA RestTypes ==
  ASSUME NEW ch, Channels(ch), NEW p \in Pairs, NEW k \in DOMAIN ch[p]
  PROVE  Channels([ch EXCEPT ![p] = SubSeq(@, k + 1, Len(@))])
<1>1. ch[p] \in Seq(Messages) /\ Len(ch[p]) <= MaxInFlight /\ MaxInFlight \in Nat
  BY EventsAssumption DEF Channels
<1>2. /\ SubSeq(ch[p], k + 1, Len(ch[p])) \in Seq(Messages)
      /\ Len(SubSeq(ch[p], k + 1, Len(ch[p]))) <= MaxInFlight
  BY <1>1
<1> QED
  BY <1>2 DEF Channels

-----------------------------------------------------------------------------
(* The end of a call *)

LEMMA IsEntry ==
  ASSUME NEW e \in Entry
  PROVE  e # NoEntry
BY TopologyAssumption DEF Entry, NoEntry

\* Sending the messages changes nothing else.
LEMMA CleanKeeps ==
  ASSUME NEW e \in Entry
  PROVE  /\ Clean(e) \in Entry /\ Clean(e).out = << >> /\ Clean(e).removals = 0
         /\ Clean(e).router = e.router /\ Clean(e).originator = e.originator
         /\ Clean(e).tree = e.tree /\ Clean(e).rpc = e.rpc /\ Clean(e).inbound = e.inbound
         /\ Clean(e).ups = e.ups /\ Clean(e).int = e.int /\ Clean(e).ifs = e.ifs
         /\ Clean(e).local = e.local /\ Clean(e).mfc = e.mfc
<1> DEFINE s == << >>
<1>1. Clean(e) = [e EXCEPT !.out = s, !.removals = 0]
  BY IsEntry DEF Clean
<1>2. s \in Seq(Messages)
  OBVIOUS
<1>3. s = << >>
  OBVIOUS
<1> HIDE DEF s
<1>4. [e EXCEPT !.out = s, !.removals = 0] \in Entry
  BY <1>2 DEF Entry
<1> DEFINE c == [e EXCEPT !.out = s, !.removals = 0]
<1>5. /\ c.out = s /\ c.removals = 0 /\ c.router = e.router /\ c.originator = e.originator
      /\ c.tree = e.tree /\ c.rpc = e.rpc /\ c.inbound = e.inbound
      /\ c.ups = e.ups /\ c.int = e.int /\ c.ifs = e.ifs /\ c.local = e.local
      /\ c.mfc = e.mfc
  BY DEF Entry
<1> HIDE DEF c
<1>6. Clean(e) = c /\ c \in Entry
  BY <1>1, <1>4 DEF c
<1> QED
  BY <1>3, <1>5, <1>6

LEMMA CleanWhole ==
  ASSUME NEW e, Whole(e)
  PROVE  Whole(Clean(e)) /\ \A l \in Links : Present(Clean(e), l) <=> Present(e, l)
<1> DEFINE c == Clean(e)
<1>1. /\ c \in Entry /\ c.router = e.router /\ c.tree = e.tree /\ c.inbound = e.inbound
      /\ c.ups = e.ups /\ c.int = e.int /\ c.ifs = e.ifs /\ c.local = e.local
      /\ c.mfc = e.mfc
  BY CleanKeeps DEF Whole
<1> HIDE DEF c
<1>2. \A l \in Links : Forwarding(c, l) <=> Forwarding(e, l)
  BY <1>1 DEF Forwarding
<1>3. OutboundInterfaces(c) = OutboundInterfaces(e)
  BY <1>2 DEF OutboundInterfaces
<1>4. Current(c)
  BY <1>1, <1>3 DEF Whole, Current
<1>5. AllElected(c) /\ Alike(c)
  BY <1>1, SameElections DEF Whole
<1>6. Covered(c)
  BY <1>1 DEF Whole, Covered, Present
<1>7. Whole(c) /\ \A l \in Links : Present(c, l) <=> Present(e, l)
  BY <1>1, <1>4, <1>5, <1>6 DEF Whole, Present
<1> QED
  BY <1>7 DEF c

\* What a router has after a call: the threads the call started, if it has an entry.
Removals(e) == IF e = NoEntry THEN 0 ELSE e.removals

LEMMA RouteFacts ==
  ASSUME NEW n \in Routers, NEW r \in Routes[n], NEW vifs \in SUBSET Links,
         NEW rt, rt = UnicastInfo(n, r, vifs)
  PROVE  /\ rt.rpc \in Nat /\ rt.direct \in BOOLEAN /\ rt.rif \in Links \cup {None}
         /\ rt.rif # None => rt.rif \in vifs
<1>1. r \in [rpc : Nat, direct : BOOLEAN, rif : Links \cup {None}]
  BY RoutesAssumption
<1> QED
  BY <1>1 DEF UnicastInfo

LEMMA AttachedIsVif ==
  ASSUME NEW n \in Routers, NEW l \in AttachedTo(n)
  PROVE  l \in Links /\ \E k \in 1 .. Len(Vifs[n]) : Vifs[n][k] = l
<1>1. Vifs[n] \in Seq(Links)
  BY TopologyAssumption
<1>2. DOMAIN Vifs[n] = 1 .. Len(Vifs[n])
  BY <1>1
<1> QED
  BY <1>1, <1>2 DEF AttachedTo

LEMMA StateTypes ==
  ASSUME NEW n \in Routers, NEW vw \in [Pairs -> Views], NEW ad
  PROVE  /\ [l \in Links |-> UpstreamState(n, l, vw, ad)] \in [Links -> AssertMetrics]
         /\ [l \in Links |-> InterestState(n, l, vw, ad)] \in [Links -> BOOLEAN]
<1>1. \A l \in Links : UpstreamState(n, l, vw, ad) \in AssertMetrics
  BY UpstreamFacts
<1>2. \A l \in Links : InterestState(n, l, vw, ad) \in BOOLEAN
  BY DEF InterestState
<1> QED
  BY <1>1, <1>2

\* An entry that is whole and agrees with the tables stays so when its messages leave.
LEMMA EntryLands ==
  ASSUME NEW n, NEW f, Whole(f), f.router = n,
         NEW vifs, \A l \in Links : Present(f, l) <=> l \in vifs,
         NEW rem, f.tree = "Inactive" => rem > 0,
         NEW rt, NEW due, rem = 0 /\ n \notin due => f.inbound = rt.rif /\ f.rpc = rt.rpc
  PROVE  Fitting(n, Clean(f), f.local, vifs, rem, rt, due)
<1> DEFINE c == Clean(f)
<1>1. /\ c.out = << >> /\ c.removals = 0 /\ c.router = f.router /\ c.tree = f.tree
      /\ c.rpc = f.rpc /\ c.inbound = f.inbound /\ c.local = f.local
  BY CleanKeeps DEF Whole
<1>2. Whole(c) /\ \A l \in Links : Present(c, l) <=> Present(f, l)
  BY CleanWhole
<1> HIDE DEF c
<1>3. Fitting(n, c, f.local, vifs, rem, rt, due)
  BY <1>1, <1>2 DEF Fitting
<1> QED
  BY <1>3 DEF c

LEMMA EntrySees ==
  ASSUME NEW n \in Routers, NEW l \in Links, NEW f \in Entry, NEW rem, NEW vw, NEW ad,
         rem = 0 /\ (\A p \in NeighborsOf[n][l] : ad[p] # "Syncing")
           => f.ups[l] = UpstreamState(n, l, vw, ad) /\ f.int[l] = InterestState(n, l, vw, ad)
  PROVE  Seeing(n, l, Clean(f), rem, vw, ad)
<1> DEFINE c == Clean(f)
<1>1. c \in Entry /\ c # NoEntry /\ c.ups = f.ups /\ c.int = f.int
  BY CleanKeeps, IsEntry
<1> HIDE DEF c
<1>2. Seeing(n, l, c, rem, vw, ad)
  BY <1>1 DEF Seeing
<1> QED
  BY <1>2 DEF c

\* What an action does to router n, whose entry becomes f, when it leaves the tables
\* ms, vifs, rt and due, the threads rem, and the neighbors vw and ad.
Lands(n, f, ms, vifs, rem, rt, due, vw, ad) ==
  /\ f \in Entry \cup {NoEntry}
  /\ rem + Removals(f) \in Nat
  /\ Fitting(n, Clean(f), ms, vifs, rem + Removals(f), rt, due)
  /\ \A l \in Links : Seeing(n, l, Clean(f), rem + Removals(f), vw, ad)

\* A new entry, of an originator or of a router that has an UPSTREAM neighbor.
LEMMA NewEntryLands ==
  ASSUME TypeInv, NEW n \in Routers, NEW vw \in [Pairs -> Views], NEW ad, NEW rem \in Nat,
         NEW due,
         Route(n).direct \/ \E l \in Links : UpstreamState(n, l, vw, ad) # NoUpstream
  PROVE  Lands(n, NewEntry(n, vw, ad), members[n], up[n], rem, Route(n), due, vw, ad)
<1> DEFINE rt == Route(n)
           ups == [l \in Links |-> UpstreamState(n, l, vw, ad)]
           int == [l \in Links |-> InterestState(n, l, vw, ad)]
           f == NewEntry(n, vw, ad)
           b == BlankEntry(n, rt, ups, int, members[n], up[n])
<1>1. /\ rt.rpc \in Nat /\ rt.direct \in BOOLEAN /\ rt.rif \in Links \cup {None}
      /\ rt.rif # None => rt.rif \in up[n]
  <2>1. route[n] \in Routes[n] /\ up[n] \in SUBSET Links
    BY DEF TypeInv, TablesInv
  <2> QED
    BY <2>1, RouteFacts DEF Route
<1>2. ups \in [Links -> AssertMetrics] /\ int \in [Links -> BOOLEAN]
  BY StateTypes
<1>3. /\ up[n] \in SUBSET Links
      /\ \A l \in up[n] : \E k \in 1 .. Len(Vifs[n]) : Vifs[n][k] = l
      /\ members[n] \cap up[n] = members[n]
  BY AttachedIsVif DEF TypeInv, TablesInv
<1>4. f = CreateEntry(n, rt, ups, int, members[n], up[n])
  BY DEF NewEntry
<1>5. /\ rt.direct \/ \E l \in Links : ups[l] # NoUpstream
      /\ \A l \in Links : ups[l] = UpstreamState(n, l, vw, ad) /\ int[l] = InterestState(n, l, vw, ad)
  OBVIOUS
<1> HIDE DEF rt, ups, int, f
<1>6. /\ Created(f, b, up[n])
      /\ b.router = n /\ b.originator = rt.direct /\ b.rpc = rt.rpc
      /\ b.inbound = rt.rif /\ b.ups = ups /\ b.int = int
      /\ b.local = members[n] \cap up[n] /\ b.removals = 0
  BY <1>1, <1>2, <1>3, <1>4, CreateEntryEnds
<1> HIDE DEF b
<1>7. /\ Whole(f) /\ f \in Entry /\ f.router = n /\ f.local = members[n]
      /\ f.rpc = rt.rpc /\ f.inbound = rt.rif /\ f.ups = ups /\ f.int = int
      /\ \A l \in Links : Present(f, l) <=> l \in up[n]
  BY <1>3, <1>6 DEF Created, SameKnowledge, Whole
<1>8. f.removals \in Nat /\ Removals(f) = f.removals
  BY <1>7, EntryTypes, IsEntry DEF Removals
<1>9. f.tree = "Inactive" => f.removals > 0
  <2>1. b.originator \/ SomeUpstream(b)
    BY <1>5, <1>6 DEF SomeUpstream
  <2> QED
    BY <1>6, <2>1 DEF Created
<1> DEFINE r == rem + Removals(f)
<1>10. r \in Nat /\ (f.tree = "Inactive" => r > 0)
  BY <1>8, <1>9
<1> HIDE DEF r
<1>11. Fitting(n, Clean(f), members[n], up[n], r, rt, due)
  BY <1>7, <1>10, EntryLands
<1>12. \A l \in Links : Seeing(n, l, Clean(f), r, vw, ad)
  BY <1>5, <1>7, EntrySees
<1>13. Lands(n, f, members[n], up[n], rem, rt, due, vw, ad)
  BY <1>7, <1>10, <1>11, <1>12 DEF Lands, r
<1> QED
  BY <1>13 DEF f, rt

\* What a call may do to the entry of n, which becomes f.
LEMMA ChangeLands ==
  ASSUME TypeInv, NEW n \in Routers, Fits(n), HasEntry(n),
         NEW f, Whole(f), Removed(f, entry[n]), f.router = entry[n].router,
         NEW vifs, \A l \in Links : Present(f, l) <=> l \in vifs,
         NEW rt, NEW due, NEW vw, NEW ad,
         f.tree # "Inactive" /\ removing[n] = 0 =>
           /\ n \notin due => f.inbound = rt.rif /\ f.rpc = rt.rpc
           /\ \A l \in Links : (\A p \in NeighborsOf[n][l] : ad[p] # "Syncing") =>
                f.ups[l] = UpstreamState(n, l, vw, ad) /\ f.int[l] = InterestState(n, l, vw, ad)
  PROVE  Lands(n, f, f.local, vifs, removing[n], rt, due, vw, ad)
<1> DEFINE e == entry[n]
           r == removing[n] + Removals(f)
<1>1. /\ Whole(e) /\ e \in Entry /\ e.removals = 0 /\ e.router = n
      /\ e.tree = "Inactive" => removing[n] > 0
  BY DEF Fits, Fitting, HasEntry, Whole
<1>2. removing[n] \in Nat /\ f \in Entry /\ f.removals \in Nat /\ Removals(f) = f.removals
  BY EntryTypes, IsEntry DEF TypeInv, Whole, Removals
<1>3. /\ r \in Nat
      /\ f.tree = "Inactive" => r > 0
      /\ r = 0 => removing[n] = 0 /\ f.tree # "Inactive"
  BY <1>1, <1>2 DEF Removed
<1> HIDE DEF r
<1>4. Fitting(n, Clean(f), f.local, vifs, r, rt, due)
  BY <1>1, <1>3, EntryLands
<1>5. ASSUME NEW l \in Links PROVE Seeing(n, l, Clean(f), r, vw, ad)
  BY <1>2, <1>3, EntrySees
<1> QED
  BY <1>2, <1>3, <1>4, <1>5 DEF Lands, r

LEMMA NothingLands ==
  ASSUME NEW n, NEW ms, NEW vifs, NEW rem \in Nat, NEW rt, NEW due, NEW vw, NEW ad,
         \A l \in Links : UpstreamState(n, l, vw, ad) = NoUpstream
  PROVE  Lands(n, NoEntry, ms, vifs, rem, rt, due, vw, ad)
BY DEF Lands, Removals, Clean, Fitting, Seeing

\* Only the neighbors of n on link i have changed.
OnlyOn(n, i, vw, ad) ==
  \A l \in Links : l # i =>
    \A p \in NeighborsOf[n][l] : vw[p] = view[p] /\ ad[p] = adj[p]

LEMMA InformedLands ==
  ASSUME TypeInv, NEW n \in Routers, Fits(n), Sees(n), HasEntry(n),
         NEW i \in Links, NEW u, NEW b, NEW local,
         NEW f, Informed(f, entry[n], i, u, b, local),
         NEW vw, NEW ad, OnlyOn(n, i, vw, ad),
         removing[n] = 0 /\ (\A p \in NeighborsOf[n][i] : ad[p] # "Syncing") =>
           u = UpstreamState(n, i, vw, ad) /\ b = InterestState(n, i, vw, ad)
  PROVE  Lands(n, f, local, up[n], removing[n], Route(n), pending, vw, ad)
<1> DEFINE e == entry[n]
<1>1. /\ Whole(f) /\ Removed(f, e) /\ f.router = e.router /\ f.rpc = e.rpc
      /\ f.inbound = e.inbound /\ f.ups[i] = u /\ f.int[i] = b /\ f.local = local
      /\ \A l \in Links : l # i => f.ups[l] = e.ups[l] /\ f.int[l] = e.int[l]
      /\ \A l \in Links : Present(f, l) <=> Present(e, l)
  BY DEF Informed
<1>2. /\ \A l \in Links : Present(e, l) <=> l \in up[n]
      /\ removing[n] = 0 /\ n \notin pending => e.inbound = Route(n).rif /\ e.rpc = Route(n).rpc
  BY DEF Fits, Fitting, HasEntry
<1>3. ASSUME removing[n] = 0, NEW l \in Links, \A p \in NeighborsOf[n][l] : ad[p] # "Syncing"
      PROVE  f.ups[l] = UpstreamState(n, l, vw, ad) /\ f.int[l] = InterestState(n, l, vw, ad)
  <2>1. CASE l = i
    BY <1>1, <1>3, <2>1
  <2>2. CASE l # i
    <3>1. \A p \in NeighborsOf[n][l] : vw[p] = view[p] /\ ad[p] = adj[p]
      BY <2>2 DEF OnlyOn
    <3>2. /\ UpstreamState(n, l, vw, ad) = UpstreamState(n, l, view, adj)
          /\ InterestState(n, l, vw, ad) = InterestState(n, l, view, adj)
      BY <3>1, SameViews
    <3>3. e.ups[l] = UpstreamState(n, l, view, adj) /\ e.int[l] = InterestState(n, l, view, adj)
      BY <1>3, <3>1 DEF Sees, Seeing, HasEntry
    <3> QED
      BY <1>1, <2>2, <3>2, <3>3
  <2> QED
    BY <2>1, <2>2
<1> HIDE DEF e
<1>4. Lands(n, f, f.local, up[n], removing[n], Route(n), pending, vw, ad)
  BY <1>1, <1>2, <1>3, ChangeLands DEF e
<1> QED
  BY <1>1, <1>4

\* The call that a message, or another state of a neighbor on link i, leads to.
LEMMA RecheckedLands ==
  ASSUME TypeInv, NEW n \in Routers, Fits(n), Sees(n),
         NEW i \in up[n], NEW vw \in [Pairs -> Views], NEW ad, NEW fresh,
         OnlyOn(n, i, vw, ad),
         NEW f, f = Rechecked(n, i, vw, ad, fresh)
  PROVE  Lands(n, f, members[n], up[n], removing[n], Route(n), pending, vw, ad)
<1> DEFINE u == UpstreamState(n, i, vw, ad)
           b == InterestState(n, i, vw, ad)
           e == entry[n]
<1>1. i \in Links /\ removing[n] \in Nat
  BY DEF TypeInv, TablesInv
<1>2. u \in AssertMetrics /\ b \in BOOLEAN
  BY <1>1, UpstreamFacts DEF InterestState
<1>3. f = IF HasEntry(n) THEN CheckInterfaceState(e, i, u, b, fresh)
          ELSE IF u # NoUpstream THEN NewEntry(n, vw, ad) ELSE NoEntry
  BY DEF Rechecked
<1>4. CASE HasEntry(n)
  <2>1. Whole(e) /\ e.local = members[n] /\ Present(e, i)
    BY <1>1, <1>4 DEF Fits, Fitting, HasEntry
  <2>2. CASE e.tree = "Inactive"
    <3>1. f = e
      BY <1>3, <1>4, <2>1, <2>2, InactiveKept
    <3>2. removing[n] > 0 /\ f.local = members[n] /\ f.router = entry[n].router
          /\ Whole(f) /\ f.tree = "Inactive" /\ \A l \in Links : Present(f, l) <=> l \in up[n]
      BY <1>4, <2>1, <2>2, <3>1 DEF Fits, Fitting, HasEntry
    <3>3. f \in Entry /\ f.removals \in Nat
      BY <3>2, EntryTypes DEF Whole
    <3>4. Removed(f, entry[n])
      BY <2>2, <3>1, <3>3 DEF Removed
    <3>5. Lands(n, f, f.local, up[n], removing[n], Route(n), pending, vw, ad)
      BY <1>1, <1>4, <3>2, <3>4, ChangeLands
    <3> QED
      BY <3>2, <3>5
  <2>3. CASE e.tree # "Inactive"
    <3> HIDE DEF u, b, e
    <3>1. Informed(f, e, i, u, b, members[n])
      BY <1>1, <1>2, <1>3, <1>4, <2>1, <2>3, NeighborInforms
    <3> QED
      BY <1>1, <1>4, <3>1, InformedLands DEF u, b, e
  <2> QED
    BY <2>2, <2>3
<1>5. CASE ~HasEntry(n) /\ u # NoUpstream
  <2>1. f = NewEntry(n, vw, ad)
    BY <1>3, <1>5
  <2>2. \E l \in Links : UpstreamState(n, l, vw, ad) # NoUpstream
    BY <1>1, <1>5
  <2> QED
    BY <1>1, <2>1, <2>2, NewEntryLands
<1>6. CASE ~HasEntry(n) /\ u = NoUpstream
  <2>1. ASSUME NEW l \in Links PROVE UpstreamState(n, l, vw, ad) = NoUpstream
    <3>1. CASE l = i
      BY <1>6, <3>1
    <3>2. CASE l # i
      <4>1. UpstreamState(n, l, vw, ad) = UpstreamState(n, l, view, adj)
        BY <3>2, SameViews DEF OnlyOn
      <4> QED
        BY <1>6, <4>1 DEF Sees, Seeing, HasEntry
    <3> QED
      BY <3>1, <3>2
  <2>2. f = NoEntry
    BY <1>3, <1>6
  <2> QED
    BY <1>1, <2>1, <2>2, NothingLands
<1> QED
  BY <1>4, <1>5, <1>6

-----------------------------------------------------------------------------
(* The steps of one router *)

\* What the other routers have, and their neighbors, is left alone.
OthersLeft(n) ==
  /\ \A m \in Routers \ {n} : /\ entry'[m] = entry[m] /\ removing'[m] = removing[m]
                              /\ members'[m] = members[m] /\ up'[m] = up[m]
                              /\ route'[m] = route[m] /\ (m \in pending <=> m \in pending')
  /\ \A p \in Pairs : p.at # n => view'[p] = view[p] /\ adj'[p] = adj[p]

LEMMA OthersAgree ==
  ASSUME TreeInv, NEW n \in Routers, TypeInv', AdjInv', OthersLeft(n), Fits(n)', Sees(n)'
  PROVE  TreeInv'
<1>1. ASSUME NEW m \in Routers, m # n PROVE Fits(m)' /\ Sees(m)'
  <2>1. /\ entry'[m] = entry[m] /\ removing'[m] = removing[m]
        /\ members'[m] = members[m] /\ up'[m] = up[m]
        /\ route'[m] = route[m] /\ (m \in pending <=> m \in pending')
    BY <1>1 DEF OthersLeft
  <2>2. Fits(m) /\ Sees(m)
    BY DEF TreeInv
  <2>3. Route(m)' = Route(m)
    BY <2>1 DEF Route
  <2>4. Fits(m)'
    BY <2>1, <2>2, <2>3 DEF Fits, Fitting
  <2>5. ASSUME NEW l \in Links PROVE Seeing(m, l, entry[m], removing[m], view, adj)'
    <3>1. \A p \in NeighborsOf[m][l] : view'[p] = view[p] /\ adj'[p] = adj[p]
      BY <1>1, NeighborTypes DEF OthersLeft
    <3>2. /\ UpstreamState(m, l, view', adj') = UpstreamState(m, l, view, adj)
          /\ InterestState(m, l, view', adj') = InterestState(m, l, view, adj)
      BY <3>1, SameViews
    <3>3. Seeing(m, l, entry[m], removing[m], view, adj)
      BY <2>2 DEF Sees
    <3> QED
      BY <2>1, <3>1, <3>2, <3>3 DEF Seeing
  <2> QED
    BY <2>4, <2>5 DEF Sees
<1> QED
  BY <1>1 DEF TreeInv

LEMMA OutTypes ==
  ASSUME NEW f \in Entry \cup {NoEntry}
  PROVE  Out(f) \in Seq(Messages) /\ Clean(f) \in Entry \cup {NoEntry}
<1>1. CASE f \in Entry
  BY <1>1, EntryTypes, IsEntry, CleanKeeps DEF Out
<1>2. CASE f = NoEntry
  BY <1>2 DEF Out, Clean
<1> QED
  BY <1>1, <1>2

\* A call at router n that ends with the entry f, and lands there.
LEMMA BecameInv ==
  ASSUME TreeInv, NEW n \in Routers, NEW f, NEW ch, NEW ad, Became(n, f, ch, ad),
         Channels(ch), ad \in [Pairs -> AdjStates], view' \in [Pairs -> Views], TablesInv',
         \A m \in Routers \ {n} : /\ members'[m] = members[m] /\ up'[m] = up[m]
                                  /\ route'[m] = route[m] /\ (m \in pending <=> m \in pending'),
         \A p \in Pairs : /\ p.at # n => view'[p] = view[p] /\ ad[p] = adj[p]
                          /\ ad[p] # "Down" => p.link \in up'[p.at],
         Lands(n, f, members'[n], up'[n], removing[n], Route(n)', pending', view', ad)
  PROVE  TreeInv'
<1>1. /\ entry' = [entry EXCEPT ![n] = Clean(f)]
      /\ chan' = Deliver(ch, ad, n, Out(f))
      /\ adj' = ad
      /\ removing' = [removing EXCEPT ![n] = @ + Removals(f)]
  BY DEF Became, Removals
<1>2. f \in Entry \cup {NoEntry} /\ removing[n] + Removals(f) \in Nat
  BY DEF Lands
<1>3. /\ Out(f) \in Seq(Messages) /\ Clean(f) \in Entry \cup {NoEntry}
      /\ Channels(Deliver(ch, ad, n, Out(f)))
  BY <1>2, OutTypes, DeliverTypes
<1>4. /\ entry \in [Routers -> Entry \cup {NoEntry}]
      /\ removing \in [Routers -> Nat]
  BY DEF TreeInv, TypeInv
<1>5. TypeInv'
  BY <1>1, <1>2, <1>3, <1>4 DEF TypeInv
<1>6. AdjInv'
  BY <1>1 DEF AdjInv
<1>7. /\ entry'[n] = Clean(f) /\ removing'[n] = removing[n] + Removals(f)
      /\ \A m \in Routers \ {n} : entry'[m] = entry[m] /\ removing'[m] = removing[m]
  BY <1>1, <1>4
<1>8. OthersLeft(n)
  BY <1>1, <1>7 DEF OthersLeft
<1>9. Fits(n)' /\ Sees(n)'
  BY <1>1, <1>7 DEF Fits, Sees, Lands
<1> QED
  BY <1>5, <1>6, <1>8, <1>9, OthersAgree

LEMMA TablesLeft ==
  ASSUME TablesInv,
         UNCHANGED <<route, pending, hosts, members, up, sending>>, events' \in 0 .. MaxEvents
  PROVE  TablesInv' /\ \A n \in Routers : Route(n)' = Route(n)
BY DEF TablesInv, Route

LEMMA EventCounts ==
  ASSUME TablesInv, NEW kind, Event(kind)
  PROVE  events' \in 0 .. MaxEvents
BY EventsAssumption DEF TablesInv, Event

\* A call that only changes the entry.
LEMMA CallInv ==
  ASSUME TreeInv, NEW n \in Routers, NEW f, Became(n, f, chan, adj),
         UNCHANGED <<view, route, pending, hosts, members, up, sending, events>>,
         Lands(n, f, members[n], up[n], removing[n], Route(n), pending, view, adj)
  PROVE  TreeInv'
<1>1. TypeInv /\ AdjInv /\ TablesInv /\ events \in 0 .. MaxEvents
  BY DEF TreeInv, TypeInv, TablesInv
<1>2. TablesInv' /\ Route(n)' = Route(n)
  BY <1>1, TablesLeft
<1>3. /\ Channels(chan) /\ adj \in [Pairs -> AdjStates] /\ view' \in [Pairs -> Views]
      /\ \A p \in Pairs : adj[p] # "Down" => p.link \in up'[p.at]
  BY <1>1 DEF TypeInv, AdjInv
<1>4. Lands(n, f, members'[n], up'[n], removing[n], Route(n)', pending', view', adj)
  BY <1>2
<1>5. \A m \in Routers \ {n} : /\ members'[m] = members[m] /\ up'[m] = up[m]
                               /\ route'[m] = route[m] /\ (m \in pending <=> m \in pending')
  OBVIOUS
<1>6. \A p \in Pairs : /\ p.at # n => view'[p] = view[p] /\ adj[p] = adj[p]
                       /\ adj[p] # "Down" => p.link \in up'[p.at]
  BY <1>3
<1> QED
  BY <1>2, <1>3, <1>4, <1>5, <1>6, BecameInv

\* A call of KernelEntry.py that keeps what the entry knows.
LEMMA KeptInv ==
  ASSUME TreeInv, NEW n \in Routers, HasEntry(n), NEW f, Kept(f, entry[n]),
         Became(n, f, chan, adj),
         UNCHANGED <<view, route, pending, hosts, members, up, sending, events>>
  PROVE  TreeInv'
<1> DEFINE e == entry[n]
<1>1. TypeInv /\ Fits(n) /\ Sees(n)
  BY DEF TreeInv
<1>2. /\ Whole(f) /\ Removed(f, e) /\ f.router = e.router /\ f.local = e.local
      /\ f.ups = e.ups /\ f.int = e.int /\ f.rpc = e.rpc /\ f.inbound = e.inbound
      /\ \A l \in Links : Present(f, l) <=> Present(e, l)
  BY DEF Kept, SameKnowledge
<1>3. /\ e.local = members[n] /\ \A l \in Links : Present(e, l) <=> l \in up[n]
      /\ removing[n] = 0 /\ n \notin pending => e.inbound = Route(n).rif /\ e.rpc = Route(n).rpc
  BY <1>1 DEF Fits, Fitting, HasEntry
<1>4. ASSUME removing[n] = 0, NEW l \in Links, \A p \in NeighborsOf[n][l] : adj[p] # "Syncing"
      PROVE  f.ups[l] = UpstreamState(n, l, view, adj) /\ f.int[l] = InterestState(n, l, view, adj)
  BY <1>1, <1>2, <1>4 DEF Sees, Seeing, HasEntry
<1>5. Lands(n, f, f.local, up[n], removing[n], Route(n), pending, view, adj)
  BY <1>1, <1>2, <1>3, <1>4, ChangeLands
<1> QED
  BY <1>2, <1>3, <1>5, CallInv

LEMMA HoldTimeoutInv ==
  ASSUME TreeInv, NEW n \in Routers, NEW l \in Links, HoldTimeout(n, l)
  PROVE  TreeInv'
<1>1. HasEntry(n) /\ Whole(entry[n])
  BY DEF TreeInv, Fits, Fitting, HoldTimeout, HasEntry
<1> DEFINE f == HoldForwardingTimeout(entry[n], l)
<1>2. Kept(f, entry[n])
  BY <1>1, HoldKept
<1>3. Became(n, f, chan, adj)
      /\ UNCHANGED <<view, route, pending, hosts, members, up, sending, events>>
  BY DEF HoldTimeout
<1> HIDE DEF f
<1> QED
  BY <1>1, <1>2, <1>3, KeptInv

LEMMA SourceExpiresInv ==
  ASSUME TreeInv, NEW n \in Routers, SourceExpires(n)
  PROVE  TreeInv'
<1>1. HasEntry(n) /\ Whole(entry[n])
  BY DEF TreeInv, Fits, Fitting, SourceExpires, ExpiryDue, HasEntry
<1> DEFINE f == SourceStops(entry[n])
<1>2. Kept(f, entry[n])
  BY <1>1, SourceKept
<1>3. Became(n, f, chan, adj)
      /\ UNCHANGED <<view, route, pending, hosts, members, up, sending, events>>
  BY DEF SourceExpires, SourceStops
<1> HIDE DEF f
<1> QED
  BY <1>1, <1>2, <1>3, KeptInv

LEMMA DataArrivesInv ==
  ASSUME TreeInv, NEW n \in Routers, DataArrives(n)
  PROVE  TreeInv'
<1>1. CASE HasEntry(n)
  <2>1. Whole(entry[n])
    BY <1>1 DEF TreeInv, Fits, Fitting, HasEntry
  <2> DEFINE f == SourceStarts(entry[n])
  <2>2. Kept(f, entry[n])
    BY <2>1, SourceKept
  <2>3. Became(n, f, chan, adj)
        /\ UNCHANGED <<view, route, pending, hosts, members, up, sending, events>>
    BY <1>1 DEF DataArrives, SourceStarts
  <2> HIDE DEF f
  <2> QED
    BY <1>1, <2>2, <2>3, KeptInv
<1>2. CASE ~HasEntry(n)
  <2> DEFINE f == NewEntry(n, view, adj)
  <2>1. Became(n, f, chan, adj)
        /\ UNCHANGED <<view, route, pending, hosts, members, up, sending, events>>
    BY <1>2 DEF DataArrives
  <2>2. TypeInv /\ removing[n] \in Nat /\ view \in [Pairs -> Views]
    BY DEF TreeInv, TypeInv
  <2>3. Route(n).direct
    BY DEF DataArrives, DataDue
  <2>4. Lands(n, f, members[n], up[n], removing[n], Route(n), pending, view, adj)
    BY <2>2, <2>3, NewEntryLands
  <2> HIDE DEF f
  <2> QED
    BY <2>1, <2>4, CallInv
<1> QED
  BY <1>1, <1>2

LEMMA MembershipChangeInv ==
  ASSUME TreeInv, NEW n \in Routers, NEW l \in Links, MembershipChange(n, l)
  PROVE  TreeInv'
<1> DEFINE b == l \in hosts
           ms == IF b THEN members[n] \cup {l} ELSE members[n] \ {l}
           f == IF HasEntry(n) THEN NotifyMembership(entry[n], l, b) ELSE NoEntry
<1>1. /\ TypeInv /\ TablesInv /\ AdjInv /\ Fits(n) /\ Sees(n) /\ l \in up[n]
      /\ Became(n, f, chan, adj)
      /\ members' = [members EXCEPT ![n] = ms]
      /\ UNCHANGED <<view, route, pending, hosts, up, sending, events>>
  BY DEF TreeInv, TypeInv, MembershipChange, MembershipDue
<1>2. b \in BOOLEAN
  OBVIOUS
<1>3. ms \subseteq up[n] /\ ms \in SUBSET Links
  BY <1>1 DEF TablesInv
<1>4. Route(n)' = Route(n)
  BY <1>1 DEF Route
<1> HIDE DEF b
<1>5. Lands(n, f, ms, up[n], removing[n], Route(n), pending, view, adj)
  <2>1. CASE HasEntry(n)
    <3>1. Whole(entry[n]) /\ entry[n].local = members[n] /\ Present(entry[n], l)
      BY <1>1, <2>1 DEF Fits, Fitting, HasEntry
    <3>2. Informed(f, entry[n], l, entry[n].ups[l], entry[n].int[l], ms)
      BY <1>2, <2>1, <3>1, MembershipInforms
    <3> HIDE DEF f, ms
    <3>3. OnlyOn(n, l, view, adj)
      BY DEF OnlyOn
    <3>4. removing[n] = 0 /\ (\A p \in NeighborsOf[n][l] : adj[p] # "Syncing") =>
            /\ entry[n].ups[l] = UpstreamState(n, l, view, adj)
            /\ entry[n].int[l] = InterestState(n, l, view, adj)
      BY <1>1, <2>1 DEF Sees, Seeing, HasEntry
    <3> QED
      BY <1>1, <2>1, <3>2, <3>3, <3>4, InformedLands
  <2>2. CASE ~HasEntry(n)
    <3>1. \A i \in Links : UpstreamState(n, i, view, adj) = NoUpstream
      BY <1>1, <2>2 DEF Sees, Seeing, HasEntry
    <3>2. removing[n] \in Nat
      BY <1>1 DEF TypeInv
    <3> QED
      BY <2>2, <3>1, <3>2, NothingLands
  <2> QED
    BY <2>1, <2>2
<1> HIDE DEF f, ms
<1>6. TablesInv'
  BY <1>1, <1>3 DEF TablesInv
<1>7. /\ Channels(chan) /\ adj \in [Pairs -> AdjStates] /\ view' \in [Pairs -> Views]
      /\ \A p \in Pairs : adj[p] # "Down" => p.link \in up'[p.at]
  BY <1>1 DEF TypeInv, AdjInv
<1>8. \A m \in Routers \ {n} : /\ members'[m] = members[m] /\ up'[m] = up[m]
                               /\ route'[m] = route[m] /\ (m \in pending <=> m \in pending')
  BY <1>1 DEF TablesInv
<1>9. \A p \in Pairs : /\ p.at # n => view'[p] = view[p] /\ adj[p] = adj[p]
                       /\ adj[p] # "Down" => p.link \in up'[p.at]
  BY <1>1, <1>7
<1>10. members'[n] = ms
  BY <1>1 DEF TablesInv
<1>11. Lands(n, f, members'[n], up'[n], removing[n], Route(n)', pending', view', adj)
  BY <1>1, <1>4, <1>5, <1>10
<1> QED
  BY <1>1, <1>6, <1>7, <1>8, <1>9, <1>11, BecameInv

LEMMA NotifyUnicastChangesInv ==
  ASSUME TreeInv, NEW n \in Routers, NotifyUnicastChanges(n)
  PROVE  TreeInv'
<1> DEFINE rt == Route(n)
           f == IF HasEntry(n) THEN NetworkUpdate(entry[n], rt) ELSE NoEntry
           due == pending \ {n}
<1>1. /\ TypeInv /\ TablesInv /\ AdjInv /\ Fits(n) /\ Sees(n)
      /\ Became(n, f, chan, adj) /\ pending' = due
      /\ UNCHANGED <<view, route, hosts, members, up, sending, events>>
  BY DEF TreeInv, TypeInv, NotifyUnicastChanges
<1>2. Route(n)' = Route(n)
  BY <1>1 DEF Route
<1>3. Lands(n, f, members[n], up[n], removing[n], rt, due, view, adj)
  <2>1. CASE HasEntry(n)
    <3> DEFINE e == entry[n]
    <3>1. Whole(e) /\ e.local = members[n] /\ \A l \in Links : Present(e, l) <=> l \in up[n]
      BY <1>1, <2>1 DEF Fits, Fitting, HasEntry
    <3>2. /\ rt.rpc \in Nat /\ rt.direct \in BOOLEAN /\ rt.rif \in Links \cup {None}
          /\ rt.rif # None => rt.rif \in up[n]
      <4>1. route[n] \in Routes[n] /\ up[n] \in SUBSET Links
        BY <1>1 DEF TablesInv
      <4> QED
        BY <4>1, RouteFacts DEF Route
    <3> HIDE DEF rt
    <3>3. RouteFor(rt, e)
      BY <3>1, <3>2 DEF RouteFor
    <3>4. Updated(f, e, rt)
      BY <2>1, <3>1, <3>3, NetworkUpdateEnds
    <3> HIDE DEF f, e
    <3>5. /\ Whole(f) /\ Removed(f, e) /\ f.router = e.router /\ f.local = members[n]
          /\ f.ups = e.ups /\ f.int = e.int
          /\ \A l \in Links : Present(f, l) <=> l \in up[n]
          /\ f.tree # "Inactive" => f.inbound = rt.rif /\ f.rpc = rt.rpc
      BY <3>1, <3>4 DEF Updated, SameKnowledge
    <3>6. ASSUME removing[n] = 0, NEW l \in Links, \A p \in NeighborsOf[n][l] : adj[p] # "Syncing"
          PROVE  f.ups[l] = UpstreamState(n, l, view, adj) /\ f.int[l] = InterestState(n, l, view, adj)
      BY <1>1, <2>1, <3>5, <3>6 DEF Sees, Seeing, HasEntry, e
    <3>7. Lands(n, f, f.local, up[n], removing[n], rt, due, view, adj)
      BY <1>1, <2>1, <3>5, <3>6, ChangeLands DEF e
    <3> QED
      BY <3>5, <3>7
  <2>2. CASE ~HasEntry(n)
    <3>1. \A i \in Links : UpstreamState(n, i, view, adj) = NoUpstream
      BY <1>1, <2>2 DEF Sees, Seeing, HasEntry
    <3>2. removing[n] \in Nat
      BY <1>1 DEF TypeInv
    <3> QED
      BY <2>2, <3>1, <3>2, NothingLands
  <2> QED
    BY <2>1, <2>2
<1> HIDE DEF f
<1>4. TablesInv'
  BY <1>1 DEF TablesInv
<1>5. /\ Channels(chan) /\ adj \in [Pairs -> AdjStates] /\ view' \in [Pairs -> Views]
  BY <1>1 DEF TypeInv
<1>6. \A m \in Routers \ {n} : /\ members'[m] = members[m] /\ up'[m] = up[m]
                               /\ route'[m] = route[m] /\ (m \in pending <=> m \in pending')
  BY <1>1
<1>7. \A p \in Pairs : /\ p.at # n => view'[p] = view[p] /\ adj[p] = adj[p]
                       /\ adj[p] # "Down" => p.link \in up'[p.at]
  BY <1>1 DEF AdjInv
<1>8. Lands(n, f, members'[n], up'[n], removing[n], Route(n)', pending', view', adj)
  BY <1>1, <1>2, <1>3
<1>9. Became(n, f, chan, adj)
  BY <1>1
<1> HIDE DEF rt, due
<1> QED
  BY <1>9, <1>4, <1>5, <1>6, <1>7, <1>8, BecameInv

-----------------------------------------------------------------------------
(* The steps of the environment that no router sees yet *)

LEMMA UnicastChangeInv ==
  ASSUME TreeInv, NEW n \in Routers, NEW r \in Routes[n], UnicastChange(n, r)
  PROVE  TreeInv'
<1>1. /\ TypeInv /\ TablesInv /\ AdjInv /\ Event("route")
      /\ route' = [route EXCEPT ![n] = r] /\ pending' = pending \cup {n}
      /\ UNCHANGED <<entry, view, adj, chan, hosts, members, up, sending, removing>>
  BY DEF TreeInv, TypeInv, UnicastChange
<1>2. events' \in 0 .. MaxEvents
  BY <1>1, EventCounts
<1>3. TablesInv'
  BY <1>1, <1>2 DEF TablesInv
<1>4. TypeInv' /\ AdjInv'
  BY <1>1, <1>3 DEF TypeInv, AdjInv
<1>5. OthersLeft(n)
  BY <1>1 DEF OthersLeft, TablesInv
<1>6. Fits(n) /\ Sees(n)
  BY DEF TreeInv
<1>7. Fits(n)'
  BY <1>1, <1>6 DEF Fits, Fitting
<1>8. Sees(n)'
  BY <1>1, <1>6 DEF Sees
<1> QED
  BY <1>4, <1>5, <1>7, <1>8, OthersAgree

\* The hosts and the source.
LEMMA OutsideInv ==
  ASSUME TreeInv, TablesInv',
         UNCHANGED <<entry, view, adj, chan, route, pending, members, up, removing>>
  PROVE  TreeInv'
<1>1. TypeInv' /\ AdjInv'
  BY DEF TreeInv, TypeInv, AdjInv
<1>2. ASSUME NEW n \in Routers PROVE Fits(n)' /\ Sees(n)'
  BY DEF TreeInv, Fits, Sees, Route
<1> QED
  BY <1>1, <1>2 DEF TreeInv

LEMMA EnvironmentInv ==
  ASSUME TreeInv, SourceChanges \/ \E l \in HostLinks : MembersChange(l)
  PROVE  TreeInv'
<1>1. TablesInv
  BY DEF TreeInv, TypeInv
<1>2. CASE SourceChanges
  <2>1. events' \in 0 .. MaxEvents
    BY <1>1, <1>2, EventCounts DEF SourceChanges
  <2>2. TablesInv'
    BY <1>1, <1>2, <2>1 DEF SourceChanges, TablesInv
  <2> QED
    BY <1>2, <2>2, OutsideInv DEF SourceChanges
<1>3. ASSUME NEW l \in HostLinks, MembersChange(l) PROVE TreeInv'
  <2>1. events' \in 0 .. MaxEvents
    BY <1>1, <1>3, EventCounts DEF MembersChange
  <2>2. TablesInv'
    BY <1>1, <1>3, <2>1 DEF MembersChange, TablesInv
  <2> QED
    BY <1>3, <2>2, OutsideInv DEF MembersChange
<1> QED
  BY <1>2, <1>3

-----------------------------------------------------------------------------
(* The steps that change what a router knows of its neighbors *)

LEMMA ForgetTypes ==
  ASSUME NEW vw \in [Pairs -> Views], NEW m \in Routers, NEW ls
  PROVE  /\ Forget(vw, m, ls) \in [Pairs -> Views]
         /\ \A p \in Pairs : p.at # m => Forget(vw, m, ls)[p] = vw[p]
BY DEF Forget, Views, NoInfo

\* Forgetting the interest leaves the UPSTREAM neighbors.
LEMMA ForgetUpstream ==
  ASSUME NEW n \in Routers, NEW l \in Links, NEW vw \in [Pairs -> Views], NEW ad,
         NEW m \in Routers, NEW ls
  PROVE  UpstreamState(n, l, Forget(vw, m, ls), ad) = UpstreamState(n, l, vw, ad)
<1> DEFINE fw == Forget(vw, m, ls)
<1>1. /\ \A p \in Pairs : fw[p] = IF p.at = m /\ p.link \in ls /\ ~IsUp(p, vw) THEN NoInfo ELSE vw[p]
      /\ fw = [p \in Pairs |-> fw[p]]
  BY DEF Forget, IsUp
<1>2. NoInfo \in Views /\ NoInfo.kind # "IamUpstream"
  BY DEF Views, NoInfo
<1> HIDE DEF fw
<1>4. \A p \in Pairs : IsUp(p, vw) \/ IsUp(p, fw) => fw[p] = vw[p]
  BY <1>1, <1>2 DEF IsUp
<1>5. \A p \in Read(n, l, ad) : p \in Pairs
  BY NeighborTypes DEF Read
<1>6. UpstreamState(n, l, fw, ad) = UpstreamState(n, l, vw, ad)
  BY <1>4, <1>5, SameUpstream
<1> QED
  BY <1>6 DEF fw

LEMMA ForgetLands ==
  ASSUME NEW n \in Routers, NEW f, NEW ms, NEW vifs, NEW rem, NEW rt, NEW due,
         NEW vw \in [Pairs -> Views], NEW ad, NEW ls,
         Lands(n, f, ms, vifs, rem, rt, due, vw, ad), f = NoEntry
  PROVE  Lands(n, f, ms, vifs, rem, rt, due, Forget(vw, n, ls), ad)
<1> DEFINE fw == Forget(vw, n, ls)
<1>1. \A l \in Links : UpstreamState(n, l, fw, ad) = UpstreamState(n, l, vw, ad)
  BY ForgetUpstream
<1> HIDE DEF fw
<1>2. Clean(f) = NoEntry
  BY DEF Clean
<1>3. \A l \in Links : Seeing(n, l, Clean(f), rem + Removals(f), fw, ad)
  BY <1>1, <1>2 DEF Seeing, Lands
<1>4. Lands(n, f, ms, vifs, rem, rt, due, fw, ad)
  BY <1>3 DEF Lands
<1> QED
  BY <1>4 DEF fw

\* A message about the interest of an interface does not concern the others.
LEMMA InterestLands ==
  ASSUME TypeInv, NEW n \in Routers, Fits(n), Sees(n), HasEntry(n),
         NEW i \in up[n], NEW vw \in [Pairs -> Views], OnlyOn(n, i, vw, adj),
         UpstreamState(n, i, vw, adj) = UpstreamState(n, i, view, adj),
         NEW f, f = CheckInterestState(entry[n], i, InterestState(n, i, vw, adj))
  PROVE  Lands(n, f, members[n], up[n], removing[n], Route(n), pending, vw, adj)
<1> DEFINE b == InterestState(n, i, vw, adj)
           e == entry[n]
           u == e.ups[i]
<1>1. i \in Links /\ removing[n] \in Nat
  BY DEF TypeInv, TablesInv
<1>2. b \in BOOLEAN
  BY DEF InterestState
<1>3. f = CheckInterestState(e, i, b)
  OBVIOUS
<1>4. Whole(e) /\ e.local = members[n] /\ Present(e, i)
  BY <1>1 DEF Fits, Fitting, HasEntry
<1>5. CASE e.tree = "Inactive"
  <2>1. f = e
    BY <1>3, <1>4, <1>5, InactiveKept
  <2>2. /\ f.local = members[n] /\ f.router = entry[n].router /\ f.tree = "Inactive"
        /\ Whole(f) /\ \A l \in Links : Present(f, l) <=> l \in up[n]
    BY <1>4, <1>5, <2>1 DEF Fits, Fitting, HasEntry
  <2>3. f \in Entry /\ f.removals \in Nat
    BY <2>2, EntryTypes DEF Whole
  <2>4. Removed(f, entry[n])
    BY <1>5, <2>1, <2>3 DEF Removed
  <2>5. Lands(n, f, f.local, up[n], removing[n], Route(n), pending, vw, adj)
    BY <1>1, <2>2, <2>4, ChangeLands
  <2> QED
    BY <2>2, <2>5
<1>6. CASE e.tree # "Inactive"
  <2>1. removing[n] = 0 /\ (\A p \in NeighborsOf[n][i] : adj[p] # "Syncing") =>
          u = UpstreamState(n, i, vw, adj)
    BY <1>1 DEF Sees, Seeing, HasEntry
  <2> HIDE DEF b, e, u
  <2>2. Informed(f, e, i, u, b, members[n])
    BY <1>1, <1>2, <1>3, <1>4, <1>6, InterestInforms DEF u
  <2> QED
    BY <1>1, <2>1, <2>2, InformedLands DEF b, e
<1> QED
  BY <1>5, <1>6

LEMMA StoredViewTypes ==
  ASSUME NEW m \in Messages
  PROVE  StoredView(m) \in Views
<1>1. /\ m.kind \in {"IamUpstream", "IamNoLongerUpstream", "Interest", "NoInterest"}
      /\ m.kind = "IamUpstream" => m.metric \in Nat
      /\ m.kind # "IamUpstream" => m.metric = 0
  BY DEF Messages
<1> QED
  BY <1>1 DEF StoredView, Views, NoInfo

\* The neighbors of the other links are other Neighbor objects.
LEMMA OnlyThere ==
  ASSUME TypeInv, NEW p \in Pairs, NEW vw, NEW ad,
         \A q \in Pairs : q # p => vw[q] = view[q] /\ ad[q] = adj[q]
  PROVE  OnlyOn(p.at, p.link, vw, ad)
<1>1. ASSUME NEW l \in Links, l # p.link, NEW q \in NeighborsOf[p.at][l]
      PROVE  vw[q] = view[q] /\ ad[q] = adj[q]
  <2>1. q \in Pairs /\ q.link = l
    BY PairTypes, NeighborTypes
  <2> QED
    BY <1>1, <2>1
<1> QED
  BY <1>1 DEF OnlyOn

LEMMA ReceiveInv ==
  ASSUME TreeInv, NEW p \in Pairs, NEW k \in DOMAIN chan[p], Receive(p, k)
  PROVE  TreeInv'
<1> DEFINE m == chan[p][k]
           n == p.at
           i == p.link
           vw == [view EXCEPT ![p] = StoredView(m)]
           left == [chan EXCEPT ![p] = SubSeq(@, k + 1, Len(@))]
           interest == m.kind \in {"Interest", "NoInterest"} /\ view[p].kind # "IamUpstream"
           f == IF ~interest THEN Rechecked(n, i, vw, adj, p.of)
                ELSE IF ~HasEntry(n) THEN NoEntry
                ELSE CheckInterestState(entry[n], i, InterestState(n, i, vw, adj))
<1>1. /\ TypeInv /\ TablesInv /\ AdjInv /\ n \in Routers /\ i \in Links /\ Fits(n) /\ Sees(n)
      /\ adj[p] # "Down" /\ i \in up[n]
      /\ view' = (IF f = NoEntry THEN Forget(vw, n, {i}) ELSE vw)
      /\ Became(n, f, left, adj)
      /\ UNCHANGED <<route, pending, hosts, members, up, sending, events>>
  BY PairTypes DEF TreeInv, TypeInv, AdjInv, Receive
<1>2. m \in Messages
  BY <1>1 DEF TypeInv, Channels
<1>3. vw \in [Pairs -> Views] /\ vw[p] = StoredView(m) /\ \A q \in Pairs : q # p => vw[q] = view[q]
  <2>1. StoredView(m) \in Views
    BY <1>2, StoredViewTypes
  <2> QED
    BY <1>1, <2>1 DEF TypeInv
<1>4. Channels(left)
  BY <1>1, RestTypes DEF TypeInv
<1> HIDE DEF left
<1>5. OnlyOn(n, i, vw, adj)
  BY <1>1, <1>3, OnlyThere
<1>6. Lands(n, f, members[n], up[n], removing[n], Route(n), pending, vw, adj)
  <2>1. CASE ~interest
    <3>1. f = Rechecked(n, i, vw, adj, p.of)
      BY <2>1
    <3> HIDE DEF f, vw, n, i
    <3> QED
      BY <1>1, <1>3, <1>5, <3>1, RecheckedLands
  <2>2. CASE interest
    <3>1. m.kind \in {"Interest", "NoInterest"} /\ view[p].kind # "IamUpstream"
      BY <2>2
    <3>2. ~IsUp(p, vw) /\ ~IsUp(p, view)
      BY <1>3, <3>1 DEF IsUp, StoredView
    <3>3. \A q \in Read(n, i, adj) : IsUp(q, view) \/ IsUp(q, vw) => vw[q] = view[q]
      <4>1. \A q \in Read(n, i, adj) : q \in Pairs
        BY <1>1, NeighborTypes DEF Read
      <4> HIDE DEF vw
      <4> QED
        BY <1>3, <3>2, <4>1
    <3>4. UpstreamState(n, i, vw, adj) = UpstreamState(n, i, view, adj)
      <4>1. n \in Routers /\ i \in Links
        BY <1>1
      <4> HIDE DEF f, vw, n, i
      <4> QED
        BY <3>3, <4>1, SameUpstream
    <3>5. CASE HasEntry(n)
      <4>1. f = CheckInterestState(entry[n], i, InterestState(n, i, vw, adj))
        BY <2>2, <3>5
      <4> HIDE DEF f, vw, n, i
      <4> QED
        BY <1>1, <1>3, <1>5, <3>4, <3>5, <4>1, InterestLands
    <3>6. CASE ~HasEntry(n)
      <4>1. f = NoEntry /\ removing[n] \in Nat
        BY <1>1, <2>2, <3>6 DEF TypeInv
      <4>2. ASSUME NEW l \in Links PROVE UpstreamState(n, l, vw, adj) = NoUpstream
        <5>1. UpstreamState(n, l, view, adj) = NoUpstream
          BY <1>1, <3>6 DEF Sees, Seeing, HasEntry
        <5>2. CASE l = i
          BY <3>4, <5>1, <5>2
        <5>3. CASE l # i
          <6>1. \A q \in NeighborsOf[n][l] : vw[q] = view[q]
            BY <1>5, <5>3 DEF OnlyOn
          <6>2. n \in Routers
            BY <1>1
          <6> HIDE DEF f, vw, n, i
          <6>3. UpstreamState(n, l, vw, adj) = UpstreamState(n, l, view, adj)
            BY <6>1, <6>2, SameViews
          <6> QED
            BY <5>1, <6>3
        <5> QED
          BY <5>2, <5>3
      <4> HIDE DEF f, vw, n, i
      <4> QED
        BY <4>1, <4>2, NothingLands
    <3> QED
      BY <3>5, <3>6
  <2> QED
    BY <2>1, <2>2
<1> HIDE DEF f, vw, n, i
<1>7. Lands(n, f, members[n], up[n], removing[n], Route(n), pending, view', adj)
      /\ view' \in [Pairs -> Views] /\ \A q \in Pairs : q.at # n => view'[q] = view[q]
  <2>1. \A q \in Pairs : q.at # n => vw[q] = view[q]
    BY <1>3 DEF n
  <2>2. CASE f = NoEntry
    <3>1. view' = Forget(vw, n, {i})
      BY <1>1, <2>2
    <3>2. Lands(n, f, members[n], up[n], removing[n], Route(n), pending, Forget(vw, n, {i}), adj)
      BY <1>1, <1>3, <1>6, <2>2, ForgetLands
    <3>3. /\ Forget(vw, n, {i}) \in [Pairs -> Views]
          /\ \A q \in Pairs : q.at # n => Forget(vw, n, {i})[q] = vw[q]
      BY <1>1, <1>3, ForgetTypes
    <3> QED
      BY <2>1, <3>1, <3>2, <3>3
  <2>3. CASE f # NoEntry
    BY <1>1, <1>3, <1>6, <2>1, <2>3
  <2> QED
    BY <2>2, <2>3
<1>8. TablesInv' /\ Route(n)' = Route(n)
  <2>1. events' \in 0 .. MaxEvents
    BY <1>1 DEF TablesInv
  <2> QED
    BY <1>1, <2>1, TablesLeft
<1>9. adj \in [Pairs -> AdjStates]
  BY <1>1 DEF TypeInv
<1>10. \A q \in Routers \ {n} : /\ members'[q] = members[q] /\ up'[q] = up[q]
                                /\ route'[q] = route[q] /\ (q \in pending <=> q \in pending')
  BY <1>1
<1>11. \A q \in Pairs : /\ q.at # n => view'[q] = view[q] /\ adj[q] = adj[q]
                        /\ adj[q] # "Down" => q.link \in up'[q.at]
  BY <1>1, <1>7 DEF AdjInv
<1>12. Lands(n, f, members'[n], up'[n], removing[n], Route(n)', pending', view', adj)
  BY <1>1, <1>7, <1>8
<1>13. n \in Routers /\ Became(n, f, left, adj)
  BY <1>1
<1> HIDE DEF m, interest
<1> QED
  BY <1>13, <1>4, <1>7, <1>8, <1>9, <1>10, <1>11, <1>12, BecameInv

\* A call for a neighbor of n on the link i, whose state was changed.
LEMMA NeighborInv ==
  ASSUME TreeInv, NEW p \in Pairs, adj[p] # "Down",
         NEW vw \in [Pairs -> Views], NEW ad \in [Pairs -> AdjStates],
         \A q \in Pairs : q # p => vw[q] = view[q] /\ ad[q] = adj[q],
         NEW ch, Channels(ch), NEW fresh,
         Became(p.at, Rechecked(p.at, p.link, vw, ad, fresh), ch, ad),
         view' = vw, events' \in 0 .. MaxEvents,
         UNCHANGED <<route, pending, hosts, members, up, sending>>
  PROVE  TreeInv'
<1> DEFINE n == p.at
           i == p.link
           f == Rechecked(n, i, vw, ad, fresh)
<1>1. /\ TypeInv /\ TablesInv /\ AdjInv /\ n \in Routers /\ i \in Links /\ Fits(n) /\ Sees(n)
      /\ i \in up[n] /\ Became(n, f, ch, ad)
  BY PairTypes DEF TreeInv, TypeInv, AdjInv
<1>2. OnlyOn(n, i, vw, ad)
  BY <1>1, OnlyThere
<1>3. Lands(n, f, members[n], up[n], removing[n], Route(n), pending, vw, ad)
  <2>1. f = Rechecked(n, i, vw, ad, fresh)
    OBVIOUS
  <2> HIDE DEF f, n, i
  <2> QED
    BY <1>1, <1>2, <2>1, RecheckedLands
<1> HIDE DEF f
<1>4. TablesInv' /\ Route(n)' = Route(n)
  <2> HIDE DEF n
  <2> QED
    BY <1>1, TablesLeft
<1>5. \A m \in Routers \ {n} : /\ members'[m] = members[m] /\ up'[m] = up[m]
                               /\ route'[m] = route[m] /\ (m \in pending <=> m \in pending')
  OBVIOUS
<1>6. \A q \in Pairs : /\ q.at # n => view'[q] = view[q] /\ ad[q] = adj[q]
                       /\ ad[q] # "Down" => q.link \in up'[q.at]
  BY <1>1 DEF AdjInv
<1>7. Lands(n, f, members'[n], up'[n], removing[n], Route(n)', pending', view', ad)
  BY <1>3, <1>4
<1>8. view' \in [Pairs -> Views]
  OBVIOUS
<1> HIDE DEF n
<1> QED
  BY <1>1, <1>4, <1>5, <1>6, <1>7, <1>8, BecameInv

LEMMA SyncedInv ==
  ASSUME TreeInv, NEW p \in Pairs, Synced(p)
  PROVE  TreeInv'
<1> DEFINE ad == [adj EXCEPT ![p] = "Synced"]
<1>1. /\ view \in [Pairs -> Views] /\ adj \in [Pairs -> AdjStates] /\ Channels(chan)
      /\ events \in 0 .. MaxEvents
  BY DEF TreeInv, TypeInv, TablesInv
<1>2. ad \in [Pairs -> AdjStates] /\ \A q \in Pairs : q # p => ad[q] = adj[q]
  BY <1>1 DEF AdjStates
<1>3. /\ adj[p] # "Down" /\ Became(p.at, Rechecked(p.at, p.link, view, ad, p.of), chan, ad)
      /\ UNCHANGED <<view, route, pending, hosts, members, up, sending, events>>
  BY DEF Synced
<1> HIDE DEF ad
<1> QED
  BY <1>1, <1>2, <1>3, NeighborInv

LEMMA RemoveNeighborInv ==
  ASSUME TreeInv, NEW p \in Pairs, RemoveNeighbor(p), events' \in 0 .. MaxEvents
  PROVE  TreeInv'
<1> DEFINE ad == [adj EXCEPT ![p] = "Down"]
           vw == [view EXCEPT ![p] = NoInfo]
           ch == [chan EXCEPT ![p] = <<>>, ![Mirror(p)] = <<>>]
<1>1. view \in [Pairs -> Views] /\ adj \in [Pairs -> AdjStates] /\ Channels(chan)
  BY DEF TreeInv, TypeInv
<1>2. ad \in [Pairs -> AdjStates] /\ \A q \in Pairs : q # p => ad[q] = adj[q]
  BY <1>1 DEF AdjStates
<1>3. vw \in [Pairs -> Views] /\ \A q \in Pairs : q # p => vw[q] = view[q]
  BY <1>1 DEF Views, NoInfo
<1>4. Channels(ch)
  BY <1>1, EmptyTypes
<1>5. /\ adj[p] # "Down" /\ view' = vw
      /\ Became(p.at, Rechecked(p.at, p.link, vw, ad, None), ch, ad)
      /\ UNCHANGED <<route, pending, hosts, members, up, sending>>
  BY DEF RemoveNeighbor
<1> HIDE DEF ad, vw, ch
<1> QED
  BY <1>2, <1>3, <1>4, <1>5, NeighborInv

LEMMA SyncStateTypes ==
  ASSUME TypeInv, NEW n \in Routers, NEW l \in Links
  PROVE  SyncState(n, l) \in Views
<1>1. CASE HasEntry(n)
  <2>1. entry[n] \in Entry
    BY <1>1 DEF TypeInv, HasEntry
  <2>2. entry[n].ifs[l].rpc \in Nat
    BY <2>1 DEF Entry, Interface
  <2> QED
    BY <2>2 DEF SyncState, Views, NoInfo
<1>2. CASE ~HasEntry(n)
  BY <1>2 DEF SyncState, Views, NoInfo
<1> QED
  BY <1>1, <1>2

LEMMA ResyncInv ==
  ASSUME TreeInv, NEW p \in Pairs, Resync(p), events' \in 0 .. MaxEvents
  PROVE  TreeInv'
<1> DEFINE q == Mirror(p)
<1>1. /\ TypeInv /\ TablesInv /\ AdjInv /\ BothUp(p) /\ q \in Pairs
      /\ p.at \in Routers /\ p.of \in Routers /\ p.link \in Links
      /\ q.at = p.of /\ q.link = p.link /\ q # p
  BY PairTypes DEF TreeInv, TypeInv, Resync
<1>2. /\ adj' = [adj EXCEPT ![p] = "Syncing", ![q] = "Syncing"]
      /\ view' = [view EXCEPT ![p] = SyncState(p.of, p.link), ![q] = SyncState(p.at, p.link)]
      /\ chan' = [chan EXCEPT ![p] = <<>>, ![q] = <<>>]
      /\ UNCHANGED <<entry, route, pending, hosts, members, up, sending, removing>>
  BY DEF Resync
<1> HIDE DEF q
<1>3. TypeInv'
  <2>1. SyncState(p.of, p.link) \in Views /\ SyncState(p.at, p.link) \in Views
    BY <1>1, SyncStateTypes
  <2>2. view' \in [Pairs -> Views] /\ adj' \in [Pairs -> AdjStates]
    BY <1>1, <1>2, <2>1 DEF TypeInv, AdjStates
  <2>3. Channels(chan')
    BY <1>1, <1>2, EmptyTypes DEF TypeInv
  <2>4. TablesInv'
    BY <1>1, <1>2, TablesLeft
  <2> QED
    BY <1>1, <1>2, <2>2, <2>3, <2>4 DEF TypeInv
<1>4. adj'[p] = "Syncing" /\ adj'[q] = "Syncing"
      /\ \A r \in Pairs : r # p /\ r # q => adj'[r] = adj[r] /\ view'[r] = view[r]
  BY <1>1, <1>2 DEF TypeInv
<1>5. AdjInv'
  <2>1. p.link \in up[p.at] /\ q.link \in up[q.at]
    BY <1>1 DEF BothUp
  <2>2. \A r \in Pairs : adj'[r] # "Down" => r.link \in up[r.at]
    BY <1>1, <1>4, <2>1 DEF AdjInv
  <2> QED
    BY <1>2, <2>2 DEF AdjInv
<1>6. ASSUME NEW n \in Routers PROVE Fits(n)'
  BY <1>2 DEF TreeInv, Fits, Route
<1>7. ASSUME NEW n \in Routers, NEW l \in Links
      PROVE  Seeing(n, l, entry[n], removing[n], view, adj)'
  <2>1. Seeing(n, l, entry[n], removing[n], view, adj)
    BY DEF TreeInv, Sees
  <2>2. \A r \in NeighborsOf[n][l] : r \in Pairs
    BY NeighborTypes
  <2>3. CASE entry[n] = NoEntry
    <3>1. ASSUME NEW r \in Read(n, l, adj'), IsUp(r, view')
          PROVE  r \in Read(n, l, adj) /\ IsUp(r, view)
      BY <1>4, <2>2, <3>1 DEF Read, IsUp
    <3>2. UpstreamState(n, l, view, adj) = NoUpstream
      BY <2>1, <2>3 DEF Seeing
    <3>3. ~\E r \in Read(n, l, adj) : IsUp(r, view)
      BY <1>1, <3>2, UpstreamFacts DEF TypeInv
    <3>4. UpstreamState(n, l, view', adj') = NoUpstream
      BY <1>3, <3>1, <3>3, UpstreamFacts DEF TypeInv
    <3> QED
      BY <1>2, <2>3, <3>4 DEF Seeing
  <2>4. CASE entry[n] # NoEntry /\ p \notin NeighborsOf[n][l] /\ q \notin NeighborsOf[n][l]
    <3>1. \A r \in NeighborsOf[n][l] : adj'[r] = adj[r] /\ view'[r] = view[r]
      BY <1>4, <2>2, <2>4
    <3>2. /\ UpstreamState(n, l, view', adj') = UpstreamState(n, l, view, adj)
          /\ InterestState(n, l, view', adj') = InterestState(n, l, view, adj)
      BY <3>1, SameViews
    <3> QED
      BY <1>2, <2>1, <2>4, <3>1, <3>2 DEF Seeing
  <2>5. CASE entry[n] # NoEntry /\ (p \in NeighborsOf[n][l] \/ q \in NeighborsOf[n][l])
    BY <1>2, <1>4, <2>5 DEF Seeing
  <2> QED
    BY <2>3, <2>4, <2>5
<1> QED
  BY <1>3, <1>5, <1>6, <1>7 DEF TreeInv, Sees

-----------------------------------------------------------------------------
(* The steps that change the interfaces of a router, and the removal thread *)

\* Of a link without a Neighbor object nothing is heard.
LEMMA NobodyThere ==
  ASSUME NEW n \in Routers, NEW l \in Links, NEW vw \in [Pairs -> Views], NEW ad,
         \A p \in NeighborsOf[n][l] : ad[p] = "Down"
  PROVE  UpstreamState(n, l, vw, ad) = NoUpstream /\ InterestState(n, l, vw, ad) = FALSE
<1>1. Read(n, l, ad) = {}
  BY DEF Read
<1>2. UpstreamState(n, l, vw, ad) = NoUpstream
  BY <1>1, UpstreamFacts
<1>3. InterestState(n, l, vw, ad) = FALSE
  BY <1>1 DEF InterestState
<1> QED
  BY <1>2, <1>3

LEMMA InterfaceDownInv ==
  ASSUME TreeInv, NEW n \in Routers, NEW l \in Links, InterfaceDown(n, l)
  PROVE  TreeInv'
<1> DEFINE mine == NeighborsOf[n][l]
           ad == [p \in Pairs |-> IF p \in mine THEN "Down" ELSE adj[p]]
           vw == [p \in Pairs |-> IF p \in mine THEN NoInfo ELSE view[p]]
           ch == [p \in Pairs |-> IF p \in mine \/ Mirror(p) \in mine THEN <<>> ELSE chan[p]]
           f == IF HasEntry(n) THEN RemoveInterface(entry[n], l) ELSE NoEntry
           vifs == up[n] \ {l}
           ms == members[n] \ {l}
           rt == UnicastInfo(n, route[n], vifs)
<1>1. /\ TypeInv /\ TablesInv /\ AdjInv /\ Fits(n) /\ Sees(n)
      /\ l \in up[n] /\ Event("interface")
      /\ up' = [up EXCEPT ![n] = vifs] /\ members' = [members EXCEPT ![n] = ms]
      /\ view' = vw /\ Became(n, f, ch, ad)
      /\ UNCHANGED <<route, pending, hosts, sending>>
  BY DEF TreeInv, TypeInv, InterfaceDown
<1>2. events' \in 0 .. MaxEvents
  BY <1>1, EventCounts
<1>3. TablesInv' /\ up'[n] = vifs /\ members'[n] = ms
  BY <1>1, <1>2 DEF TablesInv
<1>4. mine = {p \in Pairs : p.link = l /\ p.at = n}
  BY NeighborTypes
<1>5. /\ ad \in [Pairs -> AdjStates] /\ vw \in [Pairs -> Views]
      /\ \A p \in mine : ad[p] = "Down"
      /\ \A p \in Pairs : p \notin mine => ad[p] = adj[p] /\ vw[p] = view[p]
  BY <1>1, <1>4 DEF TypeInv, AdjStates, Views, NoInfo
<1>6. Channels(ch)
  <2> DEFINE s == <<>>
  <2>1. s \in Seq(Messages) /\ Len(s) <= MaxInFlight
    BY EventsAssumption
  <2> HIDE DEF s
  <2>2. Channels([p \in Pairs |-> IF p \in mine \/ Mirror(p) \in mine THEN s ELSE chan[p]])
    BY <1>1, <2>1 DEF TypeInv, Channels
  <2> QED
    BY <2>2 DEF s
<1>7. UpstreamState(n, l, vw, ad) = NoUpstream /\ InterestState(n, l, vw, ad) = FALSE
  BY <1>5, NobodyThere
<1>8. ASSUME NEW i \in Links, i # l, NEW p \in NeighborsOf[n][i]
      PROVE  ad[p] = adj[p] /\ vw[p] = view[p]
  <2>1. p \in Pairs /\ p \notin mine
    BY <1>4, <1>8, NeighborTypes
  <2> QED
    BY <1>5, <2>1
<1>9. \A p \in Pairs : /\ p.at # n => vw[p] = view[p] /\ ad[p] = adj[p]
                       /\ ad[p] # "Down" => p.link \in up'[p.at]
  <2>1. ASSUME NEW p \in Pairs, p.at = n, p \notin mine, adj[p] # "Down" PROVE p.link \in up'[p.at]
    BY <1>1, <1>3, <1>4, <2>1 DEF AdjInv
  <2>2. ASSUME NEW p \in Pairs, p.at # n, adj[p] # "Down" PROVE p.link \in up'[p.at]
    BY <1>1, <2>2, PairTypes DEF AdjInv, TablesInv
  <2> QED
    BY <1>4, <1>5, <2>1, <2>2
<1>10. Route(n)' = rt
  BY <1>1, <1>3 DEF Route
<1> HIDE DEF vw, ad, ch, mine
<1>11. \A i \in Links : i # l =>
         /\ UpstreamState(n, i, vw, ad) = UpstreamState(n, i, view, adj)
         /\ InterestState(n, i, vw, ad) = InterestState(n, i, view, adj)
  BY <1>8, SameViews
<1>12. Lands(n, f, ms, vifs, removing[n], rt, pending, vw, ad)
  <2>1. CASE HasEntry(n)
    <3> DEFINE e == entry[n]
    <3>1. /\ Whole(e) /\ e.local = members[n] /\ \A i \in Links : Present(e, i) <=> i \in up[n]
          /\ removing[n] = 0 /\ n \notin pending => e.inbound = Route(n).rif /\ e.rpc = Route(n).rpc
      BY <1>1, <2>1 DEF Fits, Fitting, HasEntry
    <3>2. InterfaceRemoved(f, e, l)
      BY <1>1, <2>1, <3>1, InterfaceIsRemoved
    <3> HIDE DEF f
    <3>3. /\ Whole(f) /\ Removed(f, e) /\ f.router = e.router /\ f.rpc = e.rpc
          /\ f.inbound = (IF e.inbound = l THEN None ELSE e.inbound)
          /\ f.ups[l] = NoUpstream /\ f.int[l] = FALSE /\ f.local = ms
          /\ \A i \in Links : i # l => f.ups[i] = e.ups[i] /\ f.int[i] = e.int[i]
          /\ \A i \in Links : Present(f, i) <=> i \in vifs
      BY <3>1, <3>2 DEF InterfaceRemoved
    <3>4. removing[n] = 0 /\ n \notin pending => f.inbound = rt.rif /\ f.rpc = rt.rpc
      BY <3>1, <3>3 DEF Route, UnicastInfo
    <3>5. ASSUME removing[n] = 0, NEW i \in Links, \A p \in NeighborsOf[n][i] : ad[p] # "Syncing"
          PROVE  f.ups[i] = UpstreamState(n, i, vw, ad) /\ f.int[i] = InterestState(n, i, vw, ad)
      <4>1. CASE i = l
        BY <1>7, <3>3, <4>1
      <4>2. CASE i # l
        <5>1. \A p \in NeighborsOf[n][i] : adj[p] # "Syncing"
          BY <1>8, <3>5, <4>2
        <5>2. e.ups[i] = UpstreamState(n, i, view, adj) /\ e.int[i] = InterestState(n, i, view, adj)
          BY <1>1, <2>1, <3>5, <5>1 DEF Sees, Seeing, HasEntry
        <5> QED
          BY <1>11, <3>3, <4>2, <5>2
      <4> QED
        BY <4>1, <4>2
    <3> HIDE DEF e, vifs, ms, rt
    <3>6. Lands(n, f, f.local, vifs, removing[n], rt, pending, vw, ad)
      BY <1>1, <2>1, <3>3, <3>4, <3>5, ChangeLands DEF e
    <3> QED
      BY <3>3, <3>6
  <2>2. CASE ~HasEntry(n)
    <3>1. \A i \in Links : UpstreamState(n, i, view, adj) = NoUpstream
      BY <1>1, <2>2 DEF Sees, Seeing, HasEntry
    <3>2. \A i \in Links : UpstreamState(n, i, vw, ad) = NoUpstream
      BY <1>7, <1>11, <3>1
    <3>3. removing[n] \in Nat
      BY <1>1 DEF TypeInv
    <3> QED
      BY <2>2, <3>2, <3>3, NothingLands
  <2> QED
    BY <2>1, <2>2
<1> HIDE DEF f, vifs, ms, rt
<1>13. Lands(n, f, members'[n], up'[n], removing[n], Route(n)', pending', view', ad)
  BY <1>1, <1>3, <1>10, <1>12
<1>14. \A m \in Routers \ {n} : /\ members'[m] = members[m] /\ up'[m] = up[m]
                                /\ route'[m] = route[m] /\ (m \in pending <=> m \in pending')
  BY <1>1 DEF TablesInv
<1>15. \A p \in Pairs : /\ p.at # n => view'[p] = view[p] /\ ad[p] = adj[p]
                        /\ ad[p] # "Down" => p.link \in up'[p.at]
  BY <1>1, <1>9
<1>16. view' \in [Pairs -> Views] /\ Became(n, f, ch, ad)
  BY <1>1, <1>5
<1> QED
  BY <1>3, <1>5, <1>6, <1>13, <1>14, <1>15, <1>16, BecameInv

LEMMA InterfaceUpInv ==
  ASSUME TreeInv, NEW n \in Routers, NEW l \in Links, InterfaceUp(n, l)
  PROVE  TreeInv'
<1> DEFINE vifs == up[n] \cup {l}
           rt == UnicastInfo(n, route[n], vifs)
           f == IF HasEntry(n) THEN AddedInterface(entry[n], l, rt) ELSE NoEntry
<1>1. /\ TypeInv /\ TablesInv /\ AdjInv /\ Fits(n) /\ Sees(n)
      /\ l \in AttachedTo(n) /\ l \notin up[n]
      /\ \A p \in Pairs : p.link = l /\ n \in {p.at, p.of} => adj[p] = "Down"
      /\ up' = [up EXCEPT ![n] = vifs]
      /\ UNCHANGED <<view, route, pending, hosts, members, sending, events>>
  BY DEF TreeInv, TypeInv, InterfaceUp
<1>2. TablesInv' /\ up'[n] = vifs
  BY <1>1 DEF TablesInv
<1>3. Became(n, f, chan, adj)
  BY <1>2 DEF InterfaceUp, AddedInterface
<1>4. Route(n)' = rt
  BY <1>1, <1>2 DEF Route
<1>5. UpstreamState(n, l, view, adj) = NoUpstream /\ InterestState(n, l, view, adj) = FALSE
  <2>1. \A p \in NeighborsOf[n][l] : adj[p] = "Down"
    BY <1>1, NeighborTypes
  <2> QED
    BY <1>1, <2>1, NobodyThere DEF TypeInv
<1>6. l \notin members[n]
  BY <1>1 DEF TablesInv
<1>7. Lands(n, f, members[n], vifs, removing[n], rt, pending, view, adj)
  <2>1. CASE HasEntry(n)
    <3> DEFINE e == entry[n]
    <3>1. /\ Whole(e) /\ e.router = n
          /\ e.local = members[n] /\ \A i \in Links : Present(e, i) <=> i \in up[n]
          /\ removing[n] = 0 /\ n \notin pending => e.inbound = Route(n).rif /\ e.rpc = Route(n).rpc
      BY <1>1, <2>1 DEF Fits, Fitting, HasEntry
    <3>2. \E k \in 1 .. Len(Vifs[e.router]) : Vifs[e.router][k] = l
      BY <1>1, <3>1, AttachedIsVif
    <3>3. InterfaceAdded(f, e, l, rt.rif)
      <4>1. ~Present(e, l) /\ f = AddedInterface(e, l, rt)
        BY <1>1, <2>1, <3>1
      <4> HIDE DEF f, e, rt
      <4> QED
        BY <3>1, <3>2, <4>1, InterfaceIsAdded
    <3> HIDE DEF f
    <3>4. /\ Whole(f) /\ Removed(f, e) /\ f.router = e.router /\ f.rpc = e.rpc
          /\ f.inbound = (IF rt.rif = l THEN l ELSE e.inbound)
          /\ f.ups[l] = NoUpstream /\ f.int[l] = FALSE /\ f.local = members[n]
          /\ \A i \in Links : i # l => f.ups[i] = e.ups[i] /\ f.int[i] = e.int[i]
          /\ \A i \in Links : Present(f, i) <=> i \in vifs
      BY <1>6, <3>1, <3>3 DEF InterfaceAdded
    <3>5. removing[n] = 0 /\ n \notin pending => f.inbound = rt.rif /\ f.rpc = rt.rpc
      BY <3>1, <3>4 DEF Route, UnicastInfo
    <3>6. ASSUME removing[n] = 0, NEW i \in Links, \A p \in NeighborsOf[n][i] : adj[p] # "Syncing"
          PROVE  f.ups[i] = UpstreamState(n, i, view, adj) /\ f.int[i] = InterestState(n, i, view, adj)
      <4>1. CASE i = l
        BY <1>5, <3>4, <4>1
      <4>2. CASE i # l
        BY <1>1, <2>1, <3>4, <3>6, <4>2 DEF Sees, Seeing, HasEntry
      <4> QED
        BY <4>1, <4>2
    <3> HIDE DEF e, vifs, rt
    <3>7. Lands(n, f, f.local, vifs, removing[n], rt, pending, view, adj)
      BY <1>1, <2>1, <3>4, <3>5, <3>6, ChangeLands DEF e
    <3> QED
      BY <3>4, <3>7
  <2>2. CASE ~HasEntry(n)
    <3>1. \A i \in Links : UpstreamState(n, i, view, adj) = NoUpstream
      BY <1>1, <2>2 DEF Sees, Seeing, HasEntry
    <3>2. removing[n] \in Nat
      BY <1>1 DEF TypeInv
    <3> QED
      BY <2>2, <3>1, <3>2, NothingLands
  <2> QED
    BY <2>1, <2>2
<1> HIDE DEF f, vifs, rt
<1>8. Lands(n, f, members'[n], up'[n], removing[n], Route(n)', pending', view', adj)
  BY <1>1, <1>2, <1>4, <1>7
<1>9. \A m \in Routers \ {n} : /\ members'[m] = members[m] /\ up'[m] = up[m]
                               /\ route'[m] = route[m] /\ (m \in pending <=> m \in pending')
  BY <1>1 DEF TablesInv
<1>10. \A p \in Pairs : /\ p.at # n => view'[p] = view[p] /\ adj[p] = adj[p]
                        /\ adj[p] # "Down" => p.link \in up'[p.at]
  BY <1>1, PairTypes DEF AdjInv, TablesInv, vifs
<1>11. /\ Channels(chan) /\ adj \in [Pairs -> AdjStates] /\ view' \in [Pairs -> Views]
  BY <1>1 DEF TypeInv
<1> QED
  BY <1>2, <1>3, <1>8, <1>9, <1>10, <1>11, BecameInv

LEMMA RemoveTreeInv ==
  ASSUME TreeInv, NEW n \in Routers, RemoveTree(n)
  PROVE  TreeInv'
<1> DEFINE known == \E p \in Pairs : p.at = n /\ adj[p] = "Synced" /\ view[p].kind = "IamUpstream"
           f == IF HasEntry(n) /\ known THEN NewEntry(n, view, adj) ELSE NoEntry
           vw == IF HasEntry(n) /\ ~known THEN Forget(view, n, Links) ELSE view
           r == removing[n] - 1
<1>1. /\ TypeInv /\ TablesInv /\ AdjInv /\ Fits(n) /\ Sees(n) /\ view \in [Pairs -> Views]
      /\ removing[n] > 0 /\ view' = vw
      /\ entry' = [entry EXCEPT ![n] = Clean(f)] /\ chan' = Deliver(chan, adj, n, Out(f))
      /\ removing' = [removing EXCEPT ![n] = r + Removals(f)]
      /\ UNCHANGED <<adj, route, pending, hosts, members, up, sending, events>>
  BY DEF TreeInv, TypeInv, RemoveTree, Removals
<1>2. r \in Nat
  BY <1>1 DEF TypeInv
<1>3. known <=> \E l \in Links : UpstreamState(n, l, view, adj) # NoUpstream
  <2>1. ASSUME NEW p \in Pairs, p.at = n, adj[p] = "Synced", view[p].kind = "IamUpstream"
        PROVE  UpstreamState(n, p.link, view, adj) # NoUpstream /\ p.link \in Links
    <3>1. p.link \in Links /\ p \in Read(n, p.link, adj) /\ IsUp(p, view)
      BY <2>1, PairTypes DEF Read, IsUp
    <3> QED
      BY <1>1, <3>1, UpstreamFacts
  <2>2. ASSUME NEW l \in Links, UpstreamState(n, l, view, adj) # NoUpstream PROVE known
    <3>1. PICK p \in Read(n, l, adj) : IsUp(p, view)
      BY <1>1, <2>2, UpstreamFacts
    <3>2. p \in Pairs /\ p.at = n /\ adj[p] = "Synced"
      BY NeighborTypes DEF Read
    <3> QED
      BY <3>1, <3>2 DEF IsUp
  <2> QED
    BY <2>1, <2>2
<1> HIDE DEF known
<1>4. Lands(n, f, members[n], up[n], r, Route(n), pending, vw, adj)
      /\ vw \in [Pairs -> Views] /\ \A p \in Pairs : p.at # n => vw[p] = view[p]
  <2>1. CASE HasEntry(n) /\ known
    <3>1. f = NewEntry(n, view, adj) /\ vw = view
      BY <2>1
    <3> HIDE DEF f, vw, r
    <3> QED
      BY <1>1, <1>2, <1>3, <2>1, <3>1, NewEntryLands
  <2>2. CASE HasEntry(n) /\ ~known
    <3>1. f = NoEntry /\ vw = Forget(view, n, Links)
      BY <2>2
    <3> HIDE DEF f, vw, r
    <3>2. Lands(n, f, members[n], up[n], r, Route(n), pending, view, adj)
      BY <1>2, <1>3, <2>2, <3>1, NothingLands
    <3>3. Lands(n, f, members[n], up[n], r, Route(n), pending, Forget(view, n, Links), adj)
      BY <1>1, <3>1, <3>2, ForgetLands
    <3>4. /\ Forget(view, n, Links) \in [Pairs -> Views]
          /\ \A p \in Pairs : p.at # n => Forget(view, n, Links)[p] = view[p]
      BY <1>1, ForgetTypes
    <3> QED
      BY <3>1, <3>3, <3>4
  <2>3. CASE ~HasEntry(n)
    <3>1. f = NoEntry /\ vw = view
      BY <2>3
    <3>2. \A i \in Links : UpstreamState(n, i, view, adj) = NoUpstream
      BY <1>1, <2>3 DEF Sees, Seeing, HasEntry
    <3> HIDE DEF f, vw, r
    <3> QED
      BY <1>1, <1>2, <3>1, <3>2, NothingLands
  <2> QED
    BY <2>1, <2>2, <2>3
<1> HIDE DEF f, vw, r
<1>5. /\ f \in Entry \cup {NoEntry} /\ r + Removals(f) \in Nat
      /\ Out(f) \in Seq(Messages) /\ Clean(f) \in Entry \cup {NoEntry}
  BY <1>4, OutTypes DEF Lands
<1>6. TypeInv'
  <2>1. Channels(chan')
    BY <1>1, <1>5, DeliverTypes DEF TypeInv
  <2>2. TablesInv'
    BY <1>1 DEF TablesInv
  <2> QED
    BY <1>1, <1>4, <1>5, <2>1, <2>2 DEF TypeInv
<1>7. AdjInv'
  BY <1>1 DEF AdjInv
<1>8. /\ entry'[n] = Clean(f) /\ removing'[n] = r + Removals(f)
      /\ \A m \in Routers \ {n} : entry'[m] = entry[m] /\ removing'[m] = removing[m]
  BY <1>1 DEF TypeInv
<1>9. OthersLeft(n)
  BY <1>1, <1>4, <1>8 DEF OthersLeft
<1>10. Route(n)' = Route(n)
  BY <1>1 DEF Route
<1>11. Fits(n)' /\ Sees(n)'
  BY <1>1, <1>4, <1>8, <1>10 DEF Fits, Sees, Lands
<1> QED
  BY <1>6, <1>7, <1>9, <1>11, OthersAgree

-----------------------------------------------------------------------------
(* The specification *)

LEMMA InitInv ==
  ASSUME Init
  PROVE  TreeInv
<1> DEFINE s == <<>>
<1>1. s \in Seq(Messages) /\ Len(s) <= MaxInFlight
  BY EventsAssumption
<1>2. /\ entry = [n \in Routers |-> NoEntry] /\ view = [p \in Pairs |-> NoInfo]
      /\ adj = [p \in Pairs |-> "Synced"] /\ chan = [p \in Pairs |-> s]
      /\ up = [n \in Routers |-> AttachedTo(n)] /\ removing = [n \in Routers |-> 0]
      /\ members = [n \in Routers |-> HostLinks \cap AttachedTo(n)]
  BY DEF Init
<1> HIDE DEF s
<1>3. Channels(chan)
  BY <1>1, <1>2 DEF Channels
<1>4. view \in [Pairs -> Views] /\ adj \in [Pairs -> AdjStates] /\ removing \in [Routers -> Nat]
      /\ entry \in [Routers -> Entry \cup {NoEntry}]
  BY <1>2 DEF Views, NoInfo, AdjStates
<1>5. TablesInv
  <2>1. \A n \in Routers : AttachedTo(n) \in SUBSET Links
    BY AttachedIsVif
  <2>2. 0 \in 0 .. MaxEvents
    BY EventsAssumption
  <2> QED
    BY <2>1, <2>2 DEF Init, TablesInv
<1>6. AdjInv
  BY <1>2, PairTypes DEF AdjInv, Pairs
<1>7. ASSUME NEW n \in Routers PROVE Fits(n)
  BY <1>2 DEF Fits, Fitting
<1>8. ASSUME NEW n \in Routers, NEW l \in Links
      PROVE  Seeing(n, l, entry[n], removing[n], view, adj)
  <2>1. \A p \in Pairs : ~IsUp(p, view)
    BY <1>2 DEF IsUp, NoInfo
  <2>2. \A p \in Read(n, l, adj) : p \in Pairs
    BY NeighborTypes DEF Read
  <2>3. UpstreamState(n, l, view, adj) = NoUpstream
    BY <1>4, <2>1, <2>2, UpstreamFacts
  <2> QED
    BY <1>2, <2>3 DEF Seeing
<1> QED
  BY <1>3, <1>4, <1>5, <1>6, <1>7, <1>8 DEF TreeInv, TypeInv, Sees

LEMMA NextInv ==
  ASSUME TreeInv, [Next]_vars
  PROVE  TreeInv'
<1>1. events \in 0 .. MaxEvents
  BY DEF TreeInv, TypeInv, TablesInv
<1>2. ASSUME NEW p \in Pairs, NEW k \in DOMAIN chan[p], Receive(p, k) PROVE TreeInv'
  BY <1>2, ReceiveInv
<1>3. ASSUME NEW p \in Pairs, Discover(p) PROVE TreeInv'
  <2>1. Resync(p) /\ events' = events
    BY <1>3 DEF Discover
  <2> QED
    BY <1>1, <2>1, ResyncInv
<1>4. ASSUME NEW p \in Pairs, Synced(p) PROVE TreeInv'
  BY <1>4, SyncedInv
<1>5. ASSUME NEW p \in Pairs, NeighborGone(p) PROVE TreeInv'
  <2>1. RemoveNeighbor(p) /\ events' = events
    BY <1>5 DEF NeighborGone
  <2> QED
    BY <1>1, <2>1, RemoveNeighborInv
<1>6. ASSUME NEW p \in Pairs, AdjacencyReset(p) PROVE TreeInv'
  <2>1. Resync(p) /\ Event("reset") /\ TablesInv
    BY <1>6 DEF AdjacencyReset, TreeInv, TypeInv
  <2> QED
    BY <2>1, EventCounts, ResyncInv
<1>7. ASSUME NEW p \in Pairs, NeighborFails(p) PROVE TreeInv'
  <2>1. RemoveNeighbor(p) /\ Event("fail") /\ TablesInv
    BY <1>7 DEF NeighborFails, TreeInv, TypeInv
  <2> QED
    BY <2>1, EventCounts, RemoveNeighborInv
<1>8. ASSUME NEW n \in Routers,
             DataArrives(n) \/ SourceExpires(n) \/ NotifyUnicastChanges(n) \/ RemoveTree(n)
      PROVE  TreeInv'
  BY <1>8, DataArrivesInv, SourceExpiresInv, NotifyUnicastChangesInv, RemoveTreeInv
<1>9. ASSUME NEW n \in Routers, NEW l \in Links,
             HoldTimeout(n, l) \/ InterfaceUp(n, l) \/ MembershipChange(n, l) \/ InterfaceDown(n, l)
      PROVE  TreeInv'
  BY <1>9, HoldTimeoutInv, InterfaceUpInv, MembershipChangeInv, InterfaceDownInv
<1>10. CASE SourceChanges \/ \E l \in HostLinks : MembersChange(l)
  BY <1>10, EnvironmentInv
<1>11. ASSUME NEW n \in Routers, NEW r \in Routes[n], UnicastChange(n, r) PROVE TreeInv'
  BY <1>11, UnicastChangeInv
<1>12. CASE UNCHANGED vars
  BY <1>12 DEF vars, TreeInv, TypeInv, TablesInv, AdjInv, Fits, Sees, Route
<1>13. CASE Step
  BY <1>2, <1>3, <1>4, <1>5, <1>8, <1>9, <1>13 DEF Step
<1>14. CASE Environment
  BY <1>6, <1>7, <1>9, <1>10, <1>11, <1>14 DEF Environment
<1> QED
  BY <1>12, <1>13, <1>14 DEF Next

LEMMA TreeInvariant == Spec => []TreeInv
<1>1. Init => TreeInv
  BY InitInv
<1>2. TreeInv /\ [Next]_vars => TreeInv'
  BY NextInv
<1> QED
  BY <1>1, <1>2, PTL DEF Spec

-----------------------------------------------------------------------------
(* What holds of the network *)

LEMMA TreeInvTypes ==
  ASSUME TreeInv
  PROVE  TreeTypeOK
<1>1. TypeInv /\ TablesInv
  BY DEF TreeInv, TypeInv
<1>2. ASSUME NEW n \in Routers, HasEntry(n)
      PROVE  /\ entry[n].out = <<>> /\ entry[n].removals = 0 /\ entry[n] \in Entry
             /\ \A l \in Links : /\ Present(entry[n], l) <=> l \in up[n]
                                 /\ entry[n].ifs[l].role = "Root" <=> l = entry[n].inbound
  BY <1>2 DEF TreeInv, Fits, Fitting, HasEntry, Whole
<1> QED
  BY <1>1, <1>2 DEF TreeTypeOK, TypeInv, TablesInv, Channels, AdjStates

\* Whatever the routers, the links and the routes are, and whatever happens to
\* them, an entry has an interface for every vif of its router, of which the
\* inbound one is the root interface and no other is (interface_state in
\* KernelEntry.py), and the other tables hold what they may.
THEOREM TreeTypesAreKept == Spec => []TreeTypeOK
<1>1. TreeInv => TreeTypeOK
  BY TreeInvTypes
<1> QED
  BY <1>1, TreeInvariant, PTL

\* At rest the multicast route in the kernel has the root interface of the entry and
\* the interfaces that forward: every change of either was followed by change()
\* (KernelEntry.py), whichever way the entry came to its state.
THEOREM KernelRouteIsCurrent == Spec => []RouteIsCurrent
<1>1. ASSUME TreeInv, AtRest, NEW n \in Routers, HasEntry(n), entry[n].inbound # None
      PROVE  entry[n].mfc = [iif |-> entry[n].inbound, oil |-> OutboundInterfaces(entry[n])]
  <2>1. Whole(entry[n]) /\ entry[n].tree # "Inactive"
    <3>1. removing[n] = 0
      BY <1>1 DEF AtRest
    <3> QED
      BY <1>1, <3>1 DEF TreeInv, Fits, Fitting, HasEntry
  <2> QED
    BY <1>1, <2>1 DEF Whole, Current
<1>2. TreeInv => RouteIsCurrent
  BY <1>1 DEF RouteIsCurrent
<1> QED
  BY <1>2, TreeInvariant, PTL

\* At rest an entry has the root interface and the RPC of the unicast route of its
\* router: no order of creations, updates, interface changes and removals leaves
\* the ones of an older route (create_entry, network_update, new_interface,
\* remove_interface).
THEOREM EntriesFollowRoutes == Spec => []EntryFollowsRoute
<1>1. ASSUME TreeInv, AtRest, NEW n \in Routers, HasEntry(n)
      PROVE  entry[n].inbound = Route(n).rif /\ entry[n].rpc = Route(n).rpc
  <2>1. removing[n] = 0 /\ n \notin pending
    BY <1>1 DEF AtRest
  <2> QED
    BY <1>1, <2>1 DEF TreeInv, Fits, Fitting, HasEntry
<1>2. TreeInv => EntryFollowsRoute
  BY <1>1 DEF EntryFollowsRoute
<1> QED
  BY <1>2, TreeInvariant, PTL

\* At rest the best UPSTREAM neighbor and the interest that an entry remembers for
\* each interface are those its neighbors state, and a router without an entry has
\* no UPSTREAM neighbor: no message, snapshot, failure of a neighbor or removal of
\* the tree is missed (get_tree_state, check_interface_state, _remove_multicast_route).
THEOREM StatesFollowViews == Spec => []StateFollowsViews
<1>1. ASSUME TreeInv, AtRest, NEW n \in Routers, NEW l \in AttachedTo(n)
      PROVE  IF HasEntry(n) THEN /\ entry[n].ups[l] = UpstreamState(n, l, view, adj)
                                 /\ entry[n].int[l] = InterestState(n, l, view, adj)
             ELSE UpstreamState(n, l, view, adj) = NoUpstream
  <2>1. l \in Links /\ removing[n] = 0
    BY <1>1, AttachedIsVif DEF AtRest
  <2>2. \A p \in NeighborsOf[n][l] : adj[p] # "Syncing"
    BY <1>1, <2>1, NeighborTypes DEF AtRest
  <2>3. Seeing(n, l, entry[n], removing[n], view, adj)
    BY <1>1, <2>1 DEF TreeInv, Sees
  <2> QED
    BY <2>1, <2>2, <2>3 DEF Seeing, HasEntry
<1>2. TreeInv => StateFollowsViews
  BY <1>1 DEF StateFollowsViews
<1> QED
  BY <1>2, TreeInvariant, PTL
=============================================================================
