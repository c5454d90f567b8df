--------------------------- MODULE MCTreeNetwork ---------------------------
(***************************************************************************)
(* Four topologies for TreeNetwork.                                        *)
(***************************************************************************)
EXTENDS TreeNetwork

Route1(rpc, direct, rif) == [rpc |-> rpc, direct |-> direct, rif |-> rif]

\* Two links: 1 of the source, 2 with R1, R2 and R3, 3 with R2 and R3 and a host.
\* R1 is the originator.  R2 and R3 compete for link 3, on which R2 may have its
\* route; the cost of R3's route may change.
SharedVifs == <<<<1, 2>>, <<2, 3>>, <<2, 3>>>>
SharedRoutes == <<{Route1(0, TRUE, 1)},
                  {Route1(1, FALSE, 2), Route1(3, FALSE, 3)},
                  {Route1(1, FALSE, 2), Route1(2, FALSE, 2)}>>
SharedRemovable == <<{}, {3}, {2}>>

\* The same links, with R3 between R1 and R2: R2 is at the same time a neighbor of
\* R3 at its root link, UPSTREAM there, so R2 and R3 can hear of the tree from
\* each other.  R3 has a route as costly as that of R2, and a cheaper one.
LoopRoutes == <<{Route1(0, TRUE, 1)}, {Route1(2, FALSE, 3)},
                {Route1(2, FALSE, 2), Route1(1, FALSE, 2)}>>
Nothing3 == <<{}, {}, {}>>

\* R1 has two links, 1 and 2, in the subnet of the source, and link 3 to R2.
TwoWayVifs == <<<<1, 2, 3>>, <<3, 4>>>>
TwoWayRoutes == <<{Route1(0, TRUE, 1), Route1(0, TRUE, 2)}, {Route1(1, FALSE, 3)}>>
Nothing2 == <<{}, {}>>

\* R1, the originator, has link 3 to R2 and link 5 to R3, which has link 4 to R2.
\* R2 has the better RPC of these two.  Its route leads to link 2, where nobody
\* else runs the protocol, and may move to link 3.
DetourVifs == <<<<1, 3, 5>>, <<2, 3, 4>>, <<5, 4>>>>
DetourRoutes == <<{Route1(0, TRUE, 1)}, {Route1(2, FALSE, 2), Route1(2, FALSE, 3)},
                  {Route1(3, FALSE, 5)}>>
=============================================================================
