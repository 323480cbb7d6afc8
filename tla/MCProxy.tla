------------------------------- MODULE MCProxy -------------------------------
(* Instances of Proxy: connections that go through two hosts in a cache of one *)
(* leaf, one of them also written with a zone, and a blank name; or that come  *)
(* from a port which changes hands.                                            *)
EXTENDS Proxy, TLC

CONSTANTS c1, c2, a, aZone, b, blank, port, p1, p2

TwoHosts == [n \in {a, aZone, b, blank} |->
                CASE n \in {a, aZone} -> a [] n = b -> b [] n = blank -> NoHost]

MCLoads == {[sockets |-> {{<<port, p1>>}}, connects |-> TRUE, moves |-> 0, seconds |-> 0],
            [sockets |-> {{}, {<<port, p1>>, <<port, Self>>}}, connects |-> FALSE,
             moves |-> 2, seconds |-> 3]}
=============================================================================
