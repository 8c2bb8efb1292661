----------------------------- MODULE MCReliable -----------------------------
(* Instances of Reliable for TLC. *)
EXTENDS Reliable, TLC

OnlyClient == {Client}
BothPeers == {Client, Server}
Nobody == {}
TwoThenOne == [p \in Peer |-> IF p = Client THEN 2 ELSE 1]
ThreeThenOne == [p \in Peer |-> IF p = Client THEN 3 ELSE 1]
OnlyServer == {Server}
=============================================================================
