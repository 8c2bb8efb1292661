---------------------------- MODULE MCTlsSession ----------------------------
(* Instances of TlsSession for TLC. *)
EXTENDS TlsSession, TLC

TwoThenOne == [p \in Peer |-> IF p = Client THEN 2 ELSE 1]
=============================================================================
