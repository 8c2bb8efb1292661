---------------------------- MODULE ControlStream ----------------------------
(***************************************************************************)
(* What the reliability layer promises to the TLS object above it          *)
(* (reliable.h, "Reliability Layer module"): in each direction the records *)
(* one peer hands over reach the other one complete, once and in order.    *)
(* The k-th record a peer hands over is the number k.                      *)
(***************************************************************************)
EXTENDS Naturals, Sequences

CONSTANTS Client, Server, MaxRecords

VARIABLES written,     \* written[p]: how many records p has handed over
          delivered    \* delivered[p]: the records p has been given

vars == <<written, delivered>>

Peer == {Client, Server}
Other(p) == CHOOSE q \in Peer : q # p

Init == /\ written = [p \in Peer |-> 0]
        /\ delivered = [p \in Peer |-> << >>]

Write(p) == /\ written[p] < MaxRecords[p]
            /\ written' = [written EXCEPT ![p] = @ + 1]
            /\ UNCHANGED delivered

Deliver(p) == /\ Len(delivered[p]) < written[Other(p)]
              /\ delivered' = [delivered EXCEPT ![p] = Append(@, Len(@) + 1)]
              /\ UNCHANGED written

Next == \E p \in Peer : Write(p) \/ Deliver(p)

Spec == Init /\ [][Next]_vars /\ \A p \in Peer : WF_vars(Deliver(p))
=============================================================================
