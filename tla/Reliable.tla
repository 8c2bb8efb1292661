------------------------------- MODULE Reliable -------------------------------
(***************************************************************************)
(* The reliability layer of the OpenVPN control channel (reliable.c) under *)
(* its two callers: tls_process (ssl.c:2187), whose do-while sections are  *)
(* the sending and delivering actions, and tls_pre_decrypt (ssl.c:2742),   *)
(* which handles one incoming packet.  One key state of each of two peers; *)
(* every record written is acknowledged, retransmitted when its timer      *)
(* expires, and given in sequence to the other peer's TLS object.          *)
(*                                                                         *)
(* Abstracted: the contents of a record are its number; a timer is `due'   *)
(* or not; session ids, addresses, HMAC and key ids (see TlsSession) match.*)
(***************************************************************************)
EXTENDS ReliablePid, Sequences, FiniteSets

CONSTANTS
  Client, Server,
  SendSize,       \* TLS_RELIABLE_N_SEND_BUFFERS (ssl.h:89)
  RecSize,        \* TLS_RELIABLE_N_REC_BUFFERS (ssl.h:90)
  AckSize,        \* RELIABLE_ACK_SIZE (reliable.h:49)
  SendAckMax,     \* CONTROL_SEND_ACK_MAX (ssl.h:84)
  RemoteKnown,    \* peers that know the other's address before any packet
  XmitHold,       \* peers that hold output until linked (init.c:2233)
  MaxRecords,     \* bound: MaxRecords[p] is how many records p writes
  NetCapacity     \* bound: NetCapacity[p] is how many packets of p are in flight

Peer == {Client, Server}
Other(p) == CHOOSE q \in Peer : q # p

ASSUME ReliableAssumption ==
  /\ Client # Server
  /\ SendSize \in Nat \ {0} /\ RecSize \in Nat \ {0}
  /\ AckSize \in Nat \ {0} /\ SendAckMax \in Nat \ {0}
  /\ RemoteKnown \subseteq Peer /\ XmitHold \subseteq Peer
  /\ MaxRecords \in [Peer -> Nat] /\ NetCapacity \in [Peer -> Nat]
  /\ \A p \in Peer : MaxRecords[p] + SendSize + RecSize < Half

VARIABLES
  state,       \* ks->state, up to S_START
  linked,      \* ks->session_id_remote is defined
  hold,        \* send_reliable->hold
  snd_pid,     \* send_reliable->packet_id
  snd_buf,     \* active entries of send_reliable
  rcv_pid,     \* rec_reliable->packet_id
  rcv_buf,     \* active entries of rec_reliable
  rec_ack,     \* packet ids waiting to be acknowledged
  written,     \* records taken from the TLS object (and the initial reset)
  delivered,   \* records given to the TLS object
  net          \* packets in flight: may be lost, duplicated and reordered

vars == <<state, linked, hold, snd_pid, snd_buf, rcv_pid, rcv_buf, rec_ack,
          written, delivered, net>>

State == {"S_INITIAL", "S_PRE_START", "S_START"}
Op == {"RESET", "CONTROL"}
SendEntry == [op : Op, pid : PacketId, msg : Nat, due : BOOLEAN]
RecEntry == [pid : PacketId, msg : Nat]
Packet == [from : Peer, op : Op, pid : PacketId, msg : Nat, acks : SUBSET PacketId]
            \cup [from : Peer, op : {"ACK"}, acks : SUBSET PacketId]

TypeOK ==
  /\ state \in [Peer -> State]
  /\ linked \in [Peer -> BOOLEAN]
  /\ hold \in [Peer -> BOOLEAN]
  /\ snd_pid \in [Peer -> PacketId]
  /\ snd_buf \in [Peer -> SUBSET SendEntry]
  /\ rcv_pid \in [Peer -> PacketId]
  /\ rcv_buf \in [Peer -> SUBSET RecEntry]
  /\ rec_ack \in [Peer -> Seq(PacketId)]
  /\ written \in [Peer -> Nat]
  /\ \A p \in Peer : written[p] \in 0 .. MaxRecords[p]
  /\ delivered \in [Peer -> Seq(Nat)]
  /\ net \in SUBSET Packet

Init ==
  /\ state = [p \in Peer |-> "S_INITIAL"]
  /\ linked = [p \in Peer |-> FALSE]
  /\ hold = [p \in Peer |-> p \in XmitHold]
  /\ snd_pid = [p \in Peer |-> 0]
  /\ snd_buf = [p \in Peer |-> {}]
  /\ rcv_pid = [p \in Peer |-> 0]
  /\ rcv_buf = [p \in Peer |-> {}]
  /\ rec_ack = [p \in Peer |-> << >>]
  /\ written = [p \in Peer |-> 0]
  /\ delivered = [p \in Peer |-> << >>]
  /\ net = {}

-----------------------------------------------------------------------------
(* Operations of struct reliable and struct reliable_ack. *)

(* The packet ids that the first n places of rec_ack hold: what one packet
   carries. *)
AckIds(acks, n) == {acks[i] : i \in 1 .. n}
AckCount(acks, max) == IF Len(acks) > max THEN max ELSE Len(acks)
AckRest(acks, n) == SubSeq(acks, n + 1, Len(acks))

(* Drops the id when it is already there or the array is full. *)
acknowledge_packet_id(acks, pid) ==
  IF Len(acks) < AckSize /\ pid \notin AckIds(acks, Len(acks))
    THEN Append(acks, pid)
    ELSE acks

send_purge(buf, ids) == {e \in buf : e.pid \notin ids}
schedule_now(buf) == {[e EXCEPT !.due = TRUE] : e \in buf}

(* Mutation: ids already delivered are not looked at. *)
NotStored(p, pid) == \A e \in rcv_buf[p] : e.pid # pid

can_get(p) == Cardinality(rcv_buf[p]) < RecSize
wont_break_sequentiality(p, pid) == reliable_pid_in_range2(pid, rcv_pid[p], RecSize)
not_replay(p, pid) == /\ ~ reliable_pid_min(pid, rcv_pid[p])
                      /\ \A e \in rcv_buf[p] : e.pid # pid

(* An entry none of buf precedes. *)
IsLowest(e, buf) == e \in buf /\ \A f \in buf : ~ reliable_pid_min(f.pid, e.pid)

(* A free buffer, refused while the lowest unacknowledged id is a window behind. *)
get_buf_output_sequenced(p) ==
  /\ Cardinality(snd_buf[p]) < SendSize
  /\ \A e \in snd_buf[p] : IsLowest(e, snd_buf[p]) =>
       reliable_pid_in_range1(snd_pid[p], e.pid, SendSize)

Due(p) == {e \in snd_buf[p] : e.due}
can_send(p) == ~ hold[p] /\ Due(p) # {}

mark_active_outgoing(p, op) ==
  /\ snd_buf' = [snd_buf EXCEPT ![p] = @ \cup
       {[op |-> op, pid |-> snd_pid[p], msg |-> written[p] + 1, due |-> TRUE]}]
  /\ snd_pid' = [snd_pid EXCEPT ![p] = Plus(@, 1)]
  /\ written' = [written EXCEPT ![p] = @ + 1]

full_sync(p) == snd_buf[p] = {} /\ rec_ack[p] = << >>

(* tls_multi_process skips a session whose remote address is unknown. *)
AddressKnown(p) == p \in RemoteKnown \/ linked[p]

(* The link takes NetCapacity[p] packets of p at a time. *)
Transmit(m) == /\ Cardinality({k \in net : k.from = m.from}) < NetCapacity[m.from]
               /\ net' = net \cup {m}

-----------------------------------------------------------------------------
(* tls_process, one action for each section of its loop. *)

(* The initial handshake packet, a hard reset without contents. *)
InitialHandshake(p) ==
  /\ state[p] = "S_INITIAL" /\ AddressKnown(p)
  /\ get_buf_output_sequenced(p)
  /\ written[p] < MaxRecords[p]
  /\ mark_active_outgoing(p, "RESET")
  /\ state' = [state EXCEPT ![p] = "S_PRE_START"]
  /\ UNCHANGED <<linked, hold, rcv_pid, rcv_buf, rec_ack, delivered, net>>

(* The initial packet was acknowledged and nothing is left to acknowledge. *)
ReceivedInitialAck(p) ==
  /\ state[p] = "S_PRE_START"
  /\ full_sync(p)
  /\ state' = [state EXCEPT ![p] = "S_START"]
  /\ UNCHANGED <<linked, hold, snd_pid, snd_buf, rcv_pid, rcv_buf, rec_ack,
                 written, delivered, net>>

(* Reliable -> TCP/UDP: the lowest due entry, with some acknowledgements. *)
SendReliable(p) ==
  /\ AddressKnown(p) /\ can_send(p)
  /\ \E e \in Due(p) :
       LET n == AckCount(rec_ack[p], SendAckMax) IN
       /\ IsLowest(e, Due(p))
       /\ snd_buf' = [snd_buf EXCEPT ![p] = (@ \ {e}) \cup {[e EXCEPT !.due = FALSE]}]
       /\ rec_ack' = [rec_ack EXCEPT ![p] = AckRest(@, n)]
       /\ Transmit([from |-> p, op |-> e.op, pid |-> e.pid, msg |-> e.msg,
                    acks |-> AckIds(rec_ack[p], n)])
  /\ UNCHANGED <<state, linked, hold, snd_pid, rcv_pid, rcv_buf, written, delivered>>

(* Dedicated ACK -> TCP/UDP: only when the loop found nothing to send. *)
SendAck(p) ==
  /\ AddressKnown(p) /\ ~ can_send(p) /\ rec_ack[p] # << >>
  /\ LET n == AckCount(rec_ack[p], AckSize) IN
     /\ rec_ack' = [rec_ack EXCEPT ![p] = AckRest(@, n)]
     /\ Transmit([from |-> p, op |-> "ACK", acks |-> AckIds(rec_ack[p], n)])
  /\ UNCHANGED <<state, linked, hold, snd_pid, snd_buf, rcv_pid, rcv_buf,
                 written, delivered>>

(* Mutation: the lowest entry although it is not its turn. *)
DeliverLowest(p) ==
  /\ state[p] # "S_INITIAL" /\ AddressKnown(p)
  /\ \E e \in rcv_buf[p] :
       /\ IsLowest(e, rcv_buf[p])
       /\ rcv_buf' = [rcv_buf EXCEPT ![p] = @ \ {e}]
       /\ rcv_pid' = [rcv_pid EXCEPT ![p] = Plus(e.pid, 1)]
       /\ delivered' = [delivered EXCEPT ![p] = Append(@, e.msg)]
  /\ UNCHANGED <<state, linked, hold, snd_pid, snd_buf, rec_ack, written, net>>

(* Incoming Ciphertext -> TLS: the entry whose turn it is. *)
Deliver(p) ==
  /\ state[p] # "S_INITIAL" /\ AddressKnown(p)
  /\ \E e \in rcv_buf[p] :
       /\ e.pid = rcv_pid[p]
       /\ rcv_buf' = [rcv_buf EXCEPT ![p] = @ \ {e}]
       /\ rcv_pid' = [rcv_pid EXCEPT ![p] = Plus(e.pid, 1)]
       /\ delivered' = [delivered EXCEPT ![p] = Append(@, e.msg)]
  /\ UNCHANGED <<state, linked, hold, snd_pid, snd_buf, rec_ack, written, net>>

(* Outgoing Ciphertext -> Reliable. *)
Write(p) ==
  /\ state[p] = "S_START"
  /\ written[p] < MaxRecords[p]
  /\ get_buf_output_sequenced(p)
  /\ mark_active_outgoing(p, "CONTROL")
  /\ UNCHANGED <<state, linked, hold, rcv_pid, rcv_buf, rec_ack, delivered, net>>

(* Mutation: an entry sent once has no timer. *)
NoRetry(p, pid) == FALSE

(* next_try of an entry is reached. *)
RetryTime(p, pid) ==
  /\ \E e \in snd_buf[p] :
       /\ e.pid = pid /\ ~ e.due
       /\ snd_buf' = [snd_buf EXCEPT ![p] = (@ \ {e}) \cup {[e EXCEPT !.due = TRUE]}]
  /\ UNCHANGED <<state, linked, hold, snd_pid, rcv_pid, rcv_buf, rec_ack,
                 written, delivered, net>>

-----------------------------------------------------------------------------
(* tls_pre_decrypt: one packet of the control channel arrives. *)

(* Until a hard reset links the session every other packet is unroutable. *)
Routable(p, m) == linked[p] \/ m.op = "RESET"

(* Mutation: acknowledged even if it cannot be stored. *)
AcknowledgeAnyway(p, m) ==
  IF m.op # "ACK"
    THEN /\ rcv_buf' = [rcv_buf EXCEPT ![p] =
              IF can_get(p) /\ wont_break_sequentiality(p, m.pid) /\ not_replay(p, m.pid)
                THEN @ \cup {[pid |-> m.pid, msg |-> m.msg]} ELSE @]
         /\ rec_ack' = [rec_ack EXCEPT ![p] = acknowledge_packet_id(@, m.pid)]
    ELSE UNCHANGED <<rcv_buf, rec_ack>>

(* The record of m is stored unless it is a replay, and acknowledged even if
   it is one; without a free buffer or beyond the window it is neither. *)
StoreRecord(p, m) ==
  IF m.op # "ACK" /\ can_get(p) /\ wont_break_sequentiality(p, m.pid)
    THEN /\ rcv_buf' = [rcv_buf EXCEPT ![p] =
              IF not_replay(p, m.pid) THEN @ \cup {[pid |-> m.pid, msg |-> m.msg]} ELSE @]
         /\ rec_ack' = [rec_ack EXCEPT ![p] = acknowledge_packet_id(@, m.pid)]
    ELSE UNCHANGED <<rcv_buf, rec_ack>>

(* Mutation: the first packet does not end the hold of the output. *)
ProcessHolding(p, m) ==
  /\ Routable(p, m)
  /\ linked' = [linked EXCEPT ![p] = TRUE]
  /\ snd_buf' = [snd_buf EXCEPT ![p] =
       send_purge(IF linked[p] THEN @ ELSE schedule_now(@), m.acks)]
  /\ StoreRecord(p, m)
  /\ UNCHANGED <<state, hold, snd_pid, rcv_pid, written, delivered>>

Process(p, m) ==
  /\ Routable(p, m)
  /\ LET burst == ~ linked[p] IN
     /\ linked' = [linked EXCEPT ![p] = TRUE]
     /\ hold' = [hold EXCEPT ![p] = IF burst THEN FALSE ELSE @]
     /\ snd_buf' = [snd_buf EXCEPT ![p] =
          send_purge(IF burst THEN schedule_now(@) ELSE @, m.acks)]
  /\ StoreRecord(p, m)
  /\ UNCHANGED <<state, snd_pid, rcv_pid, written, delivered>>

Discard(p, m) ==
  /\ ~ Routable(p, m)
  /\ UNCHANGED <<state, linked, hold, snd_pid, snd_buf, rcv_pid, rcv_buf, rec_ack,
                 written, delivered>>

Receive(p, m) ==
  /\ m \in net /\ m.from = Other(p)
  /\ net' = net \ {m}
  /\ Process(p, m) \/ Discard(p, m)

(* The link delivers a packet and keeps a copy. *)
ReceiveDuplicate(p, m) ==
  /\ m \in net /\ m.from = Other(p)
  /\ net' = net
  /\ Process(p, m) \/ Discard(p, m)

Lose(m) ==
  /\ m \in net
  /\ net' = net \ {m}
  /\ UNCHANGED <<state, linked, hold, snd_pid, snd_buf, rcv_pid, rcv_buf, rec_ack,
                 written, delivered>>

-----------------------------------------------------------------------------
Next ==
  \/ \E p \in Peer :
       \/ InitialHandshake(p) \/ ReceivedInitialAck(p)
       \/ SendReliable(p) \/ SendAck(p)
       \/ Deliver(p) \/ Write(p)
       \/ \E e \in snd_buf[p] : RetryTime(p, e.pid)
       \/ \E m \in net : Receive(p, m) \/ ReceiveDuplicate(p, m)
  \/ \E m \in net : Lose(m)

(* A loop keeps running and a timer expires; of infinitely many copies of a
   record, or of an acknowledgement, the link delivers one. *)
ReceiveRecord(p, pid) == \E m \in net : m.op # "ACK" /\ m.pid = pid /\ Receive(p, m)
ReceiveAck(p, pid) == \E m \in net : pid \in m.acks /\ Receive(p, m)

Fairness ==
  \A p \in Peer :
    /\ WF_vars(InitialHandshake(p)) /\ WF_vars(ReceivedInitialAck(p))
    /\ WF_vars(SendReliable(p)) /\ WF_vars(SendAck(p)) /\ WF_vars(Deliver(p))
    /\ \A pid \in 0 .. MaxRecords[p] - 1 :
         WF_vars(RetryTime(p, pid)) /\ SF_vars(ReceiveAck(p, pid))
    /\ \A pid \in 0 .. MaxRecords[Other(p)] - 1 : SF_vars(ReceiveRecord(p, pid))

Spec == Init /\ [][Next]_vars
FairSpec == Spec /\ Fairness

-----------------------------------------------------------------------------
(* What a correct reliability layer guarantees. *)

(* Records reach the TLS object complete, once and in the order written,
   however the link reorders, repeats and loses the packets that carry them. *)
InOrderDelivery ==
  \A p \in Peer : /\ Len(delivered[p]) <= written[Other(p)]
                  /\ \A i \in 1 .. Len(delivered[p]) : delivered[p][i] = i

(* A record leaves the send buffer only once the other peer has it, stored
   or delivered: an acknowledgement is never ahead of the record. *)
HasRecord(p, pid) == pid < rcv_pid[p] \/ \E e \in rcv_buf[p] : e.pid = pid

NothingLost ==
  \A p \in Peer : \A pid \in PacketId :
    pid < snd_pid[p] =>
      (\E e \in snd_buf[p] : e.pid = pid) \/ HasRecord(Other(p), pid)

(* A full receive buffer holds the record whose turn it is, so that it can
   always be emptied (reliable_wont_break_sequentiality, reliable.c:410). *)
ReceiveBufferNeverClogs ==
  \A p \in Peer :
    ~ can_get(p) => \E e \in rcv_buf[p] : e.pid = rcv_pid[p]

(* The parts of the inductive invariant those two follow from.  An entry of
   the send buffer, a packet and an entry of the receive buffer carry the
   record their id names; ids received lie in the window; whatever is waiting
   to be acknowledged, or acknowledged in a packet, has been received. *)
SendInv ==
  \A p \in Peer :
    /\ snd_pid[p] = written[p]
    /\ \A e \in snd_buf[p] : e.pid < snd_pid[p] /\ e.msg = e.pid + 1

NetInv ==
  \A m \in net :
    /\ m.op # "ACK" => m.pid < snd_pid[m.from] /\ m.msg = m.pid + 1
    /\ \A a \in m.acks : HasRecord(m.from, a)

RecInv ==
  \A p \in Peer :
    /\ rcv_pid[p] = Len(delivered[p])
    /\ rcv_pid[p] <= snd_pid[Other(p)]
    /\ \A i \in 1 .. Len(delivered[p]) : delivered[p][i] = i
    /\ \A e \in rcv_buf[p] :
         /\ rcv_pid[p] <= e.pid /\ e.pid < rcv_pid[p] + RecSize
         /\ e.pid < snd_pid[Other(p)] /\ e.msg = e.pid + 1

AckInv == \A p \in Peer : \A i \in 1 .. Len(rec_ack[p]) : HasRecord(p, rec_ack[p][i])

IInv == TypeOK /\ SendInv /\ NetInv /\ RecInv /\ AckInv /\ NothingLost

(* However long acknowledgements are delayed, a peer never writes further
   than one window beyond its oldest unacknowledged record
   (reliable_get_buf_output_sequenced, reliable.c:447). *)
SendWindowBound ==
  \A p \in Peer : \A e \in snd_buf[p] : snd_pid[p] <= e.pid + SendSize

(* Both peers get as far as exchanging TLS records, and every record written
   is delivered, over a link that loses packets but not for ever. *)
HandshakeStarts == \A p \in Peer : <>(state[p] = "S_START")
WrittenIsDelivered ==
  \A p \in Peer : \A n \in 1 .. MaxRecords[p] :
    (written[p] >= n) ~> (Len(delivered[Other(p)]) >= n)

(* The layer implements the stream it promises: what is buffered, in flight
   or waiting to be acknowledged maps to nothing. *)
Stream == INSTANCE ControlStream WITH written <- written, delivered <- delivered
StreamSpec == Stream!Init /\ [][Stream!Next]_(Stream!vars)
=============================================================================
