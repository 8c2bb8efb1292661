---------------------------- MODULE Reliable_proofs ----------------------------
(***************************************************************************)
(* Proofs about the reliability layer: type correctness, the inductive     *)
(* invariant, and from it in-order delivery, that nothing is lost, that    *)
(* the receive buffer never clogs, and the refinement of ControlStream.    *)
(***************************************************************************)
EXTENDS Reliable, FiniteSetTheorems, FunctionTheorems, SequenceTheorems,
        WellFoundedInduction, TLAPS

USE HalfAssumption, ReliableAssumption

-----------------------------------------------------------------------------
(* While both ids lie in the lower half of the word, the wrapping comparison
   is the plain one. *)
LEMMA MinIsLess ==
  ASSUME NEW a \in 0 .. Half - 1, NEW b \in 0 .. Half - 1
  PROVE  reliable_pid_min(a, b) <=> a < b
BY DEF reliable_pid_min, reliable_pid_in_range1, Plus, Minus, Modulus

(* ... and the window test is the plain one for a window that ends there. *)
LEMMA Range1IsWindow ==
  ASSUME NEW test \in 0 .. Half - 1, NEW base \in 0 .. Half - 1, base <= test,
         NEW extent \in Nat
  PROVE  reliable_pid_in_range1(test, base, extent) <=> test < base + extent
BY DEF reliable_pid_in_range1

LEMMA Range2IsWindow ==
  ASSUME NEW test \in PacketId, NEW base \in 0 .. Half - 1, NEW extent \in Nat,
         base + extent < Half
  PROVE  reliable_pid_in_range2(test, base, extent) <=> test < base + extent
BY DEF reliable_pid_in_range2, Plus, PacketId, Modulus

LEMMA OtherPeer ==
  ASSUME NEW p \in Peer
  PROVE  /\ Other(p) \in Peer /\ Other(p) # p /\ Other(Other(p)) = p
         /\ \A q \in Peer : q # p => q = Other(p)
BY DEF Peer, Other

-----------------------------------------------------------------------------
(* The acknowledgement array. *)
LEMMA AckIdsElements ==
  ASSUME NEW acks \in Seq(PacketId), NEW max \in Nat
  PROVE  /\ AckCount(acks, max) \in 0 .. Len(acks)
         /\ AckIds(acks, AckCount(acks, max)) \subseteq PacketId
         /\ \A a \in AckIds(acks, AckCount(acks, max)) :
              \E i \in 1 .. Len(acks) : acks[i] = a
BY DEF AckIds, AckCount

LEMMA AckRestElements ==
  ASSUME NEW acks \in Seq(PacketId), NEW n \in 0 .. Len(acks)
  PROVE  /\ AckRest(acks, n) \in Seq(PacketId)
         /\ \A i \in 1 .. Len(AckRest(acks, n)) :
              \E j \in 1 .. Len(acks) : AckRest(acks, n)[i] = acks[j]
<1>1. \A i \in n + 1 .. Len(acks) : acks[i] \in PacketId
  OBVIOUS
<1>2. /\ AckRest(acks, n) \in Seq(PacketId)
      /\ Len(AckRest(acks, n)) = IF n + 1 <= Len(acks) THEN Len(acks) - n ELSE 0
      /\ \A i \in 1 .. Len(acks) - (n + 1) + 1 : AckRest(acks, n)[i] = acks[(n + 1) + i - 1]
  BY <1>1, SubSeqProperties DEF AckRest
<1> QED
  BY <1>2

LEMMA AcknowledgeElements ==
  ASSUME NEW acks \in Seq(PacketId), NEW pid \in PacketId
  PROVE  /\ acknowledge_packet_id(acks, pid) \in Seq(PacketId)
         /\ \A i \in 1 .. Len(acknowledge_packet_id(acks, pid)) :
              \/ acknowledge_packet_id(acks, pid)[i] = pid
              \/ i \in 1 .. Len(acks) /\ acknowledge_packet_id(acks, pid)[i] = acks[i]
BY DEF acknowledge_packet_id

-----------------------------------------------------------------------------
(* Facts that every step's proof uses. *)
LEMMA TypeFacts ==
  ASSUME TypeOK
  PROVE  /\ \A p \in Peer : /\ snd_buf[p] \subseteq SendEntry /\ rcv_buf[p] \subseteq RecEntry
                           /\ rec_ack[p] \in Seq(PacketId) /\ delivered[p] \in Seq(Nat)
                           /\ snd_pid[p] \in PacketId /\ rcv_pid[p] \in PacketId
                           /\ written[p] \in Nat /\ written[p] <= MaxRecords[p]
                           /\ MaxRecords[p] \in Nat
         /\ \A m \in net : /\ m.from \in Peer /\ m.acks \subseteq PacketId
                           /\ m.op # "ACK" => m.op \in Op /\ m.pid \in PacketId /\ m.msg \in Nat
BY DEF TypeOK, Packet, Op

(* The next record, put behind those delivered, keeps their order. *)
LEMMA AppendInOrder ==
  ASSUME NEW s \in Seq(Nat), NEW x \in Nat, x = Len(s) + 1,
         \A i \in 1 .. Len(s) : s[i] = i
  PROVE  \A i \in 1 .. Len(Append(s, x)) : Append(s, x)[i] = i
<1>1. Len(Append(s, x)) = Len(s) + 1 /\ Len(s) \in Nat
  OBVIOUS
<1> SUFFICES ASSUME NEW i \in 1 .. Len(s) + 1
             PROVE  Append(s, x)[i] = i
  BY <1>1
<1>2. CASE i \in 1 .. Len(s)
  BY <1>2
<1>3. CASE i = Len(s) + 1
  BY <1>1, <1>3
<1> QED
  BY <1>1, <1>2, <1>3

(* Ids stay in the lower half of the word. *)
LEMMA SmallIds ==
  ASSUME TypeOK, SendInv, RecInv, NEW p \in Peer
  PROVE  /\ snd_pid[p] \in 0 .. Half - 1 /\ snd_pid[p] <= MaxRecords[p]
         /\ snd_pid[p] + SendSize + RecSize < Half
         /\ rcv_pid[p] \in 0 .. Half - 1 /\ rcv_pid[p] + RecSize < Half
         /\ Plus(snd_pid[p], 1) = snd_pid[p] + 1
         /\ Plus(rcv_pid[p], 1) = rcv_pid[p] + 1
<1>1. snd_pid[p] = written[p] /\ rcv_pid[p] <= snd_pid[Other(p)]
  BY DEF SendInv, RecInv
<1>2. snd_pid[Other(p)] = written[Other(p)] /\ Other(p) \in Peer
  BY OtherPeer DEF SendInv
<1>3. /\ written[p] \in Nat /\ written[p] <= MaxRecords[p] /\ MaxRecords[p] \in Nat
      /\ written[Other(p)] \in Nat /\ written[Other(p)] <= MaxRecords[Other(p)]
      /\ MaxRecords[Other(p)] \in Nat /\ rcv_pid[p] \in Nat
  BY <1>2, TypeFacts DEF PacketId
<1>4. MaxRecords[p] + SendSize + RecSize < Half /\ MaxRecords[Other(p)] + SendSize + RecSize < Half
  BY <1>2
<1>5. /\ snd_pid[p] \in 0 .. Half - 1 /\ snd_pid[p] <= MaxRecords[p]
      /\ snd_pid[p] + SendSize + RecSize < Half
      /\ rcv_pid[p] \in 0 .. Half - 1 /\ rcv_pid[p] + RecSize < Half
  BY <1>1, <1>2, <1>3, <1>4
<1>6. \A a \in 0 .. Half - 1 : Plus(a, 1) = a + 1
  BY DEF Plus, Modulus
<1> QED
  BY <1>5, <1>6

THEOREM InitIInv == Init => IInv
<1> SUFFICES ASSUME Init PROVE IInv
  OBVIOUS
<1>1. TypeOK
  BY DEF Init, TypeOK, State, PacketId, Modulus
<1>2. SendInv /\ NetInv /\ AckInv
  BY DEF Init, SendInv, NetInv, AckInv
<1>3. RecInv
  BY OtherPeer DEF Init, RecInv
<1>4. NothingLost
  BY DEF Init, NothingLost, PacketId, Modulus
<1> QED
  BY <1>1, <1>2, <1>3, <1>4 DEF IInv

(* A record that was received stays received. *)
LEMMA HasRecordStable ==
  ASSUME NEW q \in Peer, NEW pid,
         rcv_pid'[q] = rcv_pid[q], rcv_buf[q] \subseteq rcv_buf'[q],
         HasRecord(q, pid)
  PROVE  HasRecord(q, pid)'
BY DEF HasRecord

(* Writing more records disturbs nothing on the way to the other peer. *)
LEMMA SendCountGrows ==
  ASSUME IInv, \A q \in Peer : snd_pid'[q] \in PacketId /\ snd_pid[q] <= snd_pid'[q],
         UNCHANGED <<rcv_pid, rcv_buf, rec_ack, delivered, net>>
  PROVE  NetInv' /\ AckInv' /\ RecInv'
<1> USE DEF IInv
<1>1. NetInv'
  <2> SUFFICES ASSUME NEW m \in net
               PROVE  /\ m.op # "ACK" => m.pid < snd_pid'[m.from] /\ m.msg = m.pid + 1
                      /\ \A a \in m.acks : HasRecord(m.from, a)'
    BY DEF NetInv
  <2>1. m.op # "ACK" => m.pid < snd_pid[m.from] /\ m.msg = m.pid + 1
    BY DEF NetInv
  <2>2. m.from \in Peer /\ (m.op # "ACK" => m.pid \in PacketId)
    BY TypeFacts
  <2>3. snd_pid[m.from] \in PacketId /\ snd_pid'[m.from] \in PacketId /\ snd_pid[m.from] <= snd_pid'[m.from]
    BY <2>2, TypeFacts
  <2>4. \A a \in m.acks : HasRecord(m.from, a)'
    BY DEF NetInv, HasRecord
  <2> QED
    BY <2>1, <2>2, <2>3, <2>4 DEF PacketId
<1>2. AckInv'
  BY DEF AckInv, HasRecord
<1>3. RecInv'
  <2> SUFFICES ASSUME NEW q \in Peer
               PROVE  /\ rcv_pid[q] <= snd_pid'[Other(q)]
                      /\ \A e \in rcv_buf[q] : e.pid < snd_pid'[Other(q)]
    BY DEF RecInv
  <2>1. /\ rcv_pid[q] <= snd_pid[Other(q)]
        /\ \A e \in rcv_buf[q] : e.pid < snd_pid[Other(q)]
    BY DEF RecInv
  <2>2. /\ Other(q) \in Peer /\ rcv_pid[q] \in Int
        /\ \A e \in rcv_buf[q] : e.pid \in Int
    BY OtherPeer, TypeFacts DEF RecEntry, PacketId
  <2>3. /\ snd_pid[Other(q)] \in Int /\ snd_pid'[Other(q)] \in Int
        /\ snd_pid[Other(q)] <= snd_pid'[Other(q)]
    <3>1. snd_pid[Other(q)] \in PacketId
      BY <2>2, TypeFacts
    <3> HIDE DEF IInv
    <3>2. snd_pid'[Other(q)] \in PacketId /\ snd_pid[Other(q)] <= snd_pid'[Other(q)]
      BY <2>2
    <3> QED
      BY <3>1, <3>2 DEF PacketId
  <2>4. ASSUME NEW e \in rcv_buf[q]
        PROVE  e.pid < snd_pid'[Other(q)]
    <3>1. e.pid < snd_pid[Other(q)] /\ e.pid \in Int
      BY <2>1, <2>2
    <3> QED
      BY <2>3, <3>1
  <2>5. rcv_pid[q] <= snd_pid'[Other(q)]
    BY <2>1, <2>2, <2>3
  <2> QED
    BY <2>4, <2>5
<1> QED
  BY <1>1, <1>2, <1>3

-----------------------------------------------------------------------------
(* One lemma for each action: the step preserves the invariant. *)
LEMMA NewRecordStep ==
  ASSUME IInv, NEW p \in Peer, NEW op \in Op,
         written[p] < MaxRecords[p], mark_active_outgoing(p, op),
         state' \in [Peer -> State],
         UNCHANGED <<linked, hold, rcv_pid, rcv_buf, rec_ack, delivered, net>>
  PROVE  IInv'
<1> DEFINE new == [op |-> op, pid |-> snd_pid[p], msg |-> written[p] + 1, due |-> TRUE]
<1> USE DEF IInv
<1>0. /\ snd_pid[p] \in 0 .. Half - 1 /\ snd_pid[p] + SendSize + RecSize < Half
      /\ Plus(snd_pid[p], 1) = snd_pid[p] + 1
      /\ snd_pid[p] \in PacketId /\ written[p] \in Nat
  BY SmallIds, TypeFacts
<1>1. /\ snd_pid[p] \in PacketId /\ written[p] \in Nat
      /\ snd_pid'[p] = snd_pid[p] + 1 /\ snd_pid'[p] \in PacketId
      /\ \A q \in Peer : q # p => snd_pid'[q] = snd_pid[q]
  <2>1. snd_pid' = [snd_pid EXCEPT ![p] = snd_pid[p] + 1]
    BY <1>0 DEF mark_active_outgoing
  <2>2. snd_pid \in [Peer -> PacketId]
    BY DEF TypeOK
  <2>3. snd_pid[p] + 1 \in PacketId
    BY <1>0, HalfAssumption DEF PacketId, Modulus
  <2> QED
    BY <1>0, <2>1, <2>2, <2>3
<1>2. new \in SendEntry
  BY <1>1 DEF SendEntry
<1>3. TypeOK'
  <2>1. snd_buf' \in [Peer -> SUBSET SendEntry]
    BY <1>2 DEF TypeOK, mark_active_outgoing
  <2>2. snd_pid' \in [Peer -> PacketId] /\ written' \in [Peer -> Nat]
    BY <1>1 DEF TypeOK, mark_active_outgoing
  <2>3. ASSUME NEW q \in Peer
        PROVE  written'[q] \in 0 .. MaxRecords[q]
    <3>1. written' = [written EXCEPT ![p] = written[p] + 1] /\ written \in [Peer -> Nat]
      BY DEF TypeOK, mark_active_outgoing
    <3>2. CASE q = p
      BY <3>1, <3>2, <1>1, TypeFacts
    <3>3. CASE q # p
      BY <3>1, <3>3, TypeFacts
    <3> QED
      BY <3>2, <3>3
  <2> QED
    BY <2>1, <2>2, <2>3 DEF TypeOK
<1>4. SendInv'
  <2> SUFFICES ASSUME NEW q \in Peer
               PROVE  /\ snd_pid'[q] = written'[q]
                      /\ \A e \in snd_buf'[q] : e.pid < snd_pid'[q] /\ e.msg = e.pid + 1
    BY DEF SendInv
  <2>1. CASE q = p
    <3>1. /\ written' = [written EXCEPT ![p] = written[p] + 1] /\ written \in [Peer -> Nat]
          /\ snd_buf' = [snd_buf EXCEPT ![p] = snd_buf[p] \cup {new}]
          /\ snd_buf \in [Peer -> SUBSET SendEntry]
      BY DEF mark_active_outgoing, TypeOK
    <3>2. /\ snd_pid[p] = written[p] /\ snd_pid[p] \in Int
          /\ \A e \in snd_buf[p] : e.pid \in Int /\ e.pid < snd_pid[p] /\ e.msg = e.pid + 1
      BY <1>1, <3>1 DEF SendInv, SendEntry, PacketId
    <3>3. snd_pid'[p] = written'[p]
      BY <1>1, <3>1, <3>2
    <3>4. snd_buf'[p] = snd_buf[p] \cup {new}
      BY <3>1
    <3>5. new.pid < snd_pid'[p] /\ new.msg = new.pid + 1
      BY <1>1, <3>2
    <3>6. ASSUME NEW e \in snd_buf'[p]
          PROVE  e.pid < snd_pid'[p] /\ e.msg = e.pid + 1
      <4> HIDE DEF new, IInv
      <4> QED
        BY <1>1, <3>2, <3>4, <3>5
    <3> QED
      BY <2>1, <3>3, <3>6
  <2>2. CASE q # p
    BY <2>2, <1>1 DEF SendInv, mark_active_outgoing, TypeOK
  <2> QED
    BY <2>1, <2>2
<1>5. \A q \in Peer : snd_pid'[q] \in PacketId /\ snd_pid[q] <= snd_pid'[q]
  <2> SUFFICES ASSUME NEW q \in Peer PROVE snd_pid'[q] \in PacketId /\ snd_pid[q] <= snd_pid'[q]
    OBVIOUS
  <2>1. snd_pid[q] \in PacketId
    BY TypeFacts
  <2> QED
    BY <2>1, <1>1 DEF PacketId
<1>6. NetInv' /\ AckInv' /\ RecInv'
  BY <1>5, SendCountGrows
<1>7. NothingLost'
  <2> SUFFICES ASSUME NEW q \in Peer, NEW pid \in PacketId, pid < snd_pid'[q]
               PROVE  (\E e \in snd_buf'[q] : e.pid = pid) \/ HasRecord(Other(q), pid)'
    BY DEF NothingLost
  <2>1. CASE q = p /\ pid = snd_pid[p]
    <3>1. new \in snd_buf'[q] /\ new.pid = pid
      BY <2>1 DEF mark_active_outgoing, TypeOK
    <3> QED
      BY <3>1
  <2>2. CASE ~ (q = p /\ pid = snd_pid[p])
    <3>1. pid < snd_pid[q]
      BY <2>2, <1>1 DEF PacketId
    <3>2. snd_buf[q] \subseteq snd_buf'[q]
      BY DEF mark_active_outgoing, TypeOK
    <3>3. (\E e \in snd_buf[q] : e.pid = pid) \/ HasRecord(Other(q), pid)
      BY <3>1 DEF NothingLost
    <3> QED
      BY <3>2, <3>3 DEF HasRecord
  <2> QED
    BY <2>1, <2>2
<1> QED
  BY <1>3, <1>4, <1>5, <1>6, <1>7

(* Retransmission, acknowledgements leaving and packets vanishing: records
   and ids only move between the places the invariant already covers. *)
SameRecords ==
  /\ \A q \in Peer : \A e \in snd_buf'[q] :
       \E f \in snd_buf[q] : e.pid = f.pid /\ e.msg = f.msg
  /\ \A q \in Peer : \A f \in snd_buf[q] : \E e \in snd_buf'[q] : e.pid = f.pid

AcksShrink ==
  \A q \in Peer : \A i \in 1 .. Len(rec_ack'[q]) :
    \E j \in 1 .. Len(rec_ack[q]) : rec_ack'[q][i] = rec_ack[q][j]

PacketsFromBuffers ==
  \A m \in net' :
    \/ m \in net
    \/ /\ m.from \in Peer
       /\ \A a \in m.acks : \E j \in 1 .. Len(rec_ack[m.from]) : rec_ack[m.from][j] = a
       /\ m.op # "ACK" => \E e \in snd_buf[m.from] : m.pid = e.pid /\ m.msg = e.msg

LEMMA QuietStep ==
  ASSUME IInv, TypeOK', UNCHANGED <<snd_pid, rcv_pid, rcv_buf, written, delivered>>,
         SameRecords, AcksShrink, PacketsFromBuffers
  PROVE  IInv'
<1> USE DEF IInv
<1>1. SendInv'
  BY DEF SendInv, SameRecords
<1>2. NetInv'
  <2> SUFFICES ASSUME NEW m \in net'
               PROVE  /\ m.op # "ACK" => m.pid < snd_pid[m.from] /\ m.msg = m.pid + 1
                      /\ \A a \in m.acks : HasRecord(m.from, a)'
    BY DEF NetInv
  <2>1. CASE m \in net
    BY <2>1 DEF NetInv, HasRecord
  <2>2. CASE m \notin net
    <3>0. /\ m.from \in Peer
          /\ \A a \in m.acks :
               \E j \in 1 .. Len(rec_ack[m.from]) : rec_ack[m.from][j] = a
          /\ m.op # "ACK" =>
               \E e \in snd_buf[m.from] : m.pid = e.pid /\ m.msg = e.msg
      BY <2>2 DEF PacketsFromBuffers
    <3>1. m.op # "ACK" => m.pid < snd_pid[m.from] /\ m.msg = m.pid + 1
      BY <3>0 DEF SendInv
    <3>2. ASSUME NEW a \in m.acks PROVE HasRecord(m.from, a)
      <4>1. PICK j \in 1 .. Len(rec_ack[m.from]) : rec_ack[m.from][j] = a
        BY <3>0
      <4>2. HasRecord(m.from, rec_ack[m.from][j])
        BY <3>0 DEF AckInv
      <4> QED
        BY <4>1, <4>2
    <3> QED
      BY <3>1, <3>2 DEF HasRecord
  <2> QED
    BY <2>1, <2>2
<1>3. RecInv'
  BY DEF RecInv
<1>4. AckInv'
  BY DEF AckInv, HasRecord, AcksShrink
<1>5. NothingLost'
  <2> SUFFICES ASSUME NEW q \in Peer, NEW pid \in PacketId, pid < snd_pid[q]
               PROVE  (\E e \in snd_buf'[q] : e.pid = pid) \/ HasRecord(Other(q), pid)'
    BY DEF NothingLost
  <2>1. CASE HasRecord(Other(q), pid)
    BY <2>1 DEF HasRecord
  <2>2. CASE ~ HasRecord(Other(q), pid)
    <3>1. PICK f \in snd_buf[q] : f.pid = pid
      BY <2>2 DEF NothingLost
    <3> QED
      BY <3>1 DEF SameRecords
  <2> QED
    BY <2>1, <2>2
<1> QED
  BY <1>1, <1>2, <1>3, <1>4, <1>5

LEMMA SendReliableStep ==
  ASSUME IInv, NEW p \in Peer, SendReliable(p)
  PROVE  IInv'
<1>0. TypeOK
  BY DEF IInv
<1>1. PICK e \in Due(p) :
        LET n == AckCount(rec_ack[p], SendAckMax) IN
        /\ snd_buf' = [snd_buf EXCEPT ![p] = (@ \ {e}) \cup {[e EXCEPT !.due = FALSE]}]
        /\ rec_ack' = [rec_ack EXCEPT ![p] = AckRest(@, n)]
        /\ Transmit([from |-> p, op |-> e.op, pid |-> e.pid, msg |-> e.msg,
                     acks |-> AckIds(rec_ack[p], n)])
  BY DEF SendReliable
<1> DEFINE n == AckCount(rec_ack[p], SendAckMax)
           sent == [e EXCEPT !.due = FALSE]
           pkt == [from |-> p, op |-> e.op, pid |-> e.pid, msg |-> e.msg,
                   acks |-> AckIds(rec_ack[p], n)]
<1>2. e \in snd_buf[p] /\ e \in SendEntry /\ sent \in SendEntry
      /\ sent.pid = e.pid /\ sent.msg = e.msg
  <2>1. e \in snd_buf[p] /\ e \in SendEntry
    BY <1>0, TypeFacts DEF Due
  <2>2. sent \in SendEntry /\ sent.pid = e.pid /\ sent.msg = e.msg
    BY <2>1 DEF SendEntry
  <2> QED
    BY <2>1, <2>2
<1>3. rec_ack[p] \in Seq(PacketId)
  BY <1>0, TypeFacts
<1>4. /\ n \in 0 .. Len(rec_ack[p]) /\ AckIds(rec_ack[p], n) \subseteq PacketId
      /\ \A a \in AckIds(rec_ack[p], n) : \E i \in 1 .. Len(rec_ack[p]) : rec_ack[p][i] = a
  BY <1>3, AckIdsElements
<1>5. /\ AckRest(rec_ack[p], n) \in Seq(PacketId)
      /\ \A i \in 1 .. Len(AckRest(rec_ack[p], n)) :
           \E j \in 1 .. Len(rec_ack[p]) : AckRest(rec_ack[p], n)[i] = rec_ack[p][j]
  BY <1>3, <1>4, AckRestElements
<1>6. pkt \in Packet /\ net' = net \cup {pkt}
  BY <1>1, <1>2, <1>4 DEF Transmit, Packet, SendEntry
<1>7. UNCHANGED <<state, linked, hold, snd_pid, rcv_pid, rcv_buf, written, delivered>>
  BY DEF SendReliable
<1>8. snd_buf' = [snd_buf EXCEPT ![p] = (@ \ {e}) \cup {sent}]
      /\ rec_ack' = [rec_ack EXCEPT ![p] = AckRest(@, n)]
  BY <1>1
<1> HIDE DEF n, sent, pkt
<1>9. TypeOK'
  BY <1>0, <1>2, <1>5, <1>6, <1>7, <1>8 DEF TypeOK
<1>10. SameRecords
  BY <1>0, <1>2, <1>8 DEF TypeOK, SameRecords
<1>11. AcksShrink
  BY <1>0, <1>5, <1>8 DEF TypeOK, AcksShrink
<1>12. pkt.from = p /\ pkt.acks = AckIds(rec_ack[p], n) /\ pkt.pid = e.pid /\ pkt.msg = e.msg
  BY DEF pkt
<1>13. PacketsFromBuffers
  <2>1. \A m \in net' : m \in net \/ m = pkt
    BY <1>6
  <2>2. \A a \in pkt.acks : \E j \in 1 .. Len(rec_ack[p]) : rec_ack[p][j] = a
    BY <1>4, <1>12
  <2>3. \E f \in snd_buf[p] : pkt.pid = f.pid /\ pkt.msg = f.msg
    BY <1>2, <1>12
  <2> QED
    <3> SUFFICES ASSUME NEW m \in net', m \notin net
                 PROVE  /\ m.from \in Peer
                        /\ \A a \in m.acks : \E j \in 1 .. Len(rec_ack[m.from]) : rec_ack[m.from][j] = a
                        /\ m.op # "ACK" => \E f \in snd_buf[m.from] : m.pid = f.pid /\ m.msg = f.msg
      BY DEF PacketsFromBuffers
    <3>1. m = pkt /\ m.from = p
      BY <2>1, <1>12
    <3> QED
      BY <3>1, <2>2, <2>3
<1>14. UNCHANGED <<snd_pid, rcv_pid, rcv_buf, written, delivered>>
  BY <1>7
<1> QED
  BY <1>9, <1>10, <1>11, <1>13, <1>14, QuietStep DEF IInv

LEMMA SendAckStep ==
  ASSUME IInv, NEW p \in Peer, SendAck(p)
  PROVE  IInv'
<1>0. TypeOK
  BY DEF IInv
<1> DEFINE n == AckCount(rec_ack[p], AckSize)
           pkt == [from |-> p, op |-> "ACK", acks |-> AckIds(rec_ack[p], n)]
<1>1. rec_ack[p] \in Seq(PacketId)
  BY <1>0, TypeFacts
<1>2. /\ n \in 0 .. Len(rec_ack[p]) /\ AckIds(rec_ack[p], n) \subseteq PacketId
      /\ \A a \in AckIds(rec_ack[p], n) : \E i \in 1 .. Len(rec_ack[p]) : rec_ack[p][i] = a
  BY <1>1, AckIdsElements
<1>3. /\ AckRest(rec_ack[p], n) \in Seq(PacketId)
      /\ \A i \in 1 .. Len(AckRest(rec_ack[p], n)) :
           \E j \in 1 .. Len(rec_ack[p]) : AckRest(rec_ack[p], n)[i] = rec_ack[p][j]
  BY <1>1, <1>2, AckRestElements
<1>4. pkt \in Packet /\ net' = net \cup {pkt}
  BY <1>2 DEF SendAck, Transmit, Packet
<1>5. /\ UNCHANGED <<state, linked, hold, snd_pid, snd_buf, rcv_pid, rcv_buf, written, delivered>>
      /\ rec_ack' = [rec_ack EXCEPT ![p] = AckRest(@, n)]
  BY DEF SendAck
<1>6. pkt.from = p /\ pkt.op = "ACK" /\ pkt.acks = AckIds(rec_ack[p], n)
  OBVIOUS
<1> HIDE DEF n, pkt
<1>7. TypeOK'
  BY <1>0, <1>3, <1>4, <1>5 DEF TypeOK
<1>8. AcksShrink
  BY <1>0, <1>3, <1>5 DEF TypeOK, AcksShrink
<1>9. PacketsFromBuffers
  <2>1. \A m \in net' : m \in net \/ m = pkt
    BY <1>4
  <2>2. \A a \in pkt.acks : \E j \in 1 .. Len(rec_ack[p]) : rec_ack[p][j] = a
    BY <1>2, <1>6
  <2> QED
    BY <2>1, <2>2, <1>6 DEF PacketsFromBuffers
<1>10. SameRecords
  BY <1>5 DEF SameRecords
<1>11. UNCHANGED <<snd_pid, rcv_pid, rcv_buf, written, delivered>>
  BY <1>5
<1> QED
  BY <1>7, <1>8, <1>9, <1>10, <1>11, QuietStep DEF IInv

LEMMA RetryTimeStep ==
  ASSUME IInv, NEW p \in Peer, NEW pid, RetryTime(p, pid)
  PROVE  IInv'
<1> USE DEF IInv
<1>1. PICK e \in snd_buf[p] :
        snd_buf' = [snd_buf EXCEPT ![p] = (@ \ {e}) \cup {[e EXCEPT !.due = TRUE]}]
  BY DEF RetryTime
<1>2. UNCHANGED <<state, linked, hold, snd_pid, rcv_pid, rcv_buf, rec_ack, written, delivered, net>>
  BY DEF RetryTime
<1> DEFINE again == [e EXCEPT !.due = TRUE]
<1>3. again \in SendEntry /\ again.pid = e.pid /\ again.msg = e.msg
  BY TypeFacts DEF SendEntry
<1>4. snd_buf' = [snd_buf EXCEPT ![p] = (@ \ {e}) \cup {again}]
  BY <1>1
<1> HIDE DEF again
<1>5. TypeOK'
  BY <1>2, <1>3, <1>4 DEF TypeOK
<1>6. SameRecords
  BY <1>3, <1>4 DEF TypeOK, SameRecords
<1>7. AcksShrink /\ PacketsFromBuffers
  BY <1>2 DEF AcksShrink, PacketsFromBuffers
<1> QED
  BY <1>2, <1>5, <1>6, <1>7, QuietStep

LEMMA DeliverStep ==
  ASSUME IInv, NEW p \in Peer, Deliver(p)
  PROVE  IInv'
<1> USE DEF IInv
<1>1. PICK e \in rcv_buf[p] :
        /\ e.pid = rcv_pid[p]
        /\ rcv_buf' = [rcv_buf EXCEPT ![p] = @ \ {e}]
        /\ rcv_pid' = [rcv_pid EXCEPT ![p] = Plus(e.pid, 1)]
        /\ delivered' = [delivered EXCEPT ![p] = Append(@, e.msg)]
  BY DEF Deliver
<1>2. UNCHANGED <<state, linked, hold, snd_pid, snd_buf, rec_ack, written, net>>
  BY DEF Deliver
<1>3. e \in RecEntry /\ delivered[p] \in Seq(Nat)
  BY TypeFacts
<1>4. /\ rcv_pid[p] \in 0 .. Half - 1 /\ Plus(rcv_pid[p], 1) = rcv_pid[p] + 1
      /\ rcv_pid[p] + 1 \in PacketId
  BY SmallIds DEF PacketId, Modulus
<1>5. /\ rcv_pid'[p] = rcv_pid[p] + 1 /\ rcv_buf'[p] = rcv_buf[p] \ {e}
      /\ delivered'[p] = Append(delivered[p], e.msg)
      /\ \A q \in Peer : q # p => /\ rcv_pid'[q] = rcv_pid[q] /\ rcv_buf'[q] = rcv_buf[q]
                                 /\ delivered'[q] = delivered[q]
  BY <1>1, <1>4 DEF TypeOK
<1>6. TypeOK'
  <2>1. rcv_buf' \in [Peer -> SUBSET RecEntry]
    BY <1>1 DEF TypeOK
  <2>2. rcv_pid' \in [Peer -> PacketId]
    BY <1>1, <1>4 DEF TypeOK
  <2>3. delivered' \in [Peer -> Seq(Nat)]
    BY <1>1, <1>3 DEF TypeOK, RecEntry
  <2> QED
    BY <1>2, <2>1, <2>2, <2>3 DEF TypeOK
<1>7. SendInv'
  BY <1>2 DEF SendInv
<1>8. ASSUME NEW q \in Peer, NEW pid \in PacketId, HasRecord(q, pid)
      PROVE  HasRecord(q, pid)'
  <2>1. CASE q = p
    <3>1. CASE pid < rcv_pid[p]
      BY <2>1, <3>1, <1>4, <1>5 DEF HasRecord, PacketId
    <3>2. CASE \E f \in rcv_buf[p] : f.pid = pid
      <4>1. PICK f \in rcv_buf[p] : f.pid = pid
        BY <3>2
      <4>2. CASE f = e
        BY <2>1, <4>1, <4>2, <1>1, <1>4, <1>5 DEF HasRecord
      <4>3. CASE f # e
        BY <2>1, <4>1, <4>3, <1>5 DEF HasRecord
      <4> QED
        BY <4>2, <4>3
    <3> QED
      BY <2>1, <1>8, <3>1, <3>2 DEF HasRecord
  <2>2. CASE q # p
    BY <2>2, <1>5, <1>8 DEF HasRecord
  <2> QED
    BY <2>1, <2>2
<1>9. NetInv'
  BY <1>2, <1>8, TypeFacts DEF NetInv
<1>10. AckInv'
  BY <1>2, <1>8, TypeFacts DEF AckInv
<1>11. NothingLost'
  BY <1>2, <1>8, OtherPeer DEF NothingLost
<1>12. RecInv'
  <2> SUFFICES ASSUME NEW q \in Peer
               PROVE  /\ rcv_pid'[q] = Len(delivered'[q])
                      /\ rcv_pid'[q] <= snd_pid[Other(q)]
                      /\ \A i \in 1 .. Len(delivered'[q]) : delivered'[q][i] = i
                      /\ \A f \in rcv_buf'[q] :
                           /\ rcv_pid'[q] <= f.pid /\ f.pid < rcv_pid'[q] + RecSize
                           /\ f.pid < snd_pid[Other(q)] /\ f.msg = f.pid + 1
    BY <1>2 DEF RecInv
  <2>1. CASE q # p
    BY <2>1, <1>5 DEF RecInv
  <2>2. CASE q = p
    <3>1. e.msg = rcv_pid[p] + 1 /\ rcv_pid[p] < snd_pid[Other(p)] /\ rcv_pid[p] = Len(delivered[p])
      BY <1>1 DEF RecInv
    <3>2. snd_pid[Other(p)] \in Nat
      BY OtherPeer, TypeFacts DEF PacketId
    <3>3. rcv_pid'[p] = Len(delivered'[p]) /\ rcv_pid'[p] <= snd_pid[Other(p)]
      <4>1. delivered[p] \in Seq(Nat) /\ e.msg \in Nat
        BY <1>3 DEF RecEntry
      <4>2. Len(Append(delivered[p], e.msg)) = Len(delivered[p]) + 1
        BY <4>1
      <4>3. delivered'[p] = Append(delivered[p], e.msg) /\ rcv_pid'[p] = rcv_pid[p] + 1
        BY <1>5
      <4>4. rcv_pid[p] \in Nat
        BY <1>4
      <4> HIDE DEF IInv
      <4>5. rcv_pid'[p] = Len(delivered'[p])
        BY <3>1, <4>2, <4>3
      <4>6. rcv_pid[p] < snd_pid[Other(p)] /\ rcv_pid'[p] = rcv_pid[p] + 1
        BY <3>1, <4>3
      <4>7. rcv_pid'[p] <= snd_pid[Other(p)]
        BY <4>4, <4>6, <3>2
      <4> QED
        BY <4>5, <4>7
    <3>4. \A i \in 1 .. Len(delivered'[p]) : delivered'[p][i] = i
      <4>1. \A i \in 1 .. Len(delivered[p]) : delivered[p][i] = i
        BY DEF RecInv
      <4>2. e.msg \in Nat /\ e.msg = Len(delivered[p]) + 1
        BY <3>1, <1>3 DEF RecEntry
      <4>3. delivered'[p] = Append(delivered[p], e.msg) /\ delivered[p] \in Seq(Nat)
        BY <1>5, TypeFacts
      <4> HIDE DEF IInv
      <4>4. \A i \in 1 .. Len(Append(delivered[p], e.msg)) : Append(delivered[p], e.msg)[i] = i
        BY <4>1, <4>2, <4>3, AppendInOrder
      <4> QED
        BY <4>3, <4>4
    <3>5. ASSUME NEW f \in rcv_buf'[p]
          PROVE  /\ rcv_pid'[p] <= f.pid /\ f.pid < rcv_pid'[p] + RecSize
                 /\ f.pid < snd_pid[Other(p)] /\ f.msg = f.pid + 1
      <4>1. f \in rcv_buf[p] /\ f # e /\ f \in RecEntry
        BY <1>5, TypeFacts
      <4>2. /\ rcv_pid[p] <= f.pid /\ f.pid < rcv_pid[p] + RecSize
            /\ f.pid < snd_pid[Other(p)] /\ f.msg = f.pid + 1
        BY <4>1 DEF RecInv
      <4>3. f = [pid |-> f.pid, msg |-> f.msg] /\ e = [pid |-> e.pid, msg |-> e.msg]
        BY <4>1, <1>3 DEF RecEntry
      <4>4. f.pid # e.pid
        BY <4>1, <4>2, <4>3, <3>1, <1>1
      <4>5. f.pid \in Nat /\ rcv_pid[p] \in Nat /\ rcv_pid'[p] = rcv_pid[p] + 1
        BY <4>1, <1>4, <1>5 DEF RecEntry, PacketId
      <4>6. f.pid # rcv_pid[p]
        BY <4>4, <1>1
      <4> HIDE DEF IInv
      <4>7. rcv_pid'[p] <= f.pid
        BY <4>2, <4>5, <4>6
      <4>8. f.pid < rcv_pid'[p] + RecSize
        BY <4>2, <4>5, ReliableAssumption
      <4> QED
        BY <4>2, <4>7, <4>8
    <3> QED
      BY <2>2, <3>3, <3>4, <3>5
  <2> QED
    BY <2>1, <2>2
<1> QED
  BY <1>6, <1>7, <1>9, <1>10, <1>11, <1>12

(* What an accepted packet does to the three buffers of its receiver. *)
LEMMA ProcessPurges ==
  ASSUME TypeOK, NEW p \in Peer, NEW m \in net, Process(p, m)
  PROVE  /\ snd_buf' \in [Peer -> SUBSET SendEntry]
         /\ \A q \in Peer : q # p => snd_buf'[q] = snd_buf[q]
         /\ \A e \in snd_buf'[p] : \E f \in snd_buf[p] : e.pid = f.pid /\ e.msg = f.msg
         /\ \A f \in snd_buf[p] : f.pid \notin m.acks => \E e \in snd_buf'[p] : e.pid = f.pid
<1>1. PICK buf \in {snd_buf[p], schedule_now(snd_buf[p])} :
        snd_buf' = [snd_buf EXCEPT ![p] = send_purge(buf, m.acks)]
  BY DEF Process
<1>2. ASSUME NEW e \in snd_buf[p]
      PROVE  /\ e \in SendEntry /\ [e EXCEPT !.due = TRUE] \in SendEntry
             /\ [e EXCEPT !.due = TRUE].pid = e.pid
             /\ [e EXCEPT !.due = TRUE].msg = e.msg
  <2>1. e \in SendEntry
    BY TypeFacts
  <2> QED
    BY <2>1 DEF SendEntry
<1>3. /\ buf \subseteq SendEntry
      /\ \A e \in buf : \E f \in snd_buf[p] : e.pid = f.pid /\ e.msg = f.msg
      /\ \A f \in snd_buf[p] : \E e \in buf : e.pid = f.pid
  <2>1. CASE buf = snd_buf[p]
    BY <2>1, <1>2
  <2>2. CASE buf = schedule_now(snd_buf[p])
    BY <2>2, <1>2 DEF schedule_now
  <2> QED
    BY <2>1, <2>2
<1>4. /\ snd_buf'[p] = send_purge(buf, m.acks)
      /\ \A q \in Peer : q # p => snd_buf'[q] = snd_buf[q]
  BY <1>1 DEF TypeOK
<1>5. snd_buf' \in [Peer -> SUBSET SendEntry]
  BY <1>1, <1>3 DEF TypeOK, send_purge
<1> QED
  BY <1>3, <1>4, <1>5 DEF send_purge

LEMMA ProcessStores ==
  ASSUME IInv, NEW p \in Peer, NEW m \in net, m.from = Other(p), Process(p, m)
  PROVE  /\ rcv_buf' \in [Peer -> SUBSET RecEntry]
         /\ rec_ack' \in [Peer -> Seq(PacketId)]
         /\ \A q \in Peer : q # p => rcv_buf'[q] = rcv_buf[q] /\ rec_ack'[q] = rec_ack[q]
         /\ rcv_buf[p] \subseteq rcv_buf'[p]
         /\ \A e \in rcv_buf'[p] :
              \/ e \in rcv_buf[p]
              \/ /\ rcv_pid[p] <= e.pid /\ e.pid < rcv_pid[p] + RecSize
                 /\ e.pid < snd_pid[Other(p)] /\ e.msg = e.pid + 1
         /\ \A i \in 1 .. Len(rec_ack'[p]) : HasRecord(p, rec_ack[p][i])'
<1>0. TypeOK /\ NetInv /\ AckInv /\ SendInv /\ RecInv
  BY DEF IInv
<1>1. rec_ack[p] \in Seq(PacketId) /\ rcv_buf[p] \subseteq RecEntry /\ rcv_pid' = rcv_pid
  BY <1>0, TypeFacts DEF Process
<1>2. ASSUME NEW q \in Peer, NEW i \in 1 .. Len(rec_ack[q])
      PROVE  HasRecord(q, rec_ack[q][i])
  BY <1>0, <1>2 DEF AckInv
<1>3. CASE ~ (m.op # "ACK" /\ can_get(p) /\ wont_break_sequentiality(p, m.pid))
  <2>1. UNCHANGED <<rcv_buf, rec_ack, rcv_pid>>
    BY <1>3 DEF Process, StoreRecord
  <2> QED
    BY <2>1, <1>0, <1>2 DEF TypeOK, HasRecord
<1>4. CASE m.op # "ACK" /\ can_get(p) /\ wont_break_sequentiality(p, m.pid)
  <2> DEFINE new == [pid |-> m.pid, msg |-> m.msg]
  <2>1. /\ rcv_buf' = [rcv_buf EXCEPT ![p] = IF not_replay(p, m.pid) THEN @ \cup {new} ELSE @]
        /\ rec_ack' = [rec_ack EXCEPT ![p] = acknowledge_packet_id(@, m.pid)]
    BY <1>4 DEF Process, StoreRecord
  <2>2. /\ m.pid \in PacketId /\ m.msg \in Nat /\ new \in RecEntry
        /\ m.pid < snd_pid[Other(p)] /\ m.msg = m.pid + 1
    BY <1>0, <1>4, TypeFacts DEF NetInv, RecEntry
  <2>3. /\ rcv_pid[p] \in 0 .. Half - 1 /\ rcv_pid[p] + RecSize < Half
        /\ snd_pid[Other(p)] \in 0 .. Half - 1
    BY <1>0, SmallIds, OtherPeer
  <2>4. m.pid \in 0 .. Half - 1
    BY <2>2, <2>3 DEF PacketId
  <2>5. m.pid < rcv_pid[p] + RecSize
    BY <1>4, <2>2, <2>3, Range2IsWindow DEF wont_break_sequentiality
  <2>6. ~ reliable_pid_min(m.pid, rcv_pid[p]) <=> rcv_pid[p] <= m.pid
    BY <2>3, <2>4, MinIsLess
  <2>7. /\ rcv_buf'[p] = IF not_replay(p, m.pid) THEN rcv_buf[p] \cup {new} ELSE rcv_buf[p]
        /\ rec_ack'[p] = acknowledge_packet_id(rec_ack[p], m.pid)
        /\ \A q \in Peer : q # p => rcv_buf'[q] = rcv_buf[q] /\ rec_ack'[q] = rec_ack[q]
    BY <1>0, <2>1 DEF TypeOK
  <2>8. /\ acknowledge_packet_id(rec_ack[p], m.pid) \in Seq(PacketId)
        /\ \A i \in 1 .. Len(rec_ack'[p]) :
             \/ rec_ack'[p][i] = m.pid
             \/ i \in 1 .. Len(rec_ack[p]) /\ rec_ack'[p][i] = rec_ack[p][i]
    <3>1. m.pid \in PacketId /\ rec_ack'[p] = acknowledge_packet_id(rec_ack[p], m.pid)
      BY <2>2, <2>7
    <3>2. /\ acknowledge_packet_id(rec_ack[p], m.pid) \in Seq(PacketId)
          /\ \A i \in 1 .. Len(acknowledge_packet_id(rec_ack[p], m.pid)) :
               \/ acknowledge_packet_id(rec_ack[p], m.pid)[i] = m.pid
               \/ /\ i \in 1 .. Len(rec_ack[p])
                  /\ acknowledge_packet_id(rec_ack[p], m.pid)[i] = rec_ack[p][i]
      BY <2>2, <1>1, AcknowledgeElements
    <3> QED
      BY <3>1, <3>2
  <2>9. rcv_buf' \in [Peer -> SUBSET RecEntry] /\ rec_ack' \in [Peer -> Seq(PacketId)]
    BY <1>0, <2>1, <2>2, <2>8 DEF TypeOK
  <2>10. HasRecord(p, m.pid)'
    <3>1. CASE not_replay(p, m.pid)
      <4>1. new \in rcv_buf'[p] /\ new.pid = m.pid
        BY <3>1, <2>7
      <4> QED
        BY <4>1 DEF HasRecord
    <3>2. CASE ~ not_replay(p, m.pid)
      BY <3>2, <1>1, <2>3, <2>4, <2>6, <2>7 DEF not_replay, HasRecord
    <3> QED
      BY <3>1, <3>2
  <2>11. ASSUME NEW i \in 1 .. Len(rec_ack'[p]) PROVE HasRecord(p, rec_ack[p][i])'
    <3>1. CASE rec_ack'[p][i] = m.pid
      BY <3>1, <2>10 DEF HasRecord
    <3>2. CASE i \in 1 .. Len(rec_ack[p]) /\ rec_ack'[p][i] = rec_ack[p][i]
      BY <3>2, <1>1, <1>2, <2>7 DEF HasRecord
    <3> QED
      BY <3>1, <3>2, <2>8
  <2>12. ASSUME NEW e \in rcv_buf'[p], e \notin rcv_buf[p]
         PROVE  /\ rcv_pid[p] <= e.pid /\ e.pid < rcv_pid[p] + RecSize
                /\ e.pid < snd_pid[Other(p)] /\ e.msg = e.pid + 1
    <3>1. e = new /\ not_replay(p, m.pid)
      BY <2>7, <2>12
    <3> QED
      BY <3>1, <2>2, <2>5, <2>6 DEF not_replay
  <2>13. rcv_buf[p] \subseteq rcv_buf'[p]
    BY <2>7
  <2> QED
    BY <2>7, <2>9, <2>11, <2>12, <2>13
<1> QED
  BY <1>3, <1>4

LEMMA ProcessStep ==
  ASSUME IInv, NEW p \in Peer, NEW m \in net, m.from = Other(p), net' \subseteq net,
         Process(p, m)
  PROVE  IInv'
<1>0. TypeOK /\ SendInv /\ NetInv /\ RecInv /\ AckInv /\ NothingLost
  BY DEF IInv
<1>1. UNCHANGED <<state, snd_pid, rcv_pid, written, delivered>>
  BY DEF Process
<1>2. /\ snd_buf' \in [Peer -> SUBSET SendEntry]
      /\ \A q \in Peer : q # p => snd_buf'[q] = snd_buf[q]
      /\ \A e \in snd_buf'[p] : \E f \in snd_buf[p] : e.pid = f.pid /\ e.msg = f.msg
      /\ \A f \in snd_buf[p] : f.pid \notin m.acks => \E e \in snd_buf'[p] : e.pid = f.pid
  BY <1>0, ProcessPurges
<1>3. /\ rcv_buf' \in [Peer -> SUBSET RecEntry]
      /\ rec_ack' \in [Peer -> Seq(PacketId)]
      /\ \A q \in Peer : q # p => rcv_buf'[q] = rcv_buf[q] /\ rec_ack'[q] = rec_ack[q]
      /\ rcv_buf[p] \subseteq rcv_buf'[p]
      /\ \A e \in rcv_buf'[p] :
           \/ e \in rcv_buf[p]
           \/ /\ rcv_pid[p] <= e.pid /\ e.pid < rcv_pid[p] + RecSize
              /\ e.pid < snd_pid[Other(p)] /\ e.msg = e.pid + 1
      /\ \A i \in 1 .. Len(rec_ack'[p]) : HasRecord(p, rec_ack[p][i])'
  BY ProcessStores
<1>4. TypeOK'
  <2>1. linked' \in [Peer -> BOOLEAN] /\ hold' \in [Peer -> BOOLEAN]
    BY <1>0 DEF Process, TypeOK
  <2> QED
    BY <1>0, <1>1, <1>2, <1>3, <2>1 DEF TypeOK
<1>5. SendInv'
  <2> SUFFICES ASSUME NEW q \in Peer
               PROVE  /\ snd_pid[q] = written[q]
                      /\ \A e \in snd_buf'[q] : e.pid < snd_pid[q] /\ e.msg = e.pid + 1
    BY <1>1 DEF SendInv
  <2>1. CASE q = p
    BY <2>1, <1>0, <1>2 DEF SendInv
  <2>2. CASE q # p
    BY <2>2, <1>0, <1>2 DEF SendInv
  <2> QED
    BY <2>1, <2>2
<1>6. ASSUME NEW q \in Peer, NEW pid, HasRecord(q, pid)
      PROVE  HasRecord(q, pid)'
  BY <1>1, <1>3, <1>6 DEF HasRecord
<1>7. NetInv'
  BY <1>0, <1>1, <1>6, TypeFacts DEF NetInv
<1>8. RecInv'
  <2> SUFFICES ASSUME NEW q \in Peer, NEW e \in rcv_buf'[q]
               PROVE  /\ rcv_pid[q] <= e.pid /\ e.pid < rcv_pid[q] + RecSize
                      /\ e.pid < snd_pid[Other(q)] /\ e.msg = e.pid + 1
    BY <1>0, <1>1 DEF RecInv
  <2>1. CASE q = p /\ e \notin rcv_buf[p]
    BY <2>1, <1>3
  <2>2. CASE e \in rcv_buf[q]
    BY <2>2, <1>0 DEF RecInv
  <2> QED
    BY <2>1, <2>2, <1>3
<1>9. AckInv'
  <2> SUFFICES ASSUME NEW q \in Peer, NEW i \in 1 .. Len(rec_ack'[q])
               PROVE  HasRecord(q, rec_ack[q][i])'
    BY DEF AckInv
  <2>1. CASE q = p
    BY <2>1, <1>3
  <2>2. CASE q # p
    BY <2>2, <1>0, <1>3, <1>6 DEF AckInv
  <2> QED
    BY <2>1, <2>2
<1>10. NothingLost'
  <2> SUFFICES ASSUME NEW q \in Peer, NEW pid \in PacketId, pid < snd_pid[q]
               PROVE  (\E e \in snd_buf'[q] : e.pid = pid) \/ HasRecord(Other(q), pid)'
    BY <1>1 DEF NothingLost
  <2>1. Other(q) \in Peer
    BY OtherPeer
  <2>2. CASE HasRecord(Other(q), pid)
    BY <2>1, <2>2, <1>6
  <2>3. CASE ~ HasRecord(Other(q), pid)
    <3>1. PICK f \in snd_buf[q] : f.pid = pid
      BY <2>3, <1>0 DEF NothingLost
    <3>2. CASE q = p
      <4>1. pid \notin m.acks
        BY <2>3, <3>2, <1>0 DEF NetInv
      <4> QED
        BY <3>1, <3>2, <4>1, <1>2
    <3>3. CASE q # p
      BY <3>1, <3>3, <1>2
    <3> QED
      BY <3>2, <3>3
  <2> QED
    BY <2>2, <2>3
<1> QED
  BY <1>4, <1>5, <1>7, <1>8, <1>9, <1>10 DEF IInv

-----------------------------------------------------------------------------
(* IInv is inductive: one step for each action. *)
THEOREM NextIInv == IInv /\ [Next]_vars => IInv'
<1> SUFFICES ASSUME IInv, [Next]_vars PROVE IInv'
  OBVIOUS
<1>0. TypeOK
  BY DEF IInv
<1>1. ASSUME NEW p \in Peer, InitialHandshake(p) PROVE IInv'
  <2>1. "RESET" \in Op /\ state' \in [Peer -> State]
    BY <1>0, <1>1 DEF InitialHandshake, TypeOK, Op, State
  <2> QED
    BY <1>1, <2>1, NewRecordStep DEF InitialHandshake
<1>2. ASSUME NEW p \in Peer, Write(p) PROVE IInv'
  <2>1. "CONTROL" \in Op /\ state' \in [Peer -> State]
    BY <1>0, <1>2 DEF Write, TypeOK, Op
  <2> QED
    BY <1>2, <2>1, NewRecordStep DEF Write
<1>3. ASSUME UNCHANGED <<linked, hold, snd_pid, snd_buf, rcv_pid, rcv_buf, rec_ack,
                         written, delivered>>,
             state' \in [Peer -> State], net' \subseteq net
      PROVE  IInv'
  <2>1. TypeOK'
    BY <1>0, <1>3 DEF TypeOK
  <2>2. SameRecords /\ AcksShrink /\ PacketsFromBuffers
    BY <1>3 DEF SameRecords, AcksShrink, PacketsFromBuffers
  <2> QED
    BY <1>3, <2>1, <2>2, QuietStep
<1>4. ASSUME NEW p \in Peer, ReceivedInitialAck(p) PROVE IInv'
  BY <1>0, <1>3, <1>4 DEF ReceivedInitialAck, TypeOK, State
<1>5. ASSUME NEW p \in Peer, SendReliable(p) PROVE IInv'
  BY <1>5, SendReliableStep
<1>6. ASSUME NEW p \in Peer, SendAck(p) PROVE IInv'
  BY <1>6, SendAckStep
<1>7. ASSUME NEW p \in Peer, Deliver(p) PROVE IInv'
  BY <1>7, DeliverStep
<1>8. ASSUME NEW p \in Peer, NEW pid, RetryTime(p, pid) PROVE IInv'
  BY <1>8, RetryTimeStep
<1>9. ASSUME NEW p \in Peer, NEW m \in net, Receive(p, m) \/ ReceiveDuplicate(p, m)
      PROVE  IInv'
  <2>1. m.from = Other(p) /\ net' \subseteq net
    BY <1>9 DEF Receive, ReceiveDuplicate
  <2>2. CASE Process(p, m)
    BY <2>1, <2>2, ProcessStep
  <2>3. CASE Discard(p, m)
    BY <1>0, <1>3, <2>1, <2>3 DEF Discard, TypeOK
  <2> QED
    BY <1>9, <2>2, <2>3 DEF Receive, ReceiveDuplicate
<1>10. ASSUME NEW m \in net, Lose(m) PROVE IInv'
  BY <1>0, <1>3, <1>10 DEF Lose, TypeOK
<1>11. CASE UNCHANGED vars
  BY <1>0, <1>3, <1>11 DEF vars, TypeOK
<1> QED
  BY <1>1, <1>2, <1>4, <1>5, <1>6, <1>7, <1>8, <1>9, <1>10, <1>11 DEF Next

THEOREM Invariance == Spec => []IInv
<1>1. Init => IInv
  BY InitIInv
<1>2. IInv /\ [Next]_vars => IInv'
  BY NextIInv
<1> QED
  BY <1>1, <1>2, PTL DEF Spec

-----------------------------------------------------------------------------
(* Every variable keeps its type in every execution. *)
THEOREM TypeCorrect == Spec => []TypeOK
<1>1. IInv => TypeOK
  BY DEF IInv
<1> QED
  BY <1>1, Invariance, PTL

(* tls_process hands the TLS object the records of the other peer complete,
   once and in order, whatever the link does (ssl.c:2351). *)
THEOREM DeliveryInOrder == Spec => []InOrderDelivery
<1>1. IInv => InOrderDelivery
  <2> SUFFICES ASSUME IInv, NEW p \in Peer
               PROVE  /\ Len(delivered[p]) <= written[Other(p)]
                      /\ \A i \in 1 .. Len(delivered[p]) : delivered[p][i] = i
    BY DEF InOrderDelivery
  <2>1. /\ rcv_pid[p] = Len(delivered[p]) /\ rcv_pid[p] <= snd_pid[Other(p)]
        /\ \A i \in 1 .. Len(delivered[p]) : delivered[p][i] = i
    BY DEF IInv, RecInv
  <2>2. snd_pid[Other(p)] = written[Other(p)]
    BY OtherPeer DEF IInv, SendInv
  <2> QED
    BY <2>1, <2>2
<1> QED
  BY <1>1, Invariance, PTL

(* reliable_send_purge never deletes a record the other peer lacks. *)
THEOREM Lossless == Spec => []NothingLost
<1>1. IInv => NothingLost
  BY DEF IInv
<1> QED
  BY <1>1, Invariance, PTL

(* The deadlock reliable_wont_break_sequentiality is there to avoid: the ids
   in the receive buffer are distinct and lie in a window of RecSize, so if
   the first of them were missing a buffer would be free. *)
THEOREM BufferNeverClogs == Spec => []ReceiveBufferNeverClogs
<1>1. IInv => ReceiveBufferNeverClogs
  <2> SUFFICES ASSUME IInv, NEW p \in Peer, \A e \in rcv_buf[p] : e.pid # rcv_pid[p]
               PROVE  can_get(p)
    BY DEF ReceiveBufferNeverClogs
  <2> DEFINE rest == rcv_pid[p] + 1 .. rcv_pid[p] + RecSize - 1
             f == [e \in rcv_buf[p] |-> e.pid]
  <2>1. rcv_pid[p] \in Nat /\ rcv_buf[p] \subseteq RecEntry
    BY TypeFacts DEF IInv, PacketId
  <2>2. \A e \in rcv_buf[p] : /\ rcv_pid[p] <= e.pid /\ e.pid < rcv_pid[p] + RecSize
                            /\ e.msg = e.pid + 1
    BY DEF IInv, RecInv
  <2>3. \A e \in rcv_buf[p] : e.pid \in Nat /\ e = [pid |-> e.pid, msg |-> e.msg]
    BY <2>1 DEF RecEntry, PacketId
  <2>4. \A e \in rcv_buf[p] : e.pid \in rest
    BY <2>1, <2>2, <2>3
  <2>5. \A d, e \in rcv_buf[p] : d.pid = e.pid => d = e
    BY <2>2, <2>3
  <2>6. f \in Injection(rcv_buf[p], rest)
    BY <2>4, <2>5 DEF Injection, IsInjective
  <2>7. IsFiniteSet(rest) /\ Cardinality(rest) = RecSize - 1
    <3>1. /\ rcv_pid[p] + 1 \in Int /\ rcv_pid[p] + RecSize - 1 \in Int
      BY <2>1
    <3>2. /\ IsFiniteSet(rest)
          /\ Cardinality(rest) =
               IF rcv_pid[p] + 1 > rcv_pid[p] + RecSize - 1 THEN 0
               ELSE (rcv_pid[p] + RecSize - 1) - (rcv_pid[p] + 1) + 1
      BY <3>1, FS_Interval
    <3> QED
      BY <3>2, <2>1
  <2>8. IsFiniteSet(rcv_buf[p]) /\ Cardinality(rcv_buf[p]) <= RecSize - 1
    <3> HIDE DEF f, rest
    <3> QED
      BY <2>6, <2>7, FS_Injection
  <2>9. Cardinality(rcv_buf[p]) \in Nat
    BY <2>8, FS_CardinalityType
  <2> QED
    BY <2>8, <2>9 DEF can_get
<1> QED
  BY <1>1, Invariance, PTL

-----------------------------------------------------------------------------
(* The window of the sender: each entry is at most SendSize ids old.  Needs a
   lowest entry to exist, since get_buf_output_sequenced only looks at that. *)
LEMMA LowestExists ==
  ASSUME NEW S \in SUBSET Nat, S # {}
  PROVE  \E x \in S : \A y \in S : x <= y
<1> DEFINE R == OpToRel(<, Nat)
<1>1. IsWellFoundedOn(R, Nat)
  BY NatLessThanWellFounded
<1>2. \E x \in S : \A y \in S : ~ (<<y, x>> \in R)
  <2> HIDE DEF R
  <2> QED
    BY <1>1, WFMin
<1>3. \A x, y \in Nat : y < x => <<y, x>> \in R
  BY DEF OpToRel
<1>4. PICK x \in S : \A y \in S : ~ (<<y, x>> \in R)
  BY <1>2
<1>5. ASSUME NEW y \in S PROVE x <= y
  <2> HIDE DEF R
  <2>1. x \in Nat /\ y \in Nat
    OBVIOUS
  <2>2. ~ (y < x)
    BY <2>1, <1>3, <1>4
  <2> QED
    BY <2>1, <2>2
<1> QED
  BY <1>5

LEMMA WindowStep ==
  ASSUME IInv, SendWindowBound, [Next]_vars
  PROVE  SendWindowBound'
<1>0. TypeOK /\ SendInv /\ RecInv
  BY DEF IInv
<1>1. ASSUME NEW p \in Peer, NEW op \in Op, get_buf_output_sequenced(p),
             mark_active_outgoing(p, op)
      PROVE  SendWindowBound'
  <2>1. /\ snd_pid[p] \in 0 .. Half - 1 /\ Plus(snd_pid[p], 1) = snd_pid[p] + 1
        /\ snd_buf[p] \subseteq SendEntry
        /\ \A e \in snd_buf[p] : e.pid < snd_pid[p]
    BY <1>0, SmallIds, TypeFacts DEF SendInv
  <2>2. ASSUME NEW e \in snd_buf[p] PROVE e.pid \in 0 .. Half - 1 /\ e.pid <= snd_pid[p]
    BY <2>1 DEF SendEntry, PacketId
  <2>3. ASSUME NEW e \in snd_buf[p] PROVE snd_pid[p] + 1 <= e.pid + SendSize
    <3> DEFINE ids == {d.pid : d \in snd_buf[p]}
    <3>1. ids \in SUBSET Nat /\ ids # {}
      BY <2>2, <2>3
    <3>2. PICK x \in ids : \A y \in ids : x <= y
      <4> HIDE DEF ids
      <4> QED
        BY <3>1, LowestExists
    <3>3. PICK d \in snd_buf[p] : d.pid = x
      BY <3>2
    <3>4. \A g \in snd_buf[p] : d.pid <= g.pid
      BY <3>2, <3>3
    <3>5. ASSUME NEW g \in snd_buf[p] PROVE ~ reliable_pid_min(g.pid, d.pid)
      BY <2>2, <3>4, MinIsLess
    <3>6. reliable_pid_in_range1(snd_pid[p], d.pid, SendSize)
      BY <1>1, <3>5 DEF get_buf_output_sequenced, IsLowest
    <3>7. snd_pid[p] < d.pid + SendSize
      BY <3>6, <2>1, <2>2, Range1IsWindow
    <3> QED
      BY <3>4, <3>7, <2>1, <2>2, <2>3
  <2> SUFFICES ASSUME NEW q \in Peer, NEW e \in snd_buf'[q]
               PROVE  snd_pid'[q] <= e.pid + SendSize
    BY DEF SendWindowBound
  <2>4. CASE q # p
    BY <2>4, <1>0, <1>1 DEF mark_active_outgoing, TypeOK, SendWindowBound
  <2>5. CASE q = p /\ e \in snd_buf[p]
    BY <2>1, <2>3, <2>5, <1>0, <1>1 DEF mark_active_outgoing, TypeOK
  <2>6. CASE q = p /\ e \notin snd_buf[p]
    <3>1. e.pid = snd_pid[p] /\ snd_pid'[p] = snd_pid[p] + 1
      BY <2>1, <2>6, <1>0, <1>1 DEF mark_active_outgoing, TypeOK
    <3> QED
      BY <2>1, <2>6, <3>1
  <2> QED
    BY <2>4, <2>5, <2>6
<1>2. ASSUME snd_pid' = snd_pid,
             \A q \in Peer : \A e \in snd_buf'[q] : \E f \in snd_buf[q] : e.pid = f.pid
      PROVE  SendWindowBound'
  BY <1>2 DEF SendWindowBound
<1>3. ASSUME NEW p \in Peer, NEW pid, SendReliable(p) \/ RetryTime(p, pid)
      PROVE  SendWindowBound'
  <2>1. PICK e \in snd_buf[p], due \in BOOLEAN :
          snd_buf' = [snd_buf EXCEPT ![p] = (@ \ {e}) \cup {[e EXCEPT !.due = due]}]
    BY <1>3 DEF SendReliable, RetryTime, Due
  <2> DEFINE sent == [e EXCEPT !.due = due]
  <2>2. sent.pid = e.pid
    BY <1>0, TypeFacts DEF SendEntry
  <2>3. \A q \in Peer : snd_buf'[q] \subseteq snd_buf[q] \/ (q = p /\ snd_buf'[q] = (snd_buf[q] \ {e}) \cup {sent})
    BY <2>1, <1>0 DEF TypeOK
  <2>4. snd_pid' = snd_pid
    BY <1>3 DEF SendReliable, RetryTime
  <2> HIDE DEF sent
  <2> QED
    BY <2>2, <2>3, <2>4, <1>2
<1>4. ASSUME NEW p \in Peer, NEW m \in net, Receive(p, m) \/ ReceiveDuplicate(p, m)
      PROVE  SendWindowBound'
  <2>1. CASE Process(p, m)
    <3>1. /\ \A q \in Peer : q # p => snd_buf'[q] = snd_buf[q]
          /\ \A e \in snd_buf'[p] : \E f \in snd_buf[p] : e.pid = f.pid
      BY <2>1, <1>0, ProcessPurges
    <3> QED
      BY <3>1, <2>1, <1>2 DEF Process
  <2>2. CASE Discard(p, m)
    BY <2>2, <1>2 DEF Discard
  <2> QED
    BY <1>4, <2>1, <2>2 DEF Receive, ReceiveDuplicate
<1>5. ASSUME UNCHANGED <<snd_pid, snd_buf>> PROVE SendWindowBound'
  BY <1>5 DEF SendWindowBound
<1>6. ASSUME NEW p \in Peer, InitialHandshake(p) \/ Write(p) PROVE SendWindowBound'
  BY <1>1, <1>6 DEF InitialHandshake, Write, Op
<1>7. ASSUME NEW p \in Peer, ReceivedInitialAck(p) \/ SendAck(p) \/ Deliver(p)
      PROVE  SendWindowBound'
  BY <1>5, <1>7 DEF ReceivedInitialAck, SendAck, Deliver
<1>8. ASSUME NEW m \in net, Lose(m) PROVE SendWindowBound'
  BY <1>5, <1>8 DEF Lose
<1>9. CASE UNCHANGED vars
  BY <1>5, <1>9 DEF vars
<1> QED
  BY <1>3, <1>4, <1>6, <1>7, <1>8, <1>9 DEF Next

(* No peer ever writes a record more than SendSize ids beyond the oldest one
   still unacknowledged (reliable_get_buf_output_sequenced, reliable.c:447). *)
THEOREM WindowRespected == Spec => []SendWindowBound
<1>1. Init => SendWindowBound
  BY DEF Init, SendWindowBound
<1>2. IInv /\ SendWindowBound /\ [Next]_vars => SendWindowBound'
  BY WindowStep
<1> QED
  BY <1>1, <1>2, Invariance, PTL DEF Spec

-----------------------------------------------------------------------------
(* The layer implements ControlStream: InitialHandshake and Write are its     *)
(* Write, Deliver is its Deliver, and every other action stutters.            *)
LEMMA StreamStep ==
  ASSUME IInv, [Next]_vars
  PROVE  [Stream!Next]_(Stream!vars)
<1>0. TypeOK /\ SendInv /\ RecInv
  BY DEF IInv
<1>1. Stream!Peer = Peer /\ \A p \in Peer : Stream!Other(p) = Other(p)
  BY DEF Stream!Peer, Peer, Stream!Other, Other
<1>2. ASSUME NEW p \in Peer, InitialHandshake(p) \/ Write(p)
      PROVE  Stream!Next
  <2>1. Stream!Write(p)
    BY <1>2 DEF InitialHandshake, Write, mark_active_outgoing, Stream!Write
  <2> QED
    BY <1>1, <2>1 DEF Stream!Next
<1>3. ASSUME NEW p \in Peer, Deliver(p)
      PROVE  Stream!Next
  <2>1. PICK e \in rcv_buf[p] :
          e.pid = rcv_pid[p] /\ delivered' = [delivered EXCEPT ![p] = Append(@, e.msg)]
    BY <1>3 DEF Deliver
  <2>2. /\ e.msg = Len(delivered[p]) + 1
        /\ Len(delivered[p]) < snd_pid[Other(p)]
    BY <2>1, <1>0 DEF RecInv
  <2>3. snd_pid[Other(p)] = written[Other(p)]
    BY <1>0, OtherPeer DEF SendInv
  <2>4. written' = written
    BY <1>3 DEF Deliver
  <2>5. Stream!Deliver(p)
    BY <1>1, <2>1, <2>2, <2>3, <2>4 DEF Stream!Deliver
  <2> QED
    BY <1>1, <2>5 DEF Stream!Next
<1>4. ASSUME UNCHANGED <<written, delivered>> PROVE [Stream!Next]_(Stream!vars)
  BY <1>4 DEF Stream!vars
<1>5. ASSUME NEW p \in Peer, NEW pid,
             \/ ReceivedInitialAck(p) \/ SendReliable(p) \/ SendAck(p)
             \/ RetryTime(p, pid)
      PROVE  UNCHANGED <<written, delivered>>
  BY <1>5 DEF ReceivedInitialAck, SendReliable, SendAck, RetryTime
<1>6. ASSUME NEW p \in Peer, NEW m \in net, Receive(p, m) \/ ReceiveDuplicate(p, m)
      PROVE  UNCHANGED <<written, delivered>>
  BY <1>6 DEF Receive, ReceiveDuplicate, Process, Discard
<1>7. ASSUME NEW m \in net, Lose(m) PROVE UNCHANGED <<written, delivered>>
  BY <1>7 DEF Lose
<1>8. CASE UNCHANGED vars
  BY <1>4, <1>8 DEF vars
<1> QED
  BY <1>2, <1>3, <1>4, <1>5, <1>6, <1>7, <1>8 DEF Next

(* Whatever the link does, what the TLS objects see is the stream of          *)
(* ControlStream: records complete, once and in order.                        *)
THEOREM RefinesStream == Spec => StreamSpec
<1>1. Init => Stream!Init
  BY DEF Init, Stream!Init, Stream!Peer, Peer
<1>2. IInv /\ [Next]_vars => [Stream!Next]_(Stream!vars)
  BY StreamStep
<1> QED
  BY <1>1, <1>2, Invariance, PTL DEF Spec, StreamSpec
=============================================================================
